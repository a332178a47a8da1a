--------------------------- MODULE Startup_proofs ---------------------------
(***************************************************************************)
(* Theorems about the start of a node: what the STUN tests may conclude    *)
(* from answers that come late, what an interrupted update leaves of the   *)
(* environment file, and the types of both and of the process around them, *)
(* for every number of faults, retries and answers under way.              *)
(***************************************************************************)
EXTENDS Startup, TLAPS

FilteringTests == {"filtering1", "filtering2", "filtering3"}

\* The requests that were sent, in this process and in earlier ones.  A router
\* that maps all destinations alike is never asked mapping test III, so nothing
\* went to other:2; and no test sends to primary:2.
HolesMade ==
    /\ "primary:2" \notin holes
    /\ router.map = "endpoint" =>
         /\ "other:2" \notin holes /\ test # "mapping3"
         /\ test = "mapping2" => first = "any"

\* The one answer that can be on its way is to the request just sent.
OnlyTarget == \A e \in Endpoints : way[e] <= IF asked /\ e = Target(test) THEN 1 ELSE 0

\* In a process whose tests began with nothing on its way: no answer of one
\* test is left for the next, except that of filtering test II for III; and
\* both of these are let in only by a router behind which one is reachable.
AnswersFit ==
    tidy =>
      /\ test = "mapping1" => OnlyTarget
      /\ test = "mapping2" => OnlyTarget /\ first = External("primary:1")
      /\ test \in FilteringTests /\ mapping = "endpoint" =>
           /\ router.map = "endpoint"
           /\ test = "filtering1" => OnlyTarget
           /\ test = "filtering2" /\ ~asked => OnWay = {}
           /\ test \in {"filtering2", "filtering3"} /\ OnWay # {} => Reachable

NatInv == HolesMade /\ AnswersFit /\ NoFalseReachability

-----------------------------------------------------------------------------
(* NatInfo.                                                                *)

\* With nothing on the way no count is positive, and the other way round.
LEMMA NothingOnWay ==
    ASSUME NatTypeOK
    PROVE  OnWay = {} <=> \A e \in Endpoints : way[e] = 0
BY DEF NatTypeOK, OnWay

\* The outcome of NatInit.
LEMMA NatInitInv == ASSUME NatInit PROVE NatTypeOK /\ NatInv
<1>1. NatTypeOK
  <2>1. way \in [Endpoints -> Nat] /\ holes \in SUBSET Endpoints
    BY DEF NatInit
  <2>2. faults \in 0..MaxFaults
    BY NatAssumption DEF NatInit
  <2>3. first \in Externals /\ second \in Externals
    BY DEF NatInit, Externals
  <2> QED
    BY <2>1, <2>2, <2>3 DEF NatInit, NatTypeOK
<1>2. NatInv
  BY DEF NatInit, NatInv, HolesMade, AnswersFit, NoFalseReachability, FilteringTests
<1> QED
  BY <1>1, <1>2

\* A filtering answer from another endpoint gets in only past a filter that
\* does not look at the port.
LEMMA LetIn ==
    ASSUME NatTypeOK, HolesMade, router.map = "endpoint",
           NEW src \in {"other:2", "primary:2"}, Passes(src, holes \cup {"primary:1"})
    PROVE  Reachable
BY DEF NatTypeOK, HolesMade, Passes, Reachable, Behaviours, External

\* getNatInfo binds the port.
LEMMA BeginInv == ASSUME NatTypeOK, NatInv, Begin PROVE NatTypeOK' /\ NatInv'
<1>1. NatTypeOK'
  <2>1. tidy' \in BOOLEAN
    BY DEF NatTypeOK, Begin
  <2>2. faults' \in 0..MaxFaults
    BY NatAssumption DEF NatTypeOK, Begin, Fault, Fine
  <2>3. /\ test' \in Tests \cup {"none", "panic"}
        /\ port' \in {"free", "test", "leaked", "host"}
        /\ mapping' \in Behaviours \cup {"unknown", "error"}
        /\ first' \in Externals /\ second' \in Externals /\ asked' \in BOOLEAN
    BY DEF NatTypeOK, Begin, Tests, MappingTests, Externals
  <2> QED
    BY <2>1, <2>2, <2>3 DEF NatTypeOK, Begin
<1>2. HolesMade'
  BY DEF NatInv, HolesMade, Begin
<1>3. AnswersFit'
  <2>1. CASE port = "free" /\ test' = "mapping1"
    <3>1. tidy' => \A e \in Endpoints : way'[e] = 0
      BY <2>1, NothingOnWay DEF Begin
    <3>2. tidy' => OnlyTarget'
      BY <3>1 DEF OnlyTarget
    <3> QED
      BY <2>1, <3>2 DEF AnswersFit, FilteringTests
  <2>2. CASE test' = "panic"
    BY <2>2 DEF AnswersFit, FilteringTests
  <2> QED
    BY <2>1, <2>2 DEF Begin
<1>4. NoFalseReachability'
  BY DEF NatInv, NoFalseReachability, Begin, Reachable, NatTypeOK
<1> QED
  BY <1>1, <1>2, <1>3, <1>4 DEF NatInv

\* A round trip sends its request.
LEMMA AskInv == ASSUME NatTypeOK, NatInv, Ask PROVE NatTypeOK' /\ NatInv'
<1> DEFINE through == holes \cup {Target(test)}
<1>0. /\ test \in Tests /\ ~asked /\ asked' = TRUE /\ holes' = through
      /\ UNCHANGED <<router, port, test, first, second, mapping, natReachability, tidy, faults>>
      /\ \/ way' = way
         \/ /\ test \in MappingTests \/ Passes(Source(test), through)
            /\ way' = [way EXCEPT ![Target(test)] = @ + 1]
  BY DEF Ask, Fine
<1>1. Target(test) \in Endpoints /\ Target(test) # "primary:2"
  BY DEF Target, Endpoints
<1>2. NatTypeOK'
  BY <1>0, <1>1 DEF NatTypeOK
<1>3. HolesMade'
  BY <1>0, <1>1 DEF NatInv, HolesMade, Target
<1>4. AnswersFit'
  <2> SUFFICES ASSUME tidy' PROVE
        /\ test' = "mapping1" => OnlyTarget'
        /\ test' = "mapping2" => OnlyTarget' /\ first' = External("primary:1")'
        /\ test' \in FilteringTests /\ mapping' = "endpoint" =>
             /\ router'.map = "endpoint"
             /\ test' = "filtering1" => OnlyTarget'
             /\ test' = "filtering2" /\ ~asked' => OnWay' = {}
             /\ test' \in {"filtering2", "filtering3"} /\ OnWay' # {} => Reachable'
    BY DEF AnswersFit
  <2>0. tidy
    BY <1>0
  <2>1. ASSUME OnlyTarget PROVE OnlyTarget'
    BY <2>1, <1>0, <1>1 DEF OnlyTarget, NatTypeOK, Target
  <2>2. External("primary:1")' = External("primary:1")
    BY <1>0 DEF External
  <2>3. CASE test \in {"mapping1", "mapping2"}
    BY <2>0, <2>1, <2>2, <2>3, <1>0 DEF NatInv, AnswersFit, FilteringTests
  <2>4. CASE test \in FilteringTests /\ mapping = "endpoint"
    <3>1. router.map = "endpoint" /\ (test = "filtering1" => OnlyTarget)
      BY <2>0, <2>4 DEF NatInv, AnswersFit
    <3>2. ASSUME test \in {"filtering2", "filtering3"}, OnWay' # {} PROVE Reachable'
      <4>1. CASE way' = way
        <5>1. OnWay # {}
          BY <4>1, <3>2 DEF OnWay
        <5> QED
          BY <5>1, <3>2, <2>0, <2>4, <1>0 DEF NatInv, AnswersFit, Reachable
      <4>2. CASE Passes(Source(test), through)
        <5>1. Source(test) \in {"other:2", "primary:2"} /\ Target(test) = "primary:1"
          BY <3>2 DEF Source, Target
        <5>2. Reachable
          BY <5>1, <4>2, <3>1, LetIn DEF NatInv
        <5> QED
          BY <5>2, <1>0 DEF Reachable
      <4> QED
        BY <4>1, <4>2, <3>2, <1>0 DEF MappingTests
    <3> QED
      BY <3>1, <3>2, <2>1, <1>0, <2>4 DEF FilteringTests
  <2>5. CASE test = "mapping3" \/ (test \in FilteringTests /\ mapping # "endpoint")
    BY <2>5, <1>0 DEF FilteringTests
  <2> QED
    BY <2>3, <2>4, <2>5, <1>0 DEF Tests, MappingTests, FilteringTests
<1>5. NoFalseReachability'
  BY <1>0 DEF NatInv, NoFalseReachability, Reachable
<1> QED
  BY <1>2, <1>3, <1>4, <1>5 DEF NatInv

\* What every step of getNatInfo after Ask leaves alone, and its types.
Goes ==
    /\ UNCHANGED <<router, holes, tidy>>
    /\ way' \in [Endpoints -> Nat] /\ faults' \in 0..MaxFaults
    /\ first' \in Externals /\ second' \in Externals

\* The mapping tests end.  They may say "endpoint" only of a router that does
\* map so, and with no answer left.
LEMMA MappingEndsInv ==
    ASSUME NatTypeOK, NatInv, Goes,
           NEW result \in Behaviours \cup {"error"}, MappingEnds(result),
           tidy /\ result = "endpoint" =>
             router.map = "endpoint" /\ \A e \in Endpoints : way'[e] = 0
    PROVE  NatTypeOK' /\ NatInv'
<1>1. NatTypeOK'
  BY DEF NatTypeOK, Goes, MappingEnds, Tests
<1>2. HolesMade'
  BY DEF NatInv, HolesMade, Goes, MappingEnds
<1>3. AnswersFit'
  BY DEF AnswersFit, OnlyTarget, Goes, MappingEnds
<1>4. NoFalseReachability'
  BY DEF NatInv, NoFalseReachability, Reachable, Goes, MappingEnds
<1> QED
  BY <1>1, <1>2, <1>3, <1>4 DEF NatInv

\* The filtering tests end.  They may say that the filter lets others in only
\* when it does.
LEMMA FilteringEndsInv ==
    ASSUME NatTypeOK, NatInv, Goes,
           NEW filtering, NEW left \in BOOLEAN, FilteringEnds(filtering, left),
           tidy /\ mapping = "endpoint" /\ filtering \in {"endpoint", "address"} => Reachable
    PROVE  NatTypeOK' /\ NatInv'
<1>0. test' \in {"none", "panic"} /\ asked' = FALSE /\ mapping' = mapping
  BY DEF FilteringEnds
<1>1. NatTypeOK'
  <2>1. natReachability' \in BOOLEAN
    BY DEF FilteringEnds, NatTypeOK
  <2>2. port' \in {"free", "leaked"}
    BY DEF FilteringEnds
  <2> QED
    BY <1>0, <2>1, <2>2 DEF NatTypeOK, Goes
<1>2. HolesMade'
  BY <1>0 DEF NatInv, HolesMade, Goes
<1>3. AnswersFit'
  BY <1>0 DEF AnswersFit, FilteringTests
<1>4. NoFalseReachability'
  BY DEF NatInv, NoFalseReachability, Reachable, Goes, FilteringEnds
<1> QED
  BY <1>1, <1>2, <1>3, <1>4 DEF NatInv

\* The next test begins, under the conditions that its part of the invariant
\* states.
LEMMA NextTestInv ==
    ASSUME NatTypeOK, NatInv, Goes,
           NEW t \in {"mapping2", "mapping3", "filtering2", "filtering3"}, NextTest(t),
           t = "mapping2" =>
             /\ router.map = "endpoint" => first' = "any"
             /\ tidy => first' = External("primary:1") /\ \A e \in Endpoints : way'[e] = 0,
           t = "mapping3" => router.map # "endpoint",
           tidy /\ mapping = "endpoint" /\ t \in FilteringTests =>
             /\ router.map = "endpoint"
             /\ t = "filtering2" => OnWay' = {}
             /\ OnWay' # {} => Reachable
    PROVE  NatTypeOK' /\ NatInv'
<1>1. NatTypeOK'
  BY DEF NatTypeOK, Goes, NextTest, Tests, MappingTests
<1>2. HolesMade'
  BY DEF NatInv, HolesMade, Goes, NextTest, External
<1>3. AnswersFit'
  <2>1. External("primary:1")' = External("primary:1") /\ (Reachable => Reachable')
    BY DEF External, Goes, Reachable
  <2>2. t = "mapping2" /\ tidy => OnlyTarget'
    BY DEF OnlyTarget
  <2> QED
    BY <2>1, <2>2 DEF AnswersFit, Goes, NextTest, FilteringTests
<1>4. NoFalseReachability'
  BY DEF NatInv, NoFalseReachability, Reachable, Goes, NextTest
<1> QED
  BY <1>1, <1>2, <1>3, <1>4 DEF NatInv

\* An answer's external address is one.
LEMMA ExternalType == ASSUME NatTypeOK, NEW e \in Endpoints PROVE External(e) \in Externals
BY DEF External, Externals, Address

\* A round trip takes an answer.
LEMMA AnswerInv ==
    ASSUME NatTypeOK, NatInv, NEW e \in Endpoints, Answer(e)
    PROVE  NatTypeOK' /\ NatInv'
<1>0. /\ asked /\ way[e] > 0 /\ way' = [way EXCEPT ![e] = @ - 1]
      /\ UNCHANGED <<router, holes, tidy, faults>>
  BY DEF Answer, Fine
<1>1. way' \in [Endpoints -> Nat]
  BY <1>0 DEF NatTypeOK
<1>2. ASSUME first' \in Externals, second' \in Externals PROVE Goes
  BY <1>0, <1>1, <1>2 DEF Goes, NatTypeOK
<1>3. ASSUME OnlyTarget
      PROVE  e = Target(test) /\ \A x \in Endpoints : way'[x] = 0
  BY <1>3, <1>0 DEF OnlyTarget, NatTypeOK
<1>4. CASE test = "mapping1" /\ first' = External(e) /\ UNCHANGED second /\ NextTest("mapping2")
  <2>1. Goes
    BY <1>2, <1>4, ExternalType DEF NatTypeOK
  <2>2. tidy => e = "primary:1" /\ \A x \in Endpoints : way'[x] = 0
    BY <1>3, <1>4 DEF NatInv, AnswersFit, Target
  <2>3. router.map = "endpoint" => External(e) = "any"
    BY DEF External
  <2> QED
    BY <2>1, <2>2, <2>3, <1>4, NextTestInv DEF FilteringTests
<1>5. CASE /\ test = "mapping2" /\ second' = External(e) /\ UNCHANGED first
           /\ IF External(e) = first THEN MappingEnds("endpoint") ELSE NextTest("mapping3")
  <2>1. Goes
    BY <1>2, <1>5, ExternalType DEF NatTypeOK
  <2>2. CASE External(e) = first
    <3>1. tidy => /\ e = "other:1" /\ first = External("primary:1")
                  /\ \A x \in Endpoints : way'[x] = 0
      BY <1>3, <1>5 DEF NatInv, AnswersFit, Target
    <3>2. External("other:1") = External("primary:1") => router.map = "endpoint"
      BY DEF External, Address
    <3>3. "endpoint" \in Behaviours \cup {"error"}
      BY DEF Behaviours
    <3> QED
      BY <2>1, <2>2, <3>1, <3>2, <3>3, <1>5, MappingEndsInv
  <2>3. CASE External(e) # first
    <3>1. router.map # "endpoint"
      BY <2>3, <1>5 DEF NatInv, HolesMade, External
    <3> QED
      BY <2>1, <2>3, <3>1, <1>5, NextTestInv DEF FilteringTests
  <2> QED
    BY <2>2, <2>3
<1>6. CASE /\ test = "mapping3" /\ UNCHANGED <<first, second>>
           /\ MappingEnds(IF External(e) = second THEN "address" ELSE "port")
  <2>1. Goes
    BY <1>2, <1>6 DEF NatTypeOK
  <2>2. "address" \in Behaviours \cup {"error"} /\ "port" \in Behaviours \cup {"error"}
    BY DEF Behaviours
  <2> QED
    BY <2>1, <2>2, <1>6, MappingEndsInv
<1>7. CASE test = "filtering1" /\ UNCHANGED <<first, second>> /\ NextTest("filtering2")
  <2>1. Goes
    BY <1>2, <1>7 DEF NatTypeOK
  <2>2. tidy /\ mapping = "endpoint" => router.map = "endpoint" /\ \A x \in Endpoints : way'[x] = 0
    BY <1>3, <1>7 DEF NatInv, AnswersFit, FilteringTests
  <2>3. tidy /\ mapping = "endpoint" => OnWay' = {}
    BY <2>2 DEF OnWay
  <2> QED
    BY <2>1, <2>2, <2>3, <1>7, NextTestInv DEF FilteringTests
<1>8. CASE /\ test \in {"filtering2", "filtering3"} /\ UNCHANGED <<first, second>>
           /\ FilteringEnds("endpoint", FALSE) \/ FilteringEnds("address", FALSE)
  <2>1. Goes
    BY <1>2, <1>8 DEF NatTypeOK
  <2>2. tidy /\ mapping = "endpoint" => Reachable
    BY <1>0, <1>8 DEF NatInv, AnswersFit, FilteringTests, OnWay
  <2> QED
    BY <2>1, <2>2, <1>8, FilteringEndsInv
<1> QED
  BY <1>4, <1>5, <1>6, <1>7, <1>8 DEF Answer

\* Three seconds pass without an answer.
LEMMA TimeoutInv == ASSUME NatTypeOK, NatInv, Timeout PROVE NatTypeOK' /\ NatInv'
<1>0. Goes /\ way' = way
  BY NatAssumption DEF Timeout, Goes, Fine, Fault, NatTypeOK
<1>1. CASE MappingEnds("error")
  BY <1>0, <1>1, MappingEndsInv
<1>2. CASE FilteringEnds("unknown", TRUE)
  BY <1>0, <1>2, FilteringEndsInv
<1>3. CASE test = "filtering2" /\ NextTest("filtering3")
  <2>1. OnWay' = OnWay
    BY <1>0 DEF OnWay
  <2>2. tidy /\ mapping = "endpoint" => router.map = "endpoint" /\ (OnWay' # {} => Reachable)
    BY <2>1, <1>3 DEF NatInv, AnswersFit, FilteringTests
  <2> QED
    BY <1>0, <2>2, <1>3, NextTestInv
<1>4. CASE FilteringEnds("port", FALSE)
  BY <1>0, <1>4, FilteringEndsInv
<1> QED
  BY <1>1, <1>2, <1>3, <1>4 DEF Timeout, TimedOut

\* A round trip or the start of the filtering tests fails.
LEMMA FailureInv ==
    ASSUME NatTypeOK, NatInv, RoundTripFails \/ FilteringCannotStart
    PROVE  NatTypeOK' /\ NatInv'
<1>0. Goes
  <2>1. Fault /\ UNCHANGED <<router, holes, way, first, second, tidy>>
    BY DEF RoundTripFails, FilteringCannotStart
  <2> QED
    BY <2>1, NatAssumption DEF Goes, Fault, NatTypeOK
<1>1. CASE MappingEnds("error")
  BY <1>0, <1>1, MappingEndsInv
<1>2. CASE \E left \in BOOLEAN : FilteringEnds("unknown", left)
  BY <1>0, <1>2, FilteringEndsInv
<1> QED
  BY <1>1, <1>2 DEF RoundTripFails, FilteringCannotStart

\* An answer is lost.
LEMMA LoseAnswerInv ==
    ASSUME NatTypeOK, NatInv, NEW e \in Endpoints, LoseAnswer(e)
    PROVE  NatTypeOK' /\ NatInv'
<1>0. /\ way[e] > 0 /\ way' = [way EXCEPT ![e] = @ - 1]
      /\ UNCHANGED <<router, holes, port, test, asked, first, second, mapping,
                     natReachability, tidy>>
      /\ faults' \in 0..MaxFaults
  BY NatAssumption DEF LoseAnswer, Fault, NatTypeOK
<1>1. NatTypeOK'
  BY <1>0 DEF NatTypeOK
<1>2. OnWay' \subseteq OnWay /\ (OnlyTarget => OnlyTarget')
  BY <1>0 DEF OnWay, OnlyTarget, NatTypeOK, Target
<1>3. External("primary:1")' = External("primary:1") /\ (Reachable <=> Reachable')
  BY <1>0 DEF External, Reachable
<1>4. HolesMade' /\ NoFalseReachability'
  BY <1>0, <1>3 DEF NatInv, HolesMade, NoFalseReachability
<1>5. AnswersFit'
  BY <1>0, <1>2, <1>3 DEF NatInv, AnswersFit
<1> QED
  BY <1>1, <1>4, <1>5 DEF NatInv

\* All of getNatInfo.
LEMMA GetNatInfoInv == ASSUME NatTypeOK, NatInv, getNatInfo PROVE NatTypeOK' /\ NatInv'
BY AskInv, AnswerInv, TimeoutInv, FailureInv DEF getNatInfo

\* A step that is none of NAT detection, but may take the port.
LEMMA NatFrame ==
    ASSUME NatTypeOK, NatInv,
           UNCHANGED <<router, holes, way, test, asked, first, second, mapping,
                       natReachability, tidy>>,
           port' \in {"free", "test", "leaked", "host"}, faults' \in 0..MaxFaults
    PROVE  NatTypeOK' /\ NatInv'
<1>1. NatTypeOK'
  BY DEF NatTypeOK
<1>2. External("primary:1")' = External("primary:1") /\ (Reachable <=> Reachable')
  BY DEF External, Reachable
<1>3. OnWay' = OnWay /\ (OnlyTarget => OnlyTarget')
  BY DEF OnWay, OnlyTarget, Target
<1>4. NatInv'
  BY <1>2, <1>3 DEF NatInv, HolesMade, AnswersFit, NoFalseReachability
<1> QED
  BY <1>1, <1>4

\* The process ends: its conclusions go with it.
LEMMA EndsNat ==
    ASSUME NatTypeOK, NatInv, Ends, faults' \in 0..MaxFaults
    PROVE  NatTypeOK' /\ NatInv'
<1>1. NatTypeOK'
  BY DEF NatTypeOK, Ends, Externals
<1>2. NatInv'
  BY DEF NatInv, HolesMade, AnswersFit, NoFalseReachability, Ends, FilteringTests
<1> QED
  BY <1>1, <1>2

-----------------------------------------------------------------------------
(* EnvFile.                                                                *)

\* A file that is read later in an update was made earlier in it.
FilesThere ==
    /\ upc \in {"create", "write", "rename", "restore", "recopy"} => bak # NoFile
    /\ upc = "rename" => tmp # NoFile

\* Where all the settings are while an update that began with all of them is
\* under way, and after it: the file is overwritten only by a complete copy or
\* while the backup is complete, and the backup only while the file is.
SettingsKept ==
    whole =>
      /\ upc = "idle" => Complete
      /\ upc \in {"backup", "copy", "create", "write", "rename", "cleanup"} => Settings \subseteq env
      /\ upc \in {"backup", "copy", "create", "write", "rename"} => Settings \subseteq envMap
      /\ upc \in {"create", "write", "rename", "restore", "recopy"} => Settings \subseteq bak
      /\ upc = "rename" => Settings \subseteq tmp

EnvInv == FilesThere /\ SettingsKept

\* The content of a file is never taken for that of a missing one.
LEMMA ContentIsFile == ASSUME NEW c \in Contents PROVE c # NoFile
BY EnvAssumption DEF Contents, NoFile

\* The outcome of EnvInit.
LEMMA EnvInitInv == ASSUME EnvInit PROVE EnvTypeOK /\ EnvInv
<1>1. EnvTypeOK
  BY DEF EnvInit, EnvTypeOK, Contents
<1>2. EnvInv
  BY DEF EnvInit, EnvInv, FilesThere, SettingsKept, Complete
<1> QED
  BY <1>1, <1>2

\* The file is read.
LEMMA ReadEnvInv ==
    ASSUME EnvTypeOK, EnvInv, NEW key \in Extra, ReadEnv(key)
    PROVE  EnvTypeOK' /\ EnvInv'
<1>1. EnvTypeOK'
  <2>1. whole' \in BOOLEAN
    BY DEF ReadEnv
  <2> QED
    BY <2>1 DEF EnvTypeOK, ReadEnv, Contents
<1>2. EnvInv'
  BY DEF EnvInv, FilesThere, SettingsKept, ReadEnv
<1> QED
  BY <1>1, <1>2

\* The backup, the temporary file and the rename.
LEMMA WriteInv ==
    ASSUME EnvTypeOK, EnvInv, CreateBackup \/ CopyToBackup \/ CreateTemp \/ WriteTemp \/ Rename
    PROVE  EnvTypeOK' /\ EnvInv'
<1>1. EnvTypeOK'
  BY DEF EnvTypeOK, EnvInv, FilesThere, CreateBackup, CopyToBackup, CreateTemp, WriteTemp, Rename,
         File, Goto, Contents
<1>2. FilesThere'
  BY ContentIsFile DEF EnvTypeOK, EnvInv, FilesThere, CreateBackup, CopyToBackup, CreateTemp,
     WriteTemp, Rename, File, Goto
<1>3. SettingsKept'
  BY DEF EnvInv, SettingsKept, CreateBackup, CopyToBackup, CreateTemp, WriteTemp, Rename,
         File, Goto
<1> QED
  BY <1>1, <1>2, <1>3 DEF EnvInv

\* The rename that fails, the restoration and the removal of the backup.
LEMMA RestoreInv ==
    ASSUME EnvTypeOK, EnvInv, RenameFails \/ TruncateEnv \/ CopyToEnv \/ RemoveBackup
    PROVE  EnvTypeOK' /\ EnvInv'
<1>1. EnvTypeOK'
  BY DEF EnvTypeOK, EnvInv, FilesThere, RenameFails, TruncateEnv, CopyToEnv, RemoveBackup,
         File, Goto, Contents
<1>2. FilesThere'
  BY DEF EnvInv, FilesThere, RenameFails, TruncateEnv, CopyToEnv, RemoveBackup, File, Goto
<1>3. SettingsKept'
  BY DEF EnvInv, SettingsKept, Complete, RenameFails, TruncateEnv, CopyToEnv, RemoveBackup,
         File, Goto
<1> QED
  BY <1>1, <1>2, <1>3 DEF EnvInv

\* An update is cut off by an error or by the end of the process; what it was
\* writing is there in part.
LEMMA CutOff ==
    ASSUME EnvTypeOK, EnvInv, upc' = "idle", UNCHANGED whole,
           bak' = bak \/ upc = "copy",
           env' = env \/ upc = "recopy" \/ env \subseteq env'
    PROVE  EnvInv'
<1>1. ASSUME whole PROVE Complete'
  <2>1. CASE upc \in {"restore", "recopy"}
    BY <1>1, <2>1 DEF EnvInv, FilesThere, SettingsKept, Complete
  <2>2. CASE upc = "idle"
    BY <1>1, <2>2 DEF EnvInv, SettingsKept, Complete
  <2>3. CASE upc \in {"backup", "copy", "create", "write", "rename", "cleanup"}
    BY <1>1, <2>3 DEF EnvInv, SettingsKept, Complete
  <2> QED
    BY <2>1, <2>2, <2>3 DEF EnvTypeOK
<1> QED
  BY <1>1 DEF EnvInv, FilesThere, SettingsKept

\* UpdateEnvVariable returns an error.
LEMMA UpdateFailsInv == ASSUME EnvTypeOK, EnvInv, UpdateFails PROVE EnvTypeOK' /\ EnvInv'
<1>1. EnvTypeOK'
  <2>1. env' \in Contents
    BY DEF EnvTypeOK, EnvInv, FilesThere, UpdateFails, Contents
  <2>2. bak' \in Contents \cup {NoFile}
    BY DEF EnvTypeOK, UpdateFails, Contents
  <2>3. tmp' \in Contents \cup {NoFile}
    BY DEF EnvTypeOK, UpdateFails, Contents
  <2> QED
    BY <2>1, <2>2, <2>3 DEF EnvTypeOK, UpdateFails, Goto, Contents
<1>2. EnvInv'
  BY CutOff DEF UpdateFails, Goto
<1> QED
  BY <1>1, <1>2

-----------------------------------------------------------------------------
(* Startup.                                                                *)

\* Only a serving node updates its file.
UpdatesWhileServing == upc # "idle" => pc = "serving"

StartTypeOK ==
    /\ pc \in {"init", "nat1", "launch", "nat2", "keys", "configure", "host",
               "topics", "role", "nat3", "serving", "down"}
    /\ tries \in 0 .. MaxRetries - 1
    /\ configurator \in {"nil", "async", "inline", "empty"}
    /\ registered \in BOOLEAN
    /\ upnp \in {"off", "refused", "granted"}
    /\ given \in SUBSET Settings

IInv ==
    /\ NatTypeOK /\ NatInv
    /\ EnvTypeOK /\ EnvInv
    /\ StartTypeOK /\ UpdatesWhileServing

\* A fault or none leaves the count of faults in its range.
LEMMA FaultsType == ASSUME NatTypeOK, Fault \/ Fine PROVE faults' \in 0..MaxFaults
BY NatAssumption DEF NatTypeOK, Fault, Fine

\* The end of the process.
LEMMA EndsInv == ASSUME IInv, Ends, Fault \/ Fine PROVE IInv'
<1>1. NatTypeOK' /\ NatInv'
  BY EndsNat, FaultsType DEF IInv
<1>2. EnvTypeOK'
  BY DEF IInv, EnvTypeOK, Ends, Contents
<1>3. EnvInv'
  BY CutOff DEF IInv, Ends
<1>4. StartTypeOK'
  BY StartupAssumption DEF IInv, StartTypeOK, Ends, chosen
<1>5. UpdatesWhileServing'
  BY DEF UpdatesWhileServing, Ends
<1> QED
  BY <1>1, <1>2, <1>3, <1>4, <1>5 DEF IInv

\* The environment file is left alone.
LEMMA EnvFrame == ASSUME EnvTypeOK, EnvInv, UNCHANGED envVars PROVE EnvTypeOK' /\ EnvInv'
BY DEF EnvTypeOK, EnvInv, FilesThere, SettingsKept, Complete, envVars

\* The process goes from a place where it does not serve to another place.
LEMMA Moves ==
    ASSUME IInv, NEW l \in {"init", "nat1", "launch", "nat2", "keys", "configure", "host",
                            "topics", "role", "nat3", "serving"},
           Goto2(l), pc # "serving" \/ l = pc, UNCHANGED envVars, NatTypeOK', NatInv'
    PROVE  IInv'
<1>1. StartTypeOK'
  BY DEF IInv, StartTypeOK, Goto2, chosen
<1>2. UpdatesWhileServing'
  BY DEF IInv, UpdatesWhileServing, Goto2, envVars
<1> QED
  BY <1>1, <1>2, EnvFrame DEF IInv

\* The same for a step that leaves NAT detection alone too.
LEMMA MovesOn ==
    ASSUME IInv, NEW l \in {"init", "nat1", "launch", "nat2", "keys", "configure", "host",
                            "topics", "role", "nat3", "serving"},
           Goto2(l), pc # "serving", UNCHANGED <<natVars, faults, envVars>>
    PROVE  IInv'
<1>1. NatTypeOK' /\ NatInv'
  BY NatFrame DEF IInv, natVars, NatTypeOK
<1> QED
  BY <1>1, Moves

\* A step that stays where the process is, with nothing but NAT detection moving.
LEMMA NatStep ==
    ASSUME IInv, UNCHANGED <<envVars, startVars>>, NatTypeOK', NatInv'
    PROVE  IInv'
<1>1. StartTypeOK' /\ UpdatesWhileServing'
  BY DEF IInv, StartTypeOK, UpdatesWhileServing, startVars, envVars
<1> QED
  BY <1>1, EnvFrame DEF IInv

\* HandleFallbackConfigurator.
LEMMA ConfigureInv == ASSUME IInv, Configure PROVE IInv'
<1>1. CASE Ends /\ (Fault \/ Fine)
  BY <1>1, EndsInv
<1>2. CASE /\ pc = "configure" /\ Fine /\ env' = env \cup {"private_key", "location"}
           /\ Goto2("host") /\ UNCHANGED <<natVars, bak, tmp, upc, envMap, whole>>
  <2>1. NatTypeOK' /\ NatInv'
    BY <1>2, NatFrame, FaultsType DEF IInv, natVars, NatTypeOK
  <2>2. upc = "idle"
    BY <1>2 DEF IInv, UpdatesWhileServing
  <2>3. EnvTypeOK'
    BY <1>2, StartupAssumption DEF IInv, EnvTypeOK, Contents
  <2>4. EnvInv'
    BY <1>2, <2>2, CutOff DEF IInv
  <2>5. StartTypeOK' /\ UpdatesWhileServing'
    BY <1>2, <2>2 DEF IInv, StartTypeOK, UpdatesWhileServing, Goto2, chosen
  <2> QED
    BY <2>1, <2>3, <2>4, <2>5 DEF IInv
<1> QED
  BY <1>1, <1>2 DEF Configure

\* The contract answers, does not answer, or answers no more.
LEMMA ContractInv == ASSUME IInv, GotTopics \/ ContractFails PROVE IInv'
<1>1. CASE Ends /\ Fault
  BY <1>1, EndsInv
<1>2. CASE /\ pc = "topics" /\ pc' \in {"topics", "role"} /\ UNCHANGED <<natVars, chosen, envVars>>
           /\ Fault \/ Fine
           /\ tries' = 0 \/ (tries + 1 < MaxRetries /\ tries' = tries + 1)
  <2>1. NatTypeOK' /\ NatInv'
    BY <1>2, NatFrame, FaultsType DEF IInv, natVars, NatTypeOK
  <2>2. StartTypeOK' /\ UpdatesWhileServing'
    BY <1>2, StartupAssumption DEF IInv, StartTypeOK, UpdatesWhileServing, chosen, envVars
  <2> QED
    BY <1>2, <2>1, <2>2, EnvFrame DEF IInv
<1> QED
  BY <1>1, <1>2 DEF GotTopics, ContractFails, Fine

\* NAT detection as part of a start.
LEMMA NatRunsInv == ASSUME IInv, NatBegins \/ NatRuns PROVE IInv'
<1>1. NatTypeOK' /\ NatInv' /\ UNCHANGED envVars
  BY BeginInv, GetNatInfoInv DEF IInv, NatBegins, NatRuns
<1>2. pc # "serving"
  BY DEF NatBegins, NatRuns
<1>3. CASE UNCHANGED startVars
  BY <1>1, <1>3, NatStep
<1>4. CASE \E l \in {"nat1", "launch", "nat2", "keys", "nat3", "serving"} : Goto2(l)
  BY <1>1, <1>2, <1>4, Moves
<1> QED
  BY <1>3, <1>4 DEF NatBegins, NatRuns

\* createHost.
LEMMA CreateHostInv == ASSUME IInv, CreateHost PROVE IInv'
<1>1. CASE Ends /\ Fine
  BY <1>1, EndsInv
<1>2. CASE /\ pc = "host" /\ Fine /\ port' = "host" /\ Goto2("topics")
           /\ UNCHANGED <<router, holes, way, test, asked, first, second, mapping,
                          natReachability, tidy, envVars>>
  <2>1. NatTypeOK' /\ NatInv'
    BY <1>2, NatFrame, FaultsType DEF IInv
  <2> QED
    BY <1>2, <2>1, Moves
<1> QED
  BY <1>1, <1>2 DEF CreateHost

\* init and LaunchSDK.
LEMMA LaunchInv == ASSUME IInv, LaunchSDK PROVE IInv'
<1>1. CASE InitChecks
  <2>1. CASE Ends /\ Fine
    BY <2>1, EndsInv
  <2>2. CASE \E l \in {"launch", "nat1"} : Goto2(l) /\ UNCHANGED <<natVars, faults, envVars>>
    BY <1>1, <2>2, MovesOn DEF InitChecks
  <2> QED
    BY <1>1, <2>1, <2>2 DEF InitChecks
<1>2. CASE LoadKeys
  <2>1. \E l \in {"host", "configure"} : Goto2(l)
    BY <1>2 DEF LoadKeys
  <2> QED
    BY <1>2, <2>1, MovesOn DEF LoadKeys
<1>3. CASE HandleBuyerCase
  <2>1. \E l \in {"nat3", "serving"} : Goto2(l)
    BY <1>3 DEF HandleBuyerCase
  <2> QED
    BY <1>3, <2>1, MovesOn DEF HandleBuyerCase
<1>4. CASE NatPanics \/ PeerUnknown
  BY <1>4, EndsInv DEF NatPanics, PeerUnknown
<1> QED
  BY <1>1, <1>2, <1>3, <1>4, NatRunsInv, ConfigureInv, CreateHostInv, ContractInv DEF LaunchSDK

\* UpdateEnvVariable in a node that serves.
LEMMA UpdateInv == ASSUME IInv, UpdateEnvVariable PROVE IInv'
<1>1. EnvTypeOK' /\ EnvInv'
  BY ReadEnvInv, WriteInv, RestoreInv, UpdateFailsInv
     DEF IInv, UpdateEnvVariable, writeEnvFile
<1>2. NatTypeOK' /\ NatInv'
  BY NatFrame, FaultsType DEF IInv, UpdateEnvVariable, natVars, NatTypeOK
<1>3. StartTypeOK' /\ UpdatesWhileServing'
  BY DEF IInv, StartTypeOK, UpdatesWhileServing, UpdateEnvVariable, startVars
<1> QED
  BY <1>1, <1>2, <1>3 DEF IInv

\* IInv holds at the start ...
LEMMA InvInit == ASSUME Init PROVE IInv
<1>1. StartTypeOK /\ UpdatesWhileServing
  BY StartupAssumption DEF Init, StartTypeOK, UpdatesWhileServing, EnvInit
<1> QED
  BY <1>1, NatInitInv, EnvInitInv DEF IInv, Init

\* ... and every step keeps it.
LEMMA InvStep == ASSUME IInv, [Next]_vars PROVE IInv'
<1>1. CASE LaunchSDK
  BY <1>1, LaunchInv
<1>2. CASE ContractFails
  BY <1>2, ContractInv
<1>3. CASE UpdateEnvVariable
  BY <1>3, UpdateInv
<1>4. CASE Killed
  BY <1>4, EndsInv DEF Killed
<1>5. CASE Restarted
  BY <1>5, MovesOn DEF Restarted
<1>6. CASE (\E e \in Endpoints : LoseAnswer(e)) /\ UNCHANGED <<envVars, startVars>>
  BY <1>6, LoseAnswerInv, NatStep DEF IInv
<1>7. CASE UNCHANGED vars
  <2>1. UNCHANGED <<natVars, faults, envVars, startVars>>
    BY <1>7 DEF vars, natVars, envVars, startVars
  <2>2. NatTypeOK' /\ NatInv'
    BY <2>1, NatFrame DEF IInv, natVars, NatTypeOK
  <2> QED
    BY <2>1, <2>2, NatStep
<1> QED
  BY <1>1, <1>2, <1>3, <1>4, <1>5, <1>6, <1>7 DEF Next

\* So it holds always.
LEMMA Invariant == Spec => []IInv
<1>1. Init => IInv
  BY InvInit
<1>2. IInv /\ [Next]_vars => IInv'
  BY InvStep
<1> QED
  BY <1>1, <1>2, PTL DEF Spec

\* The variables of the start-up, of NAT detection and of the environment file
\* stay in their types, whatever fails and whenever the process ends: no file
\* is read that an earlier step has not made.
THEOREM TypeCorrect == Spec => []TypeOK
<1>1. IInv => TypeOK
  BY DEF IInv, TypeOK, StartTypeOK
<1> QED
  BY <1>1, Invariant, PTL

\* For every number of lost and late answers, a node that calls itself
\* reachable (whoami.NatReachability) is, as long as its process began no tests
\* with answers of earlier ones on their way.
THEOREM ReachabilityIsTrue == Spec => []NoFalseReachability
<1>1. IInv => NoFalseReachability
  BY DEF IInv, NatInv
<1> QED
  BY <1>1, Invariant, PTL

\* However often UpdateEnvVariable fails or is cut off by the end of the
\* process, an update that began with all the settings leaves them in the file
\* or in its backup.
THEOREM SettingsAreNotLost == Spec => []SettingsSurvive
<1>1. EnvTypeOK /\ SettingsKept /\ FilesThere => SettingsSurvive
  BY DEF EnvTypeOK, SettingsKept, FilesThere, SettingsSurvive, Complete
<1>2. IInv => SettingsSurvive
  BY <1>1 DEF IInv, EnvInv
<1> QED
  BY <1>2, Invariant, PTL
=============================================================================
