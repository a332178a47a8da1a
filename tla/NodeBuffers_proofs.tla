------------------------ MODULE NodeBuffers_proofs ------------------------
(***************************************************************************)
(* Facts about the operations of the peer table, for every table, peer and *)
(* bound: what each keeps of its type, and what it leaves alone.           *)
(***************************************************************************)
EXTENDS NodeBuffers, TLAPS, WellFoundedInduction

\* The caps on attempts and on the age of an attempt are natural numbers.
LEMMA BoundsAreNaturals ==
    /\ MaxAttempts \in Nat /\ MaxBackoff \in Nat
    /\ MaxDoublings \in Nat /\ MaxDoublings <= MaxAttempts
BY AttemptsAssumption

\* A set of numbers has a least one: how the lemmas below argue by induction.
LEMMA LeastNumber ==
    ASSUME NEW T, T \subseteq Nat, T # {}
    PROVE  \E n \in T : \A k \in T : n <= k
<1> DEFINE R == OpToRel(<, Nat)
<1>1. IsWellFoundedOn(R, Nat)
  BY NatLessThanWellFounded
<1>2. \A x, y \in Nat : y < x => <<y, x>> \in R
  BY DEF OpToRel
<1> HIDE DEF R
<1>3. PICK x \in T : \A y \in T : ~(<<y, x>> \in R)
  BY <1>1, WFMin
<1>4. \A y \in T : ~(y < x)
  BY <1>2, <1>3
<1> QED
  BY <1>4

\* Powers of two are positive numbers, ...
LEMMA PowersArePositive == \A n \in 0..MaxDoublings : 2 ^ n \in Nat \ {0}
<1> DEFINE T == {n \in 0..MaxDoublings : 2 ^ n \notin Nat \ {0}}
<1> SUFFICES ASSUME T # {} PROVE FALSE
  OBVIOUS
<1>1. T \subseteq Nat
  BY BoundsAreNaturals
<1>2. PICK n \in T : \A k \in T : n <= k
  BY <1>1, LeastNumber
<1>3. n # 0
  BY <1>2, PowersAssumption
<1>4. 2 ^ (n - 1) \in Nat \ {0}
  BY <1>2, <1>3, BoundsAreNaturals
<1>5. 2 ^ n = 2 * 2 ^ (n - 1)
  BY <1>2, <1>3, PowersAssumption
<1> QED
  BY <1>2, <1>4, <1>5

\* ... and the backoff grows with them.
LEMMA PowersGrow == \A m, n \in 0..MaxDoublings : m <= n => 2 ^ m <= 2 ^ n
<1> SUFFICES ASSUME NEW m \in 0..MaxDoublings
             PROVE  \A n \in 0..MaxDoublings : m <= n => 2 ^ m <= 2 ^ n
  OBVIOUS
<1> DEFINE T == {n \in 0..MaxDoublings : m <= n /\ ~(2 ^ m <= 2 ^ n)}
<1> SUFFICES ASSUME T # {} PROVE FALSE
  OBVIOUS
<1>1. T \subseteq Nat
  BY BoundsAreNaturals
<1>2. PICK n \in T : \A k \in T : n <= k
  BY <1>1, LeastNumber
<1>3. n # m
  BY <1>2, PowersArePositive
<1>4. 2 ^ m <= 2 ^ (n - 1) /\ 2 ^ (n - 1) \in Nat /\ 2 ^ m \in Nat
  BY <1>2, <1>3, BoundsAreNaturals, PowersArePositive
<1>5. 2 ^ n = 2 * 2 ^ (n - 1)
  BY <1>2, <1>3, PowersAssumption
<1> QED
  BY <1>2, <1>4, <1>5

\* Counting one further stays within the cap.
LEMMA CappedSuccType ==
    ASSUME NEW cap \in Nat, NEW n \in 0..cap
    PROVE  CappedSucc(n, cap) \in 0..cap
BY DEF CappedSucc

\* AddBuffer2 and AddBuffer3 make a well-formed entry, and RemoveBuffer leaves
\* a well-formed table.
LEMMA AddBuffer2Type ==
    ASSUME NEW b \in Tables, NEW p \in Peers, NEW m \in Nat, NEW v \in BOOLEAN,
           NEW r \in RendezvousStates, NEW l \in ConnectionStates
    PROVE  AddBuffer2(b, p, m, v, r, l) \in Tables
<1>1. CappedSucc(0, MaxAttempts) \in 0..MaxAttempts
  BY BoundsAreNaturals, CappedSuccType
<1>2. [valid |-> v, rdv |-> r, lib |-> l, attempts |-> CappedSucc(0, MaxAttempts),
       since |-> 0, msg |-> m, addr |-> "none"] \in NodeBufferInfo
  BY <1>1, BoundsAreNaturals DEF NodeBufferInfo, Addresses
<1> QED
  BY <1>2 DEF AddBuffer2, Tables

\* AddBuffer3, the seller's way to make an entry, yields a table.
LEMMA AddBuffer3Type ==
    ASSUME NEW b \in Tables, NEW p \in Peers,
           NEW r \in RendezvousStates, NEW l \in ConnectionStates
    PROVE  AddBuffer3(b, p, r, l) \in Tables
<1>1. [valid |-> TRUE, rdv |-> r, lib |-> l, attempts |-> 0,
       since |-> 0, msg |-> NoMessage, addr |-> "none"] \in NodeBufferInfo
  BY BoundsAreNaturals DEF NodeBufferInfo, Addresses, NoMessage
<1> QED
  BY <1>1 DEF AddBuffer3, Tables

\* RemoveBuffer yields a table.
LEMMA RemoveBufferType ==
    ASSUME NEW b \in Tables, NEW p \in Peers
    PROVE  RemoveBuffer(b, p) \in Tables
BY DEF RemoveBuffer, Tables

\* A table changed at one peer by a well-formed entry is well formed.
LEMMA EntryType ==
    ASSUME NEW b \in Tables, NEW p \in Peers, NEW e \in NodeBufferInfo
    PROVE  [b EXCEPT ![p] = e] \in Tables
BY DEF Tables

\* So is an entry with one field changed.
LEMMA LibFieldType ==
    ASSUME NEW r \in NodeBufferInfo, NEW l \in ConnectionStates
    PROVE  [r EXCEPT !.lib = l] \in NodeBufferInfo
BY DEF NodeBufferInfo

\* Assigning the two counters of an entry keeps its type.
LEMMA CounterFieldTypes ==
    ASSUME NEW r \in NodeBufferInfo, NEW n \in 0..MaxAttempts
    PROVE  /\ [r EXCEPT !.attempts = n] \in NodeBufferInfo
           /\ [r EXCEPT !.since = 0] \in NodeBufferInfo
<1>1. [r EXCEPT !.attempts = n] \in NodeBufferInfo
  BY DEF NodeBufferInfo
<1>2. [r EXCEPT !.since = 0] \in NodeBufferInfo
  BY BoundsAreNaturals DEF NodeBufferInfo
<1> QED
  BY <1>1, <1>2

-----------------------------------------------------------------------------
\* Two tables hold the same peers, and the same requests for them.
SameRequests(b, c) ==
    \A q \in Peers :
        /\ HasBuffer(c, q) <=> HasBuffer(b, q)
        /\ HasBuffer(b, q) => c[q].msg = b[q].msg /\ c[q].valid = b[q].valid

\* A well-formed entry is an entry.
LEMMA EntryIsThere == \A e \in NodeBufferInfo : e # NoBuffer
BY NoBufferAssumption

\* An entry that keeps its request keeps the requests of the table.
LEMMA SameEntry ==
    ASSUME NEW b \in Tables, NEW p \in Peers, HasBuffer(b, p), NEW e \in NodeBufferInfo,
           e.msg = b[p].msg, e.valid = b[p].valid
    PROVE  SameRequests(b, [b EXCEPT ![p] = e])
BY EntryIsThere DEF SameRequests, Tables, HasBuffer

\* What AddBuffer2 records, and that it leaves the other peers alone.
LEMMA AddBuffer2Entry ==
    ASSUME NEW b \in Tables, NEW p \in Peers, NEW m \in Nat, NEW v \in BOOLEAN,
           NEW r \in RendezvousStates, NEW l \in ConnectionStates
    PROVE  /\ HasBuffer(AddBuffer2(b, p, m, v, r, l), p)
           /\ AddBuffer2(b, p, m, v, r, l)[p].msg = m
<1> DEFINE e == [valid |-> v, rdv |-> r, lib |-> l, attempts |-> CappedSucc(0, MaxAttempts),
                 since |-> 0, msg |-> m, addr |-> "none"]
<1>1. CappedSucc(0, MaxAttempts) \in 0..MaxAttempts
  BY BoundsAreNaturals, CappedSuccType
<1>2. e # NoBuffer /\ e.msg = m
  BY <1>1, BoundsAreNaturals, EntryIsThere DEF NodeBufferInfo, Addresses
<1>3. AddBuffer2(b, p, m, v, r, l) = [b EXCEPT ![p] = e]
  BY DEF AddBuffer2
<1> HIDE DEF e
<1> QED
  BY <1>2, <1>3 DEF Tables, HasBuffer

\* AddBuffer2 leaves the entries of other peers alone.
LEMMA AddBuffer2Others ==
    ASSUME NEW b \in Tables, NEW p \in Peers, NEW m \in Nat, NEW v \in BOOLEAN,
           NEW r \in RendezvousStates, NEW l \in ConnectionStates,
           NEW q \in Peers, q # p
    PROVE  AddBuffer2(b, p, m, v, r, l)[q] = b[q]
BY DEF AddBuffer2, Tables

\* AddBuffer2 takes no entry away.
LEMMA AddBuffer2Keeps ==
    ASSUME NEW b \in Tables, NEW p \in Peers, NEW m \in Nat, NEW v \in BOOLEAN,
           NEW r \in RendezvousStates, NEW l \in ConnectionStates,
           NEW q \in Peers, HasBuffer(b, q)
    PROVE  HasBuffer(AddBuffer2(b, p, m, v, r, l), q)
<1>1. CASE q = p
  BY <1>1, AddBuffer2Entry
<1>2. CASE q # p
  BY <1>2, AddBuffer2Others DEF HasBuffer
<1> QED
  BY <1>1, <1>2

\* A table that is not changed has the same requests.
LEMMA SameTable == ASSUME NEW b PROVE SameRequests(b, b)
BY DEF SameRequests

-----------------------------------------------------------------------------
\* The setters keep the table well formed, and neither make nor remove an
\* entry nor touch its request.
LEMMA UpdateLibType ==
    ASSUME NEW b \in Tables, NEW p \in Peers, NEW l \in ConnectionStates
    PROVE  /\ UpdateBufferLibP2PState(b, p, l) \in Tables
           /\ SameRequests(b, UpdateBufferLibP2PState(b, p, l))
<1>1. CASE ~HasBuffer(b, p)
  BY <1>1, SameTable DEF UpdateBufferLibP2PState
<1>2. CASE HasBuffer(b, p)
  <2> DEFINE n == IF l = "Connected" THEN 0 ELSE b[p].attempts
             e == [[[b[p] EXCEPT !.lib = l] EXCEPT !.attempts = n] EXCEPT !.since = 0]
  <2>1. b[p] \in NodeBufferInfo
    BY <1>2 DEF Tables, HasBuffer
  <2>2. n \in 0..MaxAttempts
    BY <2>1, BoundsAreNaturals DEF NodeBufferInfo
  <2>3. e \in NodeBufferInfo
    <3> HIDE DEF n
    <3> QED BY <2>1, <2>2, LibFieldType, CounterFieldTypes
  <2>4. UpdateBufferLibP2PState(b, p, l) = [b EXCEPT ![p] = e]
    BY <1>2, <2>1 DEF UpdateBufferLibP2PState, Tables, NodeBufferInfo
  <2>5. e.msg = b[p].msg /\ e.valid = b[p].valid
    BY <2>1 DEF NodeBufferInfo
  <2> HIDE DEF e
  <2> QED
    BY <1>2, <2>3, <2>4, <2>5, EntryType, SameEntry
<1> QED
  BY <1>1, <1>2

\* UpdateBufferRendezvousState changes neither the requests nor who has an entry.
LEMMA UpdateRendezvousType ==
    ASSUME NEW b \in Tables, NEW p \in Peers, NEW r \in RendezvousStates
    PROVE  /\ UpdateBufferRendezvousState(b, p, r) \in Tables
           /\ SameRequests(b, UpdateBufferRendezvousState(b, p, r))
<1>1. CASE ~HasBuffer(b, p)
  BY <1>1, SameTable DEF UpdateBufferRendezvousState
<1>2. CASE HasBuffer(b, p)
  <2> DEFINE e == [b[p] EXCEPT !.rdv = r]
  <2>1. b[p] \in NodeBufferInfo
    BY <1>2 DEF Tables, HasBuffer
  <2>2. e \in NodeBufferInfo /\ e.msg = b[p].msg /\ e.valid = b[p].valid
    BY <2>1 DEF NodeBufferInfo
  <2>3. UpdateBufferRendezvousState(b, p, r) = [b EXCEPT ![p] = e]
    BY <1>2 DEF UpdateBufferRendezvousState
  <2> HIDE DEF e
  <2> QED
    BY <1>2, <2>2, <2>3, EntryType, SameEntry
<1> QED
  BY <1>1, <1>2

\* Neither does IncrementReconnectAttempts.
LEMMA IncrementType ==
    ASSUME NEW b \in Tables, NEW p \in Peers
    PROVE  /\ IncrementReconnectAttempts(b, p) \in Tables
           /\ SameRequests(b, IncrementReconnectAttempts(b, p))
<1>1. CASE ~HasBuffer(b, p)
  BY <1>1, SameTable DEF IncrementReconnectAttempts
<1>2. CASE HasBuffer(b, p)
  <2> DEFINE n == CappedSucc(b[p].attempts, MaxAttempts)
             e == [[b[p] EXCEPT !.attempts = n] EXCEPT !.since = 0]
  <2>1. b[p] \in NodeBufferInfo
    BY <1>2 DEF Tables, HasBuffer
  <2>2. n \in 0..MaxAttempts
    BY <2>1, BoundsAreNaturals, CappedSuccType DEF NodeBufferInfo
  <2>3. e \in NodeBufferInfo
    <3> HIDE DEF n
    <3> QED BY <2>1, <2>2, CounterFieldTypes
  <2>4. IncrementReconnectAttempts(b, p) = [b EXCEPT ![p] = e]
    BY <1>2, <2>1 DEF IncrementReconnectAttempts, Tables, NodeBufferInfo
  <2>5. e.msg = b[p].msg /\ e.valid = b[p].valid
    BY <2>1 DEF NodeBufferInfo
  <2> HIDE DEF e
  <2> QED
    BY <1>2, <2>3, <2>4, <2>5, EntryType, SameEntry
<1> QED
  BY <1>1, <1>2

\* SetNeuronSellerRequest keeps the table well formed; the request is what it
\* changes.
LEMMA SetRequestType ==
    ASSUME NEW b \in Tables, NEW p \in Peers, NEW m \in Nat
    PROVE  SetNeuronSellerRequest(b, p, m) \in Tables
BY DEF SetNeuronSellerRequest, Tables, HasBuffer, NodeBufferInfo

\* Neither does SetLastOtherSideMultiAddress.
LEMMA SetAddressType ==
    ASSUME NEW b \in Tables, NEW p \in Peers, NEW a \in Addresses
    PROVE  /\ SetLastOtherSideMultiAddress(b, p, a) \in Tables
           /\ SameRequests(b, SetLastOtherSideMultiAddress(b, p, a))
<1>1. CASE ~HasBuffer(b, p)
  BY <1>1, SameTable DEF SetLastOtherSideMultiAddress
<1>2. CASE HasBuffer(b, p)
  <2> DEFINE e == [b[p] EXCEPT !.addr = a]
  <2>1. b[p] \in NodeBufferInfo
    BY <1>2 DEF Tables, HasBuffer
  <2>2. e \in NodeBufferInfo /\ e.msg = b[p].msg /\ e.valid = b[p].valid
    BY <2>1 DEF NodeBufferInfo
  <2>3. SetLastOtherSideMultiAddress(b, p, a) = [b EXCEPT ![p] = e]
    BY <1>2 DEF SetLastOtherSideMultiAddress
  <2> HIDE DEF e
  <2> QED
    BY <1>2, <2>2, <2>3, EntryType, SameEntry
<1> QED
  BY <1>1, <1>2

\* Neither does the passing of time.
LEMMA AgeType ==
    ASSUME NEW b \in Tables
    PROVE  AgeBuffers(b) \in Tables /\ SameRequests(b, AgeBuffers(b))
<1> DEFINE e(p) == [b[p] EXCEPT !.since = CappedSucc(@, MaxBackoff)]
<1>1. ASSUME NEW p \in Peers, HasBuffer(b, p)
      PROVE  e(p) \in NodeBufferInfo /\ e(p).msg = b[p].msg /\ e(p).valid = b[p].valid
  <2>1. b[p] \in NodeBufferInfo
    BY <1>1 DEF Tables, HasBuffer
  <2>2. CappedSucc(b[p].since, MaxBackoff) \in 0..MaxBackoff
    BY <2>1, BoundsAreNaturals, CappedSuccType DEF NodeBufferInfo
  <2> QED
    BY <2>1, <2>2 DEF NodeBufferInfo
<1>2. AgeBuffers(b) = [p \in Peers |-> IF HasBuffer(b, p) THEN e(p) ELSE NoBuffer]
  BY DEF AgeBuffers
<1> HIDE DEF e
<1>3. AgeBuffers(b) \in Tables
  BY <1>1, <1>2 DEF Tables
<1>4. SameRequests(b, AgeBuffers(b))
  BY <1>1, <1>2, EntryIsThere DEF SameRequests, HasBuffer
<1> QED
  BY <1>3, <1>4
=============================================================================
