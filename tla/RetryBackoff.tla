---------------------------- MODULE RetryBackoff ----------------------------
(***************************************************************************)
(* The re-request timer of one peer, with the arithmetic of                *)
(* IsRequestTooEarly (common-lib/connection.go) kept exactly:              *)
(*                                                                         *)
(*   backoffDuration := initialBackoff * time.Duration(math.Pow(2, n))     *)
(*                                                                         *)
(* is a product of two int64 nanosecond counts, and int64 wraps.  30 s is  *)
(* 29296875 * 2^10 ns, so the low ten bits of every product are zero and a *)
(* duration is a 54-bit number of 1024 ns units, held here in two 27-bit   *)
(* limbs (TLC's own integers have 32 bits).  It is negative when its top   *)
(* bit is set.                                                             *)
(*                                                                         *)
(* attempts is NoOfConnectionAttempts, lib is LibP2PState, elapsed is      *)
(* time.Since of the last attempt and age the same interval counted in     *)
(* whole units of 30 s.  math.Pow(2, n) fits an int64 up to n = 62.  From  *)
(* 63 on Go leaves the conversion to the build: the least int64, which     *)
(* gives the product zero as modelled here, or the greatest, which gives   *)
(* -30 s; no elapsed time is less than either.                             *)
(*                                                                         *)
(* The other modules use the table of NodeBuffers in its place, which      *)
(* counts in units of 30 s, stops counting at MaxAttempts and knows the    *)
(* wrapped products as a set of counts.  ImplementsTable says that they    *)
(* may, and RetryAssumption which counts these are.                        *)
(***************************************************************************)
EXTENDS NodeBuffers

CONSTANTS Peer,            \* the peer
          AttemptBound     \* bound: the last attempt that is explored

ASSUME RetryAssumption ==
    /\ Peers = {Peer}
    /\ MaxBackoff = 1440              \* 12 h
    /\ MaxDoublings = 11
    /\ MaxAttempts = 52
    /\ Wrapped = {29, 30, 32, 33, 34, 35, 36, 37, 42, 46, 47, 48, 50, 52}
    /\ AttemptBound \in Nat /\ AttemptBound >= 2

VARIABLES attempts, lib, elapsed, age

vars == <<attempts, lib, elapsed, age>>

LimbBase == 134217728    \* 2^27

Duration(hi, lo) == [hi |-> hi, lo |-> lo]

initialBackoff == Duration(0, 29296875)          \* time.Second * 30
maxBackoff == Duration(314, 43133408)            \* time.Hour * 12

\* Addition and order of int64, on the upper 54 bits.
Add(d, e) ==
    LET low == d.lo + e.lo
    IN  Duration((d.hi + e.hi + low \div LimbBase) % LimbBase, low % LimbBase)

Negative(d) == d.hi >= LimbBase \div 2

Less(d, e) ==
    \/ Negative(d) /\ ~Negative(e)
    \/ /\ Negative(d) = Negative(e)
       /\ \/ d.hi < e.hi
          \/ d.hi = e.hi /\ d.lo < e.lo

\* initialBackoff * 2^n, doubled n times.
Product[n \in Nat] ==
    IF n = 0 THEN initialBackoff
             ELSE LET half == Product[n - 1] IN Add(half, half)

\* Mutant: the cap is forgotten.
BackoffDuration_NoCap(n) == Product[n]

BackoffDuration(n) ==
    IF Less(maxBackoff, Product[n]) THEN maxBackoff ELSE Product[n]

TooEarly == Less(elapsed, BackoffDuration(attempts))

-----------------------------------------------------------------------------
TypeOK ==
    /\ attempts \in 0..AttemptBound /\ lib \in ConnectionStates
    /\ elapsed \in [hi : 0..LimbBase - 1, lo : 0..LimbBase - 1]
    /\ age \in 0..1440

\* processSeller makes the entry with the first request: it counts one attempt
\* when the send fails and two when it does not.
Init ==
    /\ attempts \in {1, 2} /\ lib = "Connecting"
    /\ elapsed = Duration(0, 0)
    /\ age = 0

\* 30 s pass; twelve hours are as good as any longer time.
Tick ==
    /\ age < 1440
    /\ age' = age + 1
    /\ elapsed' = Add(elapsed, initialBackoff)
    /\ UNCHANGED <<attempts, lib>>

\* What processSeller notes after the request was sent, or could not be.
SentStates == {"Connecting", "CanNotConnectUnknownReason"}

\* Mutant: the request is repeated without a look at the clock.
Resend_Unchecked ==
    /\ attempts < AttemptBound
    /\ attempts' = attempts + 1
    /\ lib' \in SentStates
    /\ elapsed' = Duration(0, 0)
    /\ age' = 0

\* processSeller finds the peer unconnected and the wait over: it counts the
\* attempt, sends the request again and notes the outcome, each of which
\* restarts the clock.
Resend ==
    /\ ~TooEarly
    /\ attempts < AttemptBound
    /\ attempts' = attempts + 1
    /\ lib' \in SentStates
    /\ elapsed' = Duration(0, 0)
    /\ age' = 0

\* Mutant: a connection forgives one attempt instead of all.
UpdateState_ForgivesOne(state) ==
    /\ lib' = state
    /\ attempts' = IF state = "Connected" THEN attempts - 1 ELSE attempts
    /\ elapsed' = Duration(0, 0)
    /\ age' = 0

\* UpdateBufferLibP2PState: any state restarts the clock, and Connected forgets
\* the attempts.
UpdateState(state) ==
    /\ lib' = state
    /\ attempts' = IF state = "Connected" THEN 0 ELSE attempts
    /\ elapsed' = Duration(0, 0)
    /\ age' = 0

Next == Tick \/ Resend \/ \E state \in ConnectionStates : UpdateState(state)

Spec == Init /\ [][Next]_vars

-----------------------------------------------------------------------------
\* The doubling wait for n counted attempts, never over 12 hours.  The first
\* request counts one attempt or two, so its repetition waits 60 or 120 s.
PolicyWait(n) == IF n > 10 THEN 1440 ELSE 2 ^ n

\* The counts at which the product has wrapped to zero or below.
NoWait(n) == n \in Wrapped \/ n > MaxAttempts

\* In every state, at every number of attempts, IsRequestTooEarly asks for the
\* doubling wait, cut off at exactly twelve hours, except at the counts of
\* NoWait, where it asks for none: no product wraps at another count, and none
\* wraps into a wait that is shorter and yet positive.
BackoffFollowsPolicy ==
    TooEarly <=> ~NoWait(attempts) /\ age < PolicyWait(attempts)

\* "Start with an initial backoff of 30 seconds" (connection.go:125): whatever
\* the number of attempts, no request is repeated within 30 s of the last one.
\* From 29 attempts in a row on the code does repeat it at once.
WaitsInitialBackoff == age < 1 => TooEarly

\* The entry of NodeBuffers that stands for this timer; its rendezvous state
\* and its request do not enter the wait.
Request == 1

table ==
    [p \in Peers |->
        [valid |-> TRUE, rdv |-> "SendOK", lib |-> lib,
         attempts |-> IF attempts < MaxAttempts THEN attempts ELSE MaxAttempts,
         since |-> age, msg |-> Request, addr |-> "none"]]

FirstEntry == AddBuffer2(NewNodeBuffers, Peer, Request, TRUE, "SendOK", "Connecting")

\* What the table of NodeBuffers allows a timer to do.
TableNext ==
    \/ table' = AgeBuffers(table)
    \/ /\ ~IsRequestTooEarly(table, Peer)
       /\ \E state \in SentStates :
             table' = UpdateBufferLibP2PState(IncrementReconnectAttempts(table, Peer), Peer, state)
    \/ \E state \in ConnectionStates : table' = UpdateBufferLibP2PState(table, Peer, state)

\* Every step of the exact timer is one of the table that all the other
\* modules use, at every number of attempts: its smaller counters and its set
\* of wrapped counts never hold back a request that the code sends.
ImplementsTable ==
    /\ table \in {FirstEntry, IncrementReconnectAttempts(FirstEntry, Peer)}
    /\ [][TableNext]_table
=============================================================================
