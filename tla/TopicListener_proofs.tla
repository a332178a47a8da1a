------------------------ MODULE TopicListener_proofs ------------------------
(***************************************************************************)
(* The order of delivery, for every delay, clock and timeout: the          *)
(* invariant is DeliveredIsPast, which a new subscription keeps because    *)
(* its start, now - Lag, is not before now - Delay.                        *)
(***************************************************************************)
EXTENDS TopicListener, TLAPS

\* The clock and the timer stay in their ranges.
LEMMA TickType ==
    ASSUME TypeOK, Tick
    PROVE  TypeOK'
BY ListenerAssumption DEF TypeOK, Tick

\* Every step of downloadAndListen and of its subscription keeps the types.
LEMMA StepType ==
    ASSUME TypeOK, [Next]_vars
    PROVE  TypeOK'
<1>1. CASE Subscribe
  BY <1>1, ListenerAssumption DEF Subscribe, TypeOK
<1>2. CASE ResetTimer
  <2>1. timer' \in 0..Timeout
    BY <1>2, ListenerAssumption DEF ResetTimer
  <2> QED
    BY <1>2, <2>1, Zenon DEF ResetTimer, TypeOK
<1>3. CASE TimerFires
  BY <1>3 DEF TimerFires, TypeOK
<1>4. ASSUME NEW m \in posted, Receive(m)
      PROVE  TypeOK'
  <2>1. m \in Nat
    BY DEF TypeOK
  <2>2. handled' \in Seq(Nat)
    BY <1>4, <2>1 DEF Receive, TypeOK
  <2> QED
    BY <1>4, <2>1, <2>2 DEF Receive, TypeOK
<1>5. CASE CallbackReturns
  BY <1>5 DEF CallbackReturns, TypeOK
<1>6. CASE StreamEnds
  BY <1>6 DEF StreamEnds, TypeOK
<1>7. CASE Post
  BY <1>7 DEF Post, TypeOK
<1>8. CASE UNCHANGED vars
  BY <1>8 DEF vars, TypeOK
<1> QED
  BY <1>1, <1>2, <1>3, <1>4, <1>5, <1>6, <1>7, <1>8, TickType DEF Next, Listener

\* Every variable of the listener stays in its type.
THEOREM TypeCorrect == Spec => []TypeOK
<1>1. Init => TypeOK
  <2>1. Init => /\ now \in Nat /\ cursor \in Int /\ timer \in 0..Timeout
                /\ handled \in Seq(Nat)
    BY ListenerAssumption DEF Init
  <2> QED
    BY <2>1, Zenon DEF Init, TypeOK
<1> QED
  BY <1>1, StepType, PTL DEF Spec

\* What was delivered stays in the past, and in front of the subscription.
LEMMA StepIsPast ==
    ASSUME TypeOK, DeliveredIsPast, [Next]_vars
    PROVE  DeliveredIsPast'
<1>0. /\ now \in Nat /\ cursor \in Int /\ handled \in Seq(Nat)
      /\ \A i \in 1..Len(handled) : handled[i] \in Nat
  BY DEF TypeOK
<1>1. CASE Subscribe
  BY <1>0, <1>1, ListenerAssumption DEF Subscribe, DeliveredIsPast
<1>2. ASSUME NEW m \in posted, Receive(m)
      PROVE  DeliveredIsPast'
  <2>1. m \in Nat /\ m > cursor /\ m + Delay <= now /\ cursor' = m /\ now' = now
    BY <1>2 DEF Receive, Pending, TypeOK
  <2>2. Len(handled') = Len(handled) + 1
    BY <1>0, <1>2, <2>1 DEF Receive
  <2>3. \A i \in 1..Len(handled') :
           handled'[i] = IF i <= Len(handled) THEN handled[i] ELSE m
    BY <1>0, <1>2, <2>1 DEF Receive
  <2>4. SUFFICES ASSUME NEW i \in 1..Len(handled')
                 PROVE  handled'[i] <= m /\ handled'[i] + Delay <= now
    BY <2>1 DEF DeliveredIsPast
  <2>5. CASE i <= Len(handled)
    BY <1>0, <2>1, <2>2, <2>3, <2>5, ListenerAssumption DEF DeliveredIsPast
  <2>6. CASE i > Len(handled)
    BY <1>0, <2>1, <2>2, <2>3, <2>6, ListenerAssumption
  <2> QED
    BY <1>0, <2>2, <2>5, <2>6
<1>3. CASE Tick
  BY <1>0, <1>3, ListenerAssumption DEF Tick, DeliveredIsPast
<1>4. ASSUME UNCHANGED <<now, cursor, handled>>
      PROVE  DeliveredIsPast'
  BY <1>4 DEF DeliveredIsPast
<1> QED
  BY <1>1, <1>2, <1>3, <1>4
  DEF Next, Listener, ResetTimer, TimerFires, CallbackReturns, StreamEnds, Post, vars

\* The message that is handed over is later than all that were before it.
LEMMA StepInOrder ==
    ASSUME TypeOK, DeliveredIsPast, HandledInOrder, [Next]_vars
    PROVE  HandledInOrder'
<1>0. /\ cursor \in Int /\ handled \in Seq(Nat)
      /\ \A i \in 1..Len(handled) : handled[i] \in Nat
  BY DEF TypeOK
<1>1. ASSUME NEW m \in posted, Receive(m)
      PROVE  HandledInOrder'
  <2>1. m \in Nat /\ m > cursor
    BY <1>1 DEF Receive, Pending, TypeOK
  <2>2. Len(handled') = Len(handled) + 1
    BY <1>0, <1>1, <2>1 DEF Receive
  <2>3. \A i \in 1..Len(handled') :
           handled'[i] = IF i <= Len(handled) THEN handled[i] ELSE m
    BY <1>0, <1>1, <2>1 DEF Receive
  <2>4. SUFFICES ASSUME NEW i \in 1..Len(handled'), NEW j \in 1..Len(handled'), i < j
                 PROVE  handled'[i] < handled'[j]
    BY DEF HandledInOrder
  <2>5. i <= Len(handled) /\ handled'[i] = handled[i] /\ i \in 1..Len(handled)
    BY <1>0, <2>2, <2>3, <2>4
  <2>6. CASE j <= Len(handled)
    BY <1>0, <2>3, <2>4, <2>5, <2>6 DEF HandledInOrder
  <2>7. CASE j > Len(handled)
    <3>1. handled'[j] = m
      BY <1>0, <2>3, <2>7
    <3>2. handled[i] <= cursor
      BY <2>5 DEF DeliveredIsPast
    <3> QED
      BY <1>0, <2>1, <2>5, <3>1, <3>2
  <2> QED
    BY <1>0, <2>2, <2>6, <2>7
<1>2. ASSUME UNCHANGED handled
      PROVE  HandledInOrder'
  BY <1>2 DEF HandledInOrder
<1> QED
  BY <1>1, <1>2
  DEF Next, Listener, Subscribe, ResetTimer, TimerFires, CallbackReturns, StreamEnds, Post, Tick, vars

\* Whatever the timeout, and however streams end, callbacks hang and the timer
\* races with messages: as long as the clock lags behind by no more than the
\* mirror's delay, no message reaches the callback twice or out of order.
THEOREM EachMessageOnceInOrder == Spec => []HandledInOrder
<1>1. Init => DeliveredIsPast /\ HandledInOrder
  BY DEF Init, DeliveredIsPast, HandledInOrder
<1>2. TypeOK /\ DeliveredIsPast /\ HandledInOrder /\ [Next]_vars
        => DeliveredIsPast' /\ HandledInOrder'
  BY StepIsPast, StepInOrder
<1> QED
  BY <1>1, <1>2, TypeCorrect, PTL DEF Spec

\* What was delivered lies behind the cursor and is at least as old as the
\* mirror's delay, over all subscriptions: no new one can reach back to it.
THEOREM DeliveredStaysPast == Spec => []DeliveredIsPast
<1>1. Init => DeliveredIsPast
  BY DEF Init, DeliveredIsPast
<1>2. TypeOK /\ DeliveredIsPast /\ [Next]_vars => DeliveredIsPast'
  BY StepIsPast
<1> QED
  BY <1>1, <1>2, TypeCorrect, PTL DEF Spec
=============================================================================
