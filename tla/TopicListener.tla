--------------------------- MODULE TopicListener ---------------------------
(***************************************************************************)
(* ListenToTopicAndCallBack of hedera/main.go: how a node reads the topic  *)
(* its peers write to.  One goroutine subscribes, waits on a timer of      *)
(* three minutes that every message rearms, and subscribes afresh when the *)
(* timer fires.  The subscription has a goroutine of its own, which hands  *)
(* the messages to the callback one after the other, and which lives on    *)
(* after Unsubscribe until its callback has returned.                      *)
(*                                                                         *)
(* A message is its consensus timestamp, unique on a topic.  The mirror    *)
(* node serves it Delay later at the earliest, and the node's own clock is *)
(* Lag behind consensus time; both are properties of the surroundings.     *)
(***************************************************************************)
EXTENDS Integers, Sequences

CONSTANTS Delay,     \* the least time from consensus to the subscriber
          Lag,       \* how far the node's clock is behind consensus time
          Timeout,   \* the timer, three minutes
          MaxTime    \* bound: the clock stands still here

ASSUME ListenerAssumption ==
    /\ Delay \in Nat /\ Lag \in Int /\ Lag <= Delay
    /\ Timeout \in Nat \ {0}
    /\ MaxTime \in Nat

VARIABLES
    now,        \* consensus time
    posted,     \* the messages on the topic
    phase,      \* the listener: about to subscribe, or waiting in its select
    alive,      \* the subscription's stream delivers
    cursor,     \* the time after which the subscription has yet to deliver
    running,    \* the message the subscription's callback is busy with, if any
    stray,      \* callbacks of former subscriptions that have not returned
    signal,     \* messageReceived, a channel with room for one
    timer,      \* time left; 0 once it has expired
    handled     \* observer: the messages handed to the callback, in order

vars == <<now, posted, phase, alive, cursor, running, stray, signal, timer, handled>>

TypeOK ==
    /\ now \in Nat
    /\ posted \in SUBSET Nat
    /\ phase \in {"subscribe", "listen"}
    /\ alive \in BOOLEAN
    /\ cursor \in Int
    /\ running \in SUBSET Nat
    /\ stray \in SUBSET Nat
    /\ signal \in BOOLEAN
    /\ timer \in 0..Timeout
    /\ handled \in Seq(Nat)

Init ==
    /\ now = 0 /\ posted = {}
    /\ phase = "subscribe" /\ alive = FALSE /\ cursor = -Lag
    /\ running = {} /\ stray = {}
    /\ signal = FALSE /\ timer = Timeout
    /\ handled = <<>>

-----------------------------------------------------------------------------
(* The listener.                                                           *)

\* Mutant: the new subscription starts a little earlier, to be safe.
Subscribe_Earlier ==
    /\ phase = "subscribe"
    /\ phase' = "listen"
    /\ cursor' = now - Lag - Timeout
    /\ alive' \in BOOLEAN
    /\ timer' = Timeout
    /\ UNCHANGED <<now, posted, running, stray, signal, handled>>

\* The subscription starts at the node's time.  An error of Subscribe is only
\* logged, and the listener waits for its timer all the same.
Subscribe ==
    /\ phase = "subscribe"
    /\ phase' = "listen"
    /\ cursor' = now - Lag
    /\ alive' \in BOOLEAN
    /\ timer' = Timeout
    /\ UNCHANGED <<now, posted, running, stray, signal, handled>>

\* Mutant: a message adds three minutes to what is left of the timer.
ResetTimer_Extends ==
    /\ phase = "listen" /\ signal
    /\ signal' = FALSE
    /\ timer' = timer + Timeout
    /\ UNCHANGED <<now, posted, phase, alive, cursor, running, stray, handled>>

\* case <-messageReceived; the select may prefer it to an expired timer or not.
ResetTimer ==
    /\ phase = "listen" /\ signal
    /\ signal' = FALSE
    /\ timer' = Timeout
    /\ UNCHANGED <<now, posted, phase, alive, cursor, running, stray, handled>>

\* Mutant: only a subscription that was made is given up.
TimerFires_IfSubscribed ==
    /\ phase = "listen" /\ timer = 0 /\ alive
    /\ phase' = "subscribe"
    /\ alive' = FALSE
    /\ stray' = stray \cup running
    /\ running' = {}
    /\ UNCHANGED <<now, posted, cursor, signal, timer, handled>>

\* case <-timeout.C: Unsubscribe.  A callback that is running goes on.
TimerFires ==
    /\ phase = "listen" /\ timer = 0
    /\ phase' = "subscribe"
    /\ alive' = FALSE
    /\ stray' = stray \cup running
    /\ running' = {}
    /\ UNCHANGED <<now, posted, cursor, signal, timer, handled>>

Listener == Subscribe \/ ResetTimer \/ TimerFires

-----------------------------------------------------------------------------
(* The subscription.                                                       *)

Pending == {m \in posted : m > cursor}

\* The next message is signalled, unless a signal is waiting already, and
\* handed to the callback.
Receive(m) ==
    /\ alive /\ running = {}
    /\ m \in Pending /\ m + Delay <= now
    /\ \A k \in Pending : m <= k
    /\ signal' = TRUE
    /\ running' = {m}
    /\ cursor' = m
    /\ handled' = Append(handled, m)
    /\ UNCHANGED <<now, posted, phase, alive, stray, timer>>

CallbackReturns ==
    /\ \/ running # {} /\ running' = {} /\ UNCHANGED stray
       \/ \E m \in stray : stray' = stray \ {m} /\ UNCHANGED running
    /\ UNCHANGED <<now, posted, phase, alive, cursor, signal, timer, handled>>

\* The stream ends.  The retry handler refuses to retry, and the error and
\* completion handlers tell nobody.
StreamEnds ==
    /\ alive
    /\ alive' = FALSE
    /\ UNCHANGED <<now, posted, phase, cursor, running, stray, signal, timer, handled>>

-----------------------------------------------------------------------------
Post ==
    /\ now < MaxTime /\ now \notin posted
    /\ posted' = posted \cup {now}
    /\ UNCHANGED <<now, phase, alive, cursor, running, stray, signal, timer, handled>>

Tick ==
    /\ now' = IF now < MaxTime THEN now + 1 ELSE now
    /\ timer' = IF timer > 0 THEN timer - 1 ELSE 0
    /\ UNCHANGED <<posted, phase, alive, cursor, running, stray, signal, handled>>

Next ==
    \/ Listener
    \/ \E m \in posted : Receive(m)
    \/ CallbackReturns \/ StreamEnds \/ Post \/ Tick

Spec == Init /\ [][Next]_vars

\* The listener's goroutine runs, its timer counts, and a subscription that is
\* tried again and again is made in the end.  Nothing is assumed of the
\* callback, which may never return, nor of the stream.
FairSpec ==
    /\ Spec
    /\ WF_vars(Listener) /\ WF_vars(Tick)
    /\ SF_vars(Subscribe /\ alive')

-----------------------------------------------------------------------------
(* Properties.                                                             *)

\* Every message reaches the callback at most once, and later messages after
\* earlier ones, over all the subscriptions: a new one, even when a message
\* and the timer raced, starts after everything the former ones delivered.
\* This rests on Lag <= Delay, a clock that is not too far behind.
HandledInOrder ==
    \A i, j \in 1..Len(handled) : i < j => handled[i] < handled[j]

\* Why: everything that was delivered is at least Delay old, and the
\* subscription is past it.
DeliveredIsPast ==
    \A i \in 1..Len(handled) : handled[i] <= cursor /\ handled[i] + Delay <= now

\* The listener is never deaf for good: again and again it has a subscription
\* that delivers and a goroutine free to take the next message, although a
\* stream may end unnoticed, Subscribe may fail and a callback may hang.
NeverDeafForGood == []<>(alive /\ running = {})

\* What the comment in downloadAndListen says: the new subscription starts at
\* the last time a message was received, so it skips no message.
ResumesAtLastMessage ==
    [][phase = "subscribe" /\ phase' = "listen" /\ handled # <<>>
         => \A m \in posted : m > handled[Len(handled)] => m > cursor']_vars
=============================================================================
