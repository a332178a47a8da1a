----------------------------- MODULE BuyerCase -----------------------------
(***************************************************************************)
(* The buyer of dapp-protocols/stream-buyer-vs-seller/buyer-case.go.       *)
(*                                                                         *)
(* Three kinds of goroutine call processSeller on the same peer table      *)
(* without any lock that spans the call:                                   *)
(*   - the processing loop, over a copy of listOfSellers every 60 s;       *)
(*   - the topic callback, when a seller reports a write error;            *)
(*   - the application, through ReplaceSellers and its variants.           *)
(* processSeller reads the table, asks the network and the ledger, and     *)
(* writes the table many seconds later, so it is cut into one action per   *)
(* table operation and one per outside call; pc[t] says where goroutine t  *)
(* is, tgt[t] and has[t] are its locals targetPeerID and peerHasBuffer.    *)
(* The buyer never changes the envelope of an entry once it is made, so    *)
(* msg[t] stands for both envelope and peerBuffer.RequestOrResponse.       *)
(*                                                                         *)
(* Hole punching goroutines, dropped connections, lost topic messages and  *)
(* restarts of the process are actions too.  The ledger and libp2p are     *)
(* outside src/; what they may do is the choice made in each action.       *)
(***************************************************************************)
EXTENDS NodeBuffers

CONSTANTS Locations,    \* positions a seller's heartbeats may report
          Loop,         \* the processing loop's goroutine
          Callbacks,    \* goroutines that run the topic callback
          Apps,         \* application goroutines that replace sellers
          Punchers,     \* bound: hole punching goroutines alive at once
          Unreachable,  \* the sellers whose dial may fail, so that they ask to punch
          Reporting,    \* the sellers whose application reports write errors
          LoopPeriod,   \* sleep of the processing loop, 60 s
          MaxRestarts,  \* bound: restarts of the buyer process
          MaxReplaces   \* bound: calls of ReplaceSellers and its variants

Callers == {Loop} \cup Callbacks \cup Apps

ASSUME BuyerAssumption ==
    /\ Peers # {}
    /\ Unreachable \subseteq Peers
    /\ Reporting \subseteq Peers
    /\ Loop \notin Callbacks \cup Apps
    /\ Callbacks \cap Apps = {}
    /\ LoopPeriod \in Nat \ {0}
    /\ MaxRestarts \in Nat
    /\ MaxReplaces \in Nat

VARIABLES
    buffers,    \* commonlib.NodeBuffersInstance
    conn,       \* libp2p: no connection, a connection, one with streams
    listed,     \* listOfSellers: sellers with the position they reported
    todo,       \* what is left of sellersCopy in this round of the loop
    sleep,      \* 0 in a round, 1 when awake, k + 1 for k more units asleep
    pc, tgt, has, msg,        \* the goroutines inside processSeller
    add, drop,  \* newSellersMap and currentSellers of a ReplaceSellers call
    ppc, ptgt,  \* the hole punching goroutines
    inbox,      \* messages on the buyer's stdin topic
    accounts,   \* ledger: shared accounts opened for each seller
    delivered,  \* ledger: requests on each seller's stdin topic
    owed,       \* a delivered request the seller may still answer by punching
    served,     \* the seller has opened a stream to this buyer before
    restarts, replaces,       \* how often; bounded
    \* Observers, never read by an action's guard.
    opened,     \* accounts each goroutine opened for each seller
    removed,    \* how often the entry of each seller was removed
    sinceTry,   \* age of the last request sent to each seller
    streak      \* requests sent since the seller was last seen connected

loopVars   == <<listed, todo, sleep>>
localVars  == <<tgt, has, msg>>
appVars    == <<add, drop, replaces, removed>>
punchVars  == <<ppc, ptgt>>
ledgerVars == <<accounts, delivered, owed, served, opened>>
sendVars   == <<sinceTry, streak>>
envVars    == <<conn, inbox, restarts>>
vars == <<buffers, conn, listed, todo, sleep, pc, tgt, has, msg, add, drop,
          ppc, ptgt, inbox, accounts, delivered, owed, served, restarts,
          replaces, opened, removed, sinceTry, streak>>

Waiting == LoopPeriod + 2     \* sleep while blocked on <-startSecondLoop

AnyPeer == CHOOSE s \in Peers : TRUE     \* an unset local

CallPCs ==
    {"idle", "lookup", "conns", "check", "prepare", "blacklist", "incr1",
     "send", "addOK", "addFail", "incr2", "resend", "rdvOK", "libOK",
     "rdvFail", "libFail", "rdvConn", "libConn", "addrConn",
     "ack", "mark", "schedule", "verify", "snapshot", "remove"}

PunchPCs == {"idle", "sleeping", "completed", "failed", "addr"}

Messages == [type : {"writeError", "punchMeRequest"}, seller : Peers]

LoopOK ==
    /\ listed \in SUBSET (Peers \X Locations)
    /\ todo \in SUBSET (Peers \X Locations)
    /\ sleep \in 0..Waiting

LocalsOK ==
    /\ pc \in [Callers -> CallPCs]
    /\ tgt \in [Callers -> Peers]
    /\ has \in [Callers -> BOOLEAN]
    /\ msg \in [Callers -> Nat]

AppOK ==
    /\ add \in [Apps -> SUBSET Peers]
    /\ drop \in [Apps -> SUBSET Peers]
    /\ replaces \in Nat
    /\ removed \in [Peers -> Nat]

PunchOK ==
    /\ ppc \in [Punchers -> PunchPCs]
    /\ ptgt \in [Punchers -> Peers]

LedgerOK ==
    /\ accounts \in [Peers -> Nat]
    /\ delivered \in [Peers -> SUBSET Nat]
    /\ owed \in [Peers -> BOOLEAN]
    /\ served \in [Peers -> BOOLEAN]
    /\ opened \in [Callers -> [Peers -> Nat]]

SentOK ==
    /\ sinceTry \in [Peers -> 0..MaxBackoff]
    /\ streak \in [Peers -> 0..MaxAttempts]

EnvOK ==
    /\ conn \in [Peers -> {"none", "open", "streams"}]
    /\ inbox \in SUBSET Messages
    /\ restarts \in Nat

TypeOK ==
    /\ buffers \in Tables
    /\ LoopOK /\ LocalsOK /\ AppOK /\ PunchOK /\ LedgerOK /\ SentOK /\ EnvOK

Init ==
    /\ buffers = NewNodeBuffers
    /\ conn = [s \in Peers |-> "none"]
    /\ listed = {} /\ todo = {} /\ sleep = Waiting
    /\ pc = [t \in Callers |-> "idle"]
    /\ tgt = [t \in Callers |-> AnyPeer]
    /\ has = [t \in Callers |-> FALSE]
    /\ msg = [t \in Callers |-> NoMessage]
    /\ add = [t \in Apps |-> {}] /\ drop = [t \in Apps |-> {}]
    /\ ppc = [q \in Punchers |-> "idle"]
    /\ ptgt = [q \in Punchers |-> AnyPeer]
    /\ inbox = {}
    /\ accounts = [s \in Peers |-> 0]
    /\ delivered = [s \in Peers |-> {}]
    /\ owed = [s \in Peers |-> FALSE]
    /\ served = [s \in Peers |-> FALSE]
    /\ restarts = 0 /\ replaces = 0
    /\ opened = [t \in Callers |-> [s \in Peers |-> 0]]
    /\ removed = [s \in Peers |-> 0]
    /\ sinceTry = [s \in Peers |-> MaxBackoff]
    /\ streak = [s \in Peers |-> 0]

-----------------------------------------------------------------------------
(* The goroutine's locals.                                                 *)

Goto(t, l) == pc' = [pc EXCEPT ![t] = l] /\ UNCHANGED localVars

Return(t) ==
    /\ pc' = [pc EXCEPT ![t] = "idle"]
    /\ tgt' = [tgt EXCEPT ![t] = AnyPeer]
    /\ has' = [has EXCEPT ![t] = FALSE]
    /\ msg' = [msg EXCEPT ![t] = NoMessage]

Call(t, s, l) ==
    /\ pc' = [pc EXCEPT ![t] = l]
    /\ tgt' = [tgt EXCEPT ![t] = s]
    /\ UNCHANGED <<has, msg>>

\* processSeller asks the contract first: on an error, or when the seller is
\* not available, it returns at once.
EnterProcessSeller(t, s) == Call(t, s, "lookup") \/ UNCHANGED <<pc, localVars>>

\* A table operation, and nothing else that other goroutines could notice.
TableStep(t, from, table, to) ==
    /\ pc[t] = from
    /\ buffers' = table
    /\ IF to = "return" THEN Return(t) ELSE Goto(t, to)
    /\ UNCHANGED <<loopVars, appVars, punchVars, ledgerVars, sendVars, envVars>>

-----------------------------------------------------------------------------
(* processSeller.                                                          *)

\* peerBuffer, peerHasBuffer := sellerBuffers.GetBuffer(targetPeerID)
ReadBuffer(t) ==
    /\ has' = [has EXCEPT ![t] = HasBuffer(buffers, tgt[t])]
    /\ msg' = [msg EXCEPT ![t] = IF HasBuffer(buffers, tgt[t])
                                  THEN buffers[tgt[t]].msg ELSE NoMessage]
    /\ UNCHANGED tgt

Blacklisted(s) == buffers[s] # NoBuffer /\ ~buffers[s].valid

\* Mutant: a blacklisted seller is set up anew, as if he had no entry.
Lookup_RetriesBlacklisted(t) ==
    /\ pc[t] = "lookup"
    /\ \/ /\ Blacklisted(tgt[t])
          /\ Goto(t, "prepare")
       \/ /\ ~Blacklisted(tgt[t])
          /\ pc' = [pc EXCEPT ![t] = "conns"]
          /\ ReadBuffer(t)
    /\ UNCHANGED <<buffers, loopVars, appVars, punchVars, ledgerVars, sendVars, envVars>>

Lookup(t) ==
    /\ pc[t] = "lookup"
    /\ \/ Blacklisted(tgt[t]) /\ Return(t)
       \/ /\ ~Blacklisted(tgt[t])
          /\ pc' = [pc EXCEPT ![t] = "conns"]
          /\ ReadBuffer(t)
    /\ UNCHANGED <<buffers, loopVars, appVars, punchVars, ledgerVars, sendVars, envVars>>

ConnsToPeer(t) ==
    /\ pc[t] = "conns"
    /\ \/ conn[tgt[t]] = "none" /\ ~has[t] /\ Goto(t, "prepare")
       \/ conn[tgt[t]] = "none" /\ has[t] /\ Goto(t, "check")
       \/ conn[tgt[t]] = "open" /\ has[t] /\ Return(t)
       \/ conn[tgt[t]] = "streams" /\ has[t] /\ Goto(t, "rdvConn")
    /\ UNCHANGED <<buffers, loopVars, appVars, punchVars, ledgerVars, sendVars, envVars>>

\* Connected without an entry: close, and leave it to a later round.
CloseUnknownPeer(t) ==
    /\ pc[t] = "conns"
    /\ conn[tgt[t]] # "none" /\ ~has[t]
    /\ conn' = [conn EXCEPT ![tgt[t]] = "none"]
    /\ Return(t)
    /\ UNCHANGED <<buffers, loopVars, appVars, punchVars, ledgerVars, sendVars, inbox, restarts>>

\* prepareServiceRequestMsg: the shared account is opened and funded in the
\* middle, so a failure leaves either no account or an orphaned one behind.
PrepareServiceRequest(t) ==
    /\ pc[t] = "prepare"
    /\ \/ /\ Goto(t, "blacklist")
          /\ UNCHANGED <<accounts, opened>>
       \/ /\ accounts' = [accounts EXCEPT ![tgt[t]] = @ + 1]
          /\ opened' = [opened EXCEPT ![t][tgt[t]] = @ + 1]
          /\ \/ Goto(t, "blacklist")
             \/ /\ pc' = [pc EXCEPT ![t] = "incr1"]
                /\ msg' = [msg EXCEPT ![t] = accounts[tgt[t]] + 1]
                /\ UNCHANGED <<tgt, has>>
    /\ UNCHANGED <<buffers, loopVars, appVars, punchVars, delivered, owed, served, sendVars, envVars>>

\* Mutant: the failed seller is not recorded.
Blacklist_Forgets(t) == TableStep(t, "blacklist", buffers, "return")

Blacklist(t) ==
    TableStep(t, "blacklist",
              AddBuffer2(buffers, tgt[t], NoMessage, FALSE, "NotInitiated", "ConnectionLost"),
              "return")

\* No entry was found, but another goroutine may have made one since.
CountFirstAttempt(t) ==
    TableStep(t, "incr1", IncrementReconnectAttempts(buffers, tgt[t]), "send")

\* SendTransactionEnvelope returns what one node answered to the submission
\* and never asks for the receipt: a call that succeeds may still not put the
\* message on the topic, and one that fails may have done so.
SendTo(s, m) ==
    /\ \/ UNCHANGED <<delivered, owed>>
       \/ /\ delivered' = [delivered EXCEPT ![s] = @ \cup {m}]
          /\ owed' = [owed EXCEPT ![s] = s \in Unreachable]
    /\ sinceTry' = [sinceTry EXCEPT ![s] = 0]
    /\ UNCHANGED <<accounts, served, opened>>

SendRequest(t) ==
    /\ pc[t] = "send"
    /\ SendTo(tgt[t], msg[t])
    /\ Goto(t, "addOK") \/ Goto(t, "addFail")
    /\ streak' = [streak EXCEPT ![tgt[t]] = CappedSucc(0, MaxAttempts)]
    /\ UNCHANGED <<buffers, loopVars, appVars, punchVars, envVars>>

\* Mutant: the entry is made without the request.
AddAfterFailedSend_Empty(t) ==
    TableStep(t, "addFail",
              AddBuffer2(buffers, tgt[t], NoMessage, TRUE, "SendFail", "Connecting"),
              "return")

AddAfterFailedSend(t) ==
    TableStep(t, "addFail",
              AddBuffer2(buffers, tgt[t], msg[t], TRUE, "SendFail", "Connecting"),
              "return")

\* Mutant: the entry is only made by the next round.
AddAfterSend_Skipped(t) == TableStep(t, "addOK", buffers, "incr2")

AddAfterSend(t) ==
    TableStep(t, "addOK",
              AddBuffer2(buffers, tgt[t], msg[t], TRUE, "SendOK", "Connecting"),
              "incr2")

\* Mutant: a request that comes too early restarts the clock.
CheckTooEarly_RestartsClock(t) ==
    \/ /\ IsRequestTooEarly(buffers, tgt[t])
       /\ TableStep(t, "check", UpdateBufferLibP2PState(buffers, tgt[t], "Connecting"), "return")
    \/ /\ ~IsRequestTooEarly(buffers, tgt[t])
       /\ TableStep(t, "check", buffers, "incr2")

CheckTooEarly(t) ==
    \/ IsRequestTooEarly(buffers, tgt[t]) /\ TableStep(t, "check", buffers, "return")
    \/ ~IsRequestTooEarly(buffers, tgt[t]) /\ TableStep(t, "check", buffers, "incr2")

\* Mutant: the attempt is not counted.
CountAttempt_Skipped(t) ==
    /\ has[t]
    /\ TableStep(t, "incr2", buffers, "resend")

\* After a first request peerBuffer is nil, and the goroutine is done.
CountAttempt(t) ==
    TableStep(t, "incr2", IncrementReconnectAttempts(buffers, tgt[t]),
              IF has[t] /\ msg[t] # NoMessage THEN "resend" ELSE "return")

\* The envelope of the entry that was read is sent once more.
ResendRequest(t) ==
    /\ pc[t] = "resend"
    /\ SendTo(tgt[t], msg[t])
    /\ Goto(t, "rdvOK") \/ Goto(t, "rdvFail")
    /\ streak' = [streak EXCEPT ![tgt[t]] = CappedSucc(@, MaxAttempts)]
    /\ UNCHANGED <<buffers, loopVars, appVars, punchVars, envVars>>

\* Mutant: the two state arguments are swapped.
MarkRendezvous_Swapped(t) ==
    \/ TableStep(t, "rdvOK", UpdateBufferRendezvousState(buffers, tgt[t], "Connecting"), "libOK")
    \/ TableStep(t, "rdvFail", UpdateBufferRendezvousState(buffers, tgt[t], "SendFail"), "libFail")
    \/ TableStep(t, "rdvConn", UpdateBufferRendezvousState(buffers, tgt[t], "SendOK"), "libConn")

\* The two table writes after a resend, and the three for a live connection.
MarkRendezvous(t) ==
    \/ TableStep(t, "rdvOK", UpdateBufferRendezvousState(buffers, tgt[t], "SendOK"), "libOK")
    \/ TableStep(t, "rdvFail", UpdateBufferRendezvousState(buffers, tgt[t], "SendFail"), "libFail")
    \/ TableStep(t, "rdvConn", UpdateBufferRendezvousState(buffers, tgt[t], "SendOK"), "libConn")

MarkResent(t) ==
    \/ TableStep(t, "libOK", UpdateBufferLibP2PState(buffers, tgt[t], "Connecting"), "return")
    \/ TableStep(t, "libFail",
                 UpdateBufferLibP2PState(buffers, tgt[t], "CanNotConnectUnknownReason"), "return")

\* Mutant: a live connection is left as it was recorded.
MarkConnected_Skipped(t) ==
    /\ pc[t] = "libConn"
    /\ Goto(t, "addrConn")
    /\ UNCHANGED <<buffers, sendVars>>
    /\ UNCHANGED <<loopVars, appVars, punchVars, ledgerVars, envVars>>

MarkConnected(t) ==
    /\ pc[t] = "libConn"
    /\ buffers' = UpdateBufferLibP2PState(buffers, tgt[t], "Connected")
    /\ streak' = [streak EXCEPT ![tgt[t]] = IF HasBuffer(buffers, tgt[t]) THEN 0 ELSE @]
    /\ Goto(t, "addrConn")
    /\ UNCHANGED sinceTry
    /\ UNCHANGED <<loopVars, appVars, punchVars, ledgerVars, envVars>>

SetRemoteAddress(t) ==
    TableStep(t, "addrConn", SetLastOtherSideMultiAddress(buffers, tgt[t], "transport"), "return")

processSeller(t) ==
    \/ Lookup(t) \/ ConnsToPeer(t) \/ CloseUnknownPeer(t)
    \/ PrepareServiceRequest(t) \/ Blacklist(t) \/ CountFirstAttempt(t)
    \/ SendRequest(t) \/ AddAfterFailedSend(t) \/ AddAfterSend(t)
    \/ CheckTooEarly(t) \/ CountAttempt(t) \/ ResendRequest(t)
    \/ MarkRendezvous(t) \/ MarkResent(t) \/ MarkConnected(t) \/ SetRemoteAddress(t)

-----------------------------------------------------------------------------
(* The discovery goroutine and the processing loop.                        *)

\* listOfSellers is keyed by the Seller struct, position included, so a
\* seller that moves is listed again; no entry ever leaves the list.
Discover(s, l) ==
    /\ <<s, l>> \notin listed
    /\ listed' = listed \cup {<<s, l>>}
    /\ UNCHANGED <<buffers, todo, sleep, pc, localVars, appVars, punchVars,
                   ledgerVars, sendVars, envVars>>

\* The non-blocking send on startSecondLoop finds the loop waiting.  When it
\* does not, the signal is dropped, and sent again 120 s later.
StartSecondLoop ==
    /\ sleep = Waiting
    /\ sleep' = 1
    /\ UNCHANGED <<buffers, listed, todo, pc, localVars, appVars, punchVars,
                   ledgerVars, sendVars, envVars>>

CopySellers ==
    /\ sleep = 1
    /\ sleep' = 0
    /\ todo' = listed
    /\ UNCHANGED <<buffers, listed, pc, localVars, appVars, punchVars,
                   ledgerVars, sendVars, envVars>>

NextSeller(x) ==
    /\ sleep = 0 /\ pc[Loop] = "idle"
    /\ x \in todo
    /\ todo' = todo \ {x}
    /\ EnterProcessSeller(Loop, x[1])
    /\ UNCHANGED <<buffers, listed, sleep, appVars, punchVars, ledgerVars, sendVars, envVars>>

LoopSleeps ==
    /\ sleep = 0 /\ pc[Loop] = "idle" /\ todo = {}
    /\ sleep' = LoopPeriod + 1
    /\ UNCHANGED <<buffers, listed, todo, pc, localVars, appVars, punchVars,
                   ledgerVars, sendVars, envVars>>

-----------------------------------------------------------------------------
(* The topic callback and hole punching.                                   *)

\* WriteError with SendFreshHederaRequest calls processSeller; a
\* punchMeRequest that cannot be decrypted is dropped.
TopicCallback(t, m) ==
    /\ pc[t] = "idle"
    /\ m \in inbox
    /\ inbox' = inbox \ {m}
    /\ \/ m.type = "writeError" /\ EnterProcessSeller(t, m.seller)
       \/ m.type = "punchMeRequest"
          /\ (Call(t, m.seller, "ack") \/ UNCHANGED <<pc, localVars>>)
    /\ UNCHANGED <<buffers, loopVars, appVars, punchVars, ledgerVars, sendVars, conn, restarts>>

SendAcknowledgment(t) ==
    /\ pc[t] = "ack"
    /\ Goto(t, "mark") \/ Return(t)
    /\ UNCHANGED <<buffers, loopVars, appVars, punchVars, ledgerVars, sendVars, envVars>>

MarkPunching(t) ==
    TableStep(t, "mark",
              UpdateBufferLibP2PState(buffers, tgt[t], "HolePunchingInProgress"), "schedule")

\* go func() { sleep until consensus time + delay; perform }, unless the
\* seller's timestamp does not parse.
ScheduleBuyerHolePunching(t) ==
    /\ pc[t] = "schedule"
    /\ \/ UNCHANGED punchVars
       \/ \E q \in Punchers :
             /\ ppc[q] = "idle"
             /\ ppc' = [ppc EXCEPT ![q] = "sleeping"]
             /\ ptgt' = [ptgt EXCEPT ![q] = tgt[t]]
    /\ Return(t)
    /\ UNCHANGED <<buffers, loopVars, appVars, ledgerVars, sendVars, envVars>>

PunchGoto(q, l) ==
    /\ ppc' = [ppc EXCEPT ![q] = l]
    /\ ptgt' = IF l = "idle" THEN [ptgt EXCEPT ![q] = AnyPeer] ELSE ptgt
    /\ UNCHANGED <<loopVars, pc, localVars, appVars, ledgerVars, sendVars, inbox, restarts>>

\* One of the seller's addresses answers, or all of them fail.
PunchConnect(q) ==
    /\ ppc[q] = "sleeping"
    /\ \/ /\ conn' = [conn EXCEPT ![ptgt[q]] = IF @ = "none" THEN "open" ELSE @]
          /\ PunchGoto(q, "completed")
       \/ UNCHANGED conn /\ PunchGoto(q, "failed")
    /\ UNCHANGED buffers

PunchRecord(q) ==
    /\ \/ /\ ppc[q] = "completed" /\ PunchGoto(q, "addr")
          /\ buffers' = UpdateBufferLibP2PState(buffers, ptgt[q], "HolePunchingCompleted")
       \/ /\ ppc[q] = "addr" /\ PunchGoto(q, "idle")
          /\ buffers' = SetLastOtherSideMultiAddress(buffers, ptgt[q], "transport")
       \/ /\ ppc[q] = "failed" /\ PunchGoto(q, "idle")
          /\ buffers' = UpdateBufferLibP2PState(buffers, ptgt[q], "CanNotConnectUnknownReason")
    /\ UNCHANGED conn

-----------------------------------------------------------------------------
(* ReplaceSellers, called by the application.  add holds the sellers still *)
(* to be processed, drop the current ones still to be removed.             *)

Idle(t) == pc[t] = "idle" /\ add[t] = {} /\ drop[t] = {}

\* The caller names the sellers he takes for current.  ReplaceSellersAuto, and
\* ReplaceSellers without such a list, take the table's keys, which are read
\* before the new sellers are verified and are one of the choices here.
ReplaceSellers(t, new, current) ==
    /\ replaces < MaxReplaces /\ Idle(t)
    /\ replaces' = replaces + 1
    /\ add' = [add EXCEPT ![t] = new]
    /\ drop' = [drop EXCEPT ![t] = current]
    /\ Goto(t, "verify")
    /\ UNCHANGED <<buffers, loopVars, removed, punchVars, ledgerVars, sendVars, envVars>>

\* GetPeerInfo confirms some of the sellers; those already there are kept.
VerifySellers(t) ==
    /\ pc[t] = "verify"
    /\ \E found \in SUBSET add[t] :
          /\ add' = [add EXCEPT ![t] = found \ drop[t]]
          /\ drop' = [drop EXCEPT ![t] = @ \ found]
    /\ Goto(t, "idle")
    /\ UNCHANGED <<buffers, loopVars, replaces, removed, punchVars, ledgerVars, sendVars, envVars>>

\* ReplaceSellersSimple verifies first and reads the table's keys afterwards.
ReplaceSellersSimple(t, found) ==
    /\ replaces < MaxReplaces /\ Idle(t)
    /\ replaces' = replaces + 1
    /\ add' = [add EXCEPT ![t] = found]
    /\ Goto(t, "snapshot")
    /\ UNCHANGED <<buffers, drop, loopVars, removed, punchVars, ledgerVars, sendVars, envVars>>

SnapshotPeers(t) ==
    /\ pc[t] = "snapshot"
    /\ drop' = [drop EXCEPT ![t] = BufferedPeers(buffers) \ add[t]]
    /\ Goto(t, "idle")
    /\ UNCHANGED <<buffers, add, loopVars, replaces, removed, punchVars, ledgerVars, sendVars, envVars>>

\* A new seller without an entry is processed, one with an entry is kept.
AddSeller(t, s) ==
    /\ pc[t] = "idle" /\ s \in add[t]
    /\ add' = [add EXCEPT ![t] = @ \ {s}]
    /\ \/ HasBuffer(buffers, s) /\ UNCHANGED <<pc, localVars>>
       \/ ~HasBuffer(buffers, s) /\ EnterProcessSeller(t, s)
    /\ UNCHANGED <<buffers, drop, loopVars, replaces, removed, punchVars, ledgerVars, sendVars, envVars>>

DisconnectSeller(t, s) ==
    /\ pc[t] = "idle" /\ add[t] = {} /\ s \in drop[t]
    /\ drop' = [drop EXCEPT ![t] = @ \ {s}]
    /\ conn' = [conn EXCEPT ![s] = "none"]
    /\ Call(t, s, "remove")
    /\ UNCHANGED <<buffers, add, loopVars, replaces, removed, punchVars, ledgerVars, sendVars, inbox, restarts>>

RemoveSeller(t) ==
    /\ pc[t] = "remove"
    /\ buffers' = RemoveBuffer(buffers, tgt[t])
    /\ removed' = [removed EXCEPT ![tgt[t]] = IF HasBuffer(buffers, tgt[t]) THEN @ + 1 ELSE @]
    /\ Return(t)
    /\ UNCHANGED <<add, drop, loopVars, replaces, punchVars, ledgerVars, sendVars, envVars>>

App(t) ==
    \/ \E new, current \in SUBSET Peers : ReplaceSellers(t, new, current)
    \/ \E found \in SUBSET Peers : ReplaceSellersSimple(t, found)
    \/ VerifySellers(t) \/ SnapshotPeers(t) \/ RemoveSeller(t)
    \/ \E s \in Peers : AddSeller(t, s) \/ DisconnectSeller(t, s)

-----------------------------------------------------------------------------
(* The outside world: sellers, libp2p, the topic, time and restarts.       *)

World ==
    UNCHANGED <<buffers, loopVars, pc, localVars, appVars, punchVars, accounts,
                delivered, opened, sendVars, restarts>>

\* Only the seller dials and opens streams, once a request has reached him.
SellerConnects(s) ==
    /\ delivered[s] # {}
    /\ conn[s] # "streams"
    /\ conn' = [conn EXCEPT ![s] = IF @ = "none" THEN "open" ELSE "streams"]
    /\ served' = [served EXCEPT ![s] = @ \/ conn[s] = "open"]
    /\ World /\ UNCHANGED <<inbox, owed>>

\* The streams close, or the connection drops with them.
ConnectionDrops(s) ==
    /\ conn[s] # "none"
    /\ conn' \in {[conn EXCEPT ![s] = c] : c \in {"none", "open"} \ {conn[s]}}
    /\ World /\ UNCHANGED <<inbox, owed, served>>

\* His application reports the failed write, again and again as long as his
\* own table still has the buyer.
SellerReportsWriteError(s) ==
    /\ s \in Reporting /\ served[s] /\ conn[s] = "none"
    /\ inbox' = inbox \cup {[type |-> "writeError", seller |-> s]}
    /\ World /\ UNCHANGED <<conn, owed, served>>

\* A request whose dial failed is answered by one punchMeRequest.
SellerAsksToPunch(s) ==
    /\ s \in Unreachable /\ owed[s]
    /\ owed' = [owed EXCEPT ![s] = FALSE]
    /\ inbox' = inbox \cup {[type |-> "punchMeRequest", seller |-> s]}
    /\ World /\ UNCHANGED <<conn, served>>

LoseMessage(m) ==
    /\ m \in inbox
    /\ inbox' = inbox \ {m}
    /\ World /\ UNCHANGED <<conn, owed, served>>

Tick ==
    /\ buffers' = AgeBuffers(buffers)
    /\ sinceTry' = [s \in Peers |-> CappedSucc(sinceTry[s], MaxBackoff)]
    /\ sleep' = IF sleep \in 2..LoopPeriod + 1 THEN sleep - 1 ELSE sleep
    /\ UNCHANGED <<listed, todo, pc, localVars, appVars, punchVars, ledgerVars,
                   streak, envVars>>

\* The table lives in memory only: a restarted buyer knows nobody.
Restart ==
    /\ restarts < MaxRestarts
    /\ restarts' = restarts + 1
    /\ buffers' = NewNodeBuffers
    /\ conn' = [s \in Peers |-> "none"]
    /\ listed' = {} /\ todo' = {} /\ sleep' = Waiting
    /\ pc' = [t \in Callers |-> "idle"]
    /\ tgt' = [t \in Callers |-> AnyPeer]
    /\ has' = [t \in Callers |-> FALSE]
    /\ msg' = [t \in Callers |-> NoMessage]
    /\ add' = [t \in Apps |-> {}] /\ drop' = [t \in Apps |-> {}]
    /\ ppc' = [q \in Punchers |-> "idle"] /\ ptgt' = [q \in Punchers |-> AnyPeer]
    /\ inbox' = {}
    /\ UNCHANGED <<replaces, removed, ledgerVars, sendVars>>

-----------------------------------------------------------------------------
TheLoop ==
    \/ StartSecondLoop \/ CopySellers \/ LoopSleeps
    \/ \E x \in Peers \X Locations : NextSeller(x)
    \/ processSeller(Loop)

Callback(t) ==
    \/ \E m \in inbox : TopicCallback(t, m)
    \/ SendAcknowledgment(t) \/ MarkPunching(t) \/ ScheduleBuyerHolePunching(t)

Puncher(q) == PunchConnect(q) \/ PunchRecord(q)

Environment ==
    \/ \E s \in Peers :
         \/ SellerConnects(s) \/ ConnectionDrops(s)
         \/ SellerReportsWriteError(s) \/ SellerAsksToPunch(s)
    \/ \E m \in inbox : LoseMessage(m)
    \/ \E s \in Peers, l \in Locations : Discover(s, l)
    \/ Tick \/ Restart

Next ==
    \/ TheLoop
    \/ \E t \in Callbacks : processSeller(t) \/ Callback(t)
    \/ \E t \in Apps : processSeller(t) \/ App(t)
    \/ \E q \in Punchers : Puncher(q)
    \/ Environment

Spec == Init /\ [][Next]_vars

\* What the Go scheduler and the clock guarantee: goroutines that can run do,
\* timers fire, and a contract that is asked again and again answers.
Fairness ==
    /\ WF_vars(TheLoop)
    /\ \A x \in Peers \X Locations : SF_vars(NextSeller(x) /\ pc'[Loop] = "lookup")
    /\ \A t \in Callbacks : WF_vars(processSeller(t) \/ Callback(t))
    /\ \A q \in Punchers : WF_vars(Puncher(q))
    /\ \A s \in Peers, l \in Locations : WF_vars(Discover(s, l))
    /\ WF_vars(Tick)

FairSpec == Spec /\ Fairness

-----------------------------------------------------------------------------
(* Properties.                                                             *)

\* However the goroutines interleave, each of them opens at most one funded
\* shared account per seller, and one more for each time the seller's entry
\* was removed or the process restarted: the check of the table and the
\* opening of the account are seconds apart in processSeller, but a goroutine
\* that opened an account always leaves an entry behind.
OneAccountPerGoroutine ==
    \A t \in Callers, s \in Peers : opened[t][s] <= 1 + removed[s] + restarts

\* Why that is so.  A goroutine is in the middle of opening and recording an
\* account, or it has looked the seller up, found no entry and is about to.
HoldsAccount(t, s) ==
    tgt[t] = s /\ pc[t] \in {"blacklist", "incr1", "send", "addOK", "addFail"}

FoundNoEntry(t, s) ==
    tgt[t] = s /\ (pc[t] = "prepare" \/ (pc[t] = "conns" /\ ~has[t]))

\* No account a goroutine opened goes unrecorded: when a seller has no entry
\* and the goroutine is not about to make one, or when it is about to open an
\* account itself, whatever it opened before was removed or lost in a restart.
AccountsAreRecorded ==
    \A t \in Callers, s \in Peers :
        \/ ~HasBuffer(buffers, s) /\ ~HoldsAccount(t, s)
        \/ FoundNoEntry(t, s)
        => opened[t][s] <= removed[s] + restarts

\* Every request that reaches a seller names a shared account that was opened
\* for this very seller, and so does every entry that is not blacklisted: a
\* failed set-up never leaks its empty envelope into a later resend, whichever
\* goroutine blacklists, removes or rewrites the entry in between.
RequestsArePayable ==
    \A s \in Peers :
        /\ delivered[s] \subseteq 1..accounts[s]
        /\ HasBuffer(buffers, s) /\ buffers[s].valid => buffers[s].msg \in 1..accounts[s]

\* So does the envelope in the hands of a goroutine that may still send it.
CarriesRequest(t) ==
    \/ pc[t] \in {"incr1", "send", "addOK", "addFail", "resend"}
    \/ has[t] /\ pc[t] \in {"conns", "check", "incr2"}

RequestsInHand == \A t \in Callers : CarriesRequest(t) => msg[t] \in 1..accounts[tgt[t]]

\* The whole buyer, seen from the ledger: racing goroutines, lost messages,
\* removals and restarts included, it opens an account for a seller only when
\* the goroutine's last one for him was forgotten (his entry removed, or the
\* table lost in a restart), and asks a seller to serve on his own accounts.
Promise == INSTANCE SharedAccounts
    WITH Sellers <- Peers, forgotten <- [s \in Peers |-> removed[s] + restarts]
ImplementsSharedAccounts == Promise!Spec

\* The backoff has doubled up to its cap at every count up to n; in the code
\* that is so for 28 attempts, and the 29th product wraps.
Doubling(n) == \A k \in 0..n : k \notin Wrapped

\* The n-th repetition of a request goes out no sooner than 30 s * 2^n (or
\* the cap) after the one before it, counted from what was sent and not from
\* the table's own counter.  Holds while one goroutine calls processSeller and
\* the entry, with this attempt, counts fewer attempts in a row than make the
\* product wrap; from there on the code waits at some counts and not at others.
RepeatsAreSpaced ==
    [][\A t \in Callers :
         /\ pc[t] = "resend" /\ pc'[t] \in {"rdvOK", "rdvFail"}
         /\ HasBuffer(buffers, tgt[t]) /\ Doubling(buffers[tgt[t]].attempts)
         => sinceTry[tgt[t]] >= Backoff(streak[tgt[t]])]_vars

\* Once a seller is blacklisted he gets no further request, and only the
\* removal of his entry or a restart lifts the ban.
BlacklistSticks ==
    [][\A s \in Peers : Blacklisted(s) =>
         /\ delivered'[s] = delivered[s] /\ accounts'[s] = accounts[s]
         /\ \/ Blacklisted(s)'
            \/ restarts' # restarts \/ removed'[s] # removed[s]]_vars

\* A listed seller who stays unconnected and is not blacklisted is asked
\* again and again: neither the backoff nor hole punching, which restarts the
\* backoff's clock, can postpone the next request for ever.
KeepsAsking ==
    \A s \in Peers :
        <>[](conn[s] = "none" /\ ~Blacklisted(s)) => []<>(sinceTry[s] = 0)

\* When the connection of a known seller stays up, the table comes to say
\* Connected and keeps saying so, whatever late hole punching goroutines
\* wrote into the entry meanwhile.
StatusCatchesUp ==
    \A s \in Peers :
        <>[](conn[s] = "streams" /\ HasBuffer(buffers, s) /\ ~Blacklisted(s))
            => <>[](HasBuffer(buffers, s) /\ buffers[s].lib = "Connected")

\* What the comment on the processing loop says: a request, with its funded
\* account, is sent to a seller only if that was not done before.
OneAccountPerSeller == \A s \in Peers : accounts[s] <= 1 + removed[s] + restarts
=============================================================================
