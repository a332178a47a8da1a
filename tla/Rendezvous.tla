----------------------------- MODULE Rendezvous -----------------------------
(***************************************************************************)
(* One buyer and one seller of dapp-protocols/stream-buyer-vs-seller, with *)
(* the topics their messages are really sent to and the connection they    *)
(* really share: what becomes of a request, end to end.                    *)
(*                                                                         *)
(* BuyerCase and SellerCase show how goroutines of one process meet in its *)
(* table; here each process runs one handler at a time, cut only where it  *)
(* waits for the other node: at a dial, at a new stream, and in the sleep  *)
(* before a punch.                                                         *)
(*                                                                         *)
(* libp2p is outside src/.  link is the live connection; when it is lost,  *)
(* each host may list the dead one (stale) until it notices.  A dial       *)
(* reaches a node that is open to the world, or one that dials back at the *)
(* same moment, which is what hole punching is for.  Everything that goes  *)
(* wrong by itself (a lost message or connection, a failed call, the end   *)
(* of a process) takes one of MaxFaults.                                   *)
(***************************************************************************)
EXTENDS NodeBuffers, Sequences

CONSTANTS Buyer, Seller,
          MaxFaults,    \* bound: faults in a behaviour
          MaxQueue      \* bound: messages waiting on a topic

Nodes == {Buyer, Seller}

ASSUME RendezvousAssumption ==
    /\ Buyer # Seller
    /\ Peers = Nodes
    /\ MaxFaults \in Nat
    /\ MaxQueue \in Nat \ {0}

VARIABLES
    sellerBuffers,  \* the buyer's table
    buyerBuffers,   \* the seller's table
    topic,          \* what each node's stdin topic has yet to deliver to it
    link, stale,    \* the live connection; the dead ones each host still lists
    open,           \* the nodes that an unexpected dial can reach
    accounts,       \* ledger: shared accounts the buyer has opened
    hpc, hacc,      \* the seller's callback, and the request it handles
    ppc,            \* the buyer's hole punching goroutine
    faults,         \* how many are left
    current         \* observer: the seller has accepted the buyer's present account

tables == <<sellerBuffers, buyerBuffers>>
net    == <<link, stale>>
vars   == <<sellerBuffers, buyerBuffers, topic, link, stale, open, accounts,
            hpc, hacc, ppc, faults, current>>

Connections == {"none", "open", "streams"}

Messages ==
    [type : {"serviceRequest"}, account : Nat \ {NoMessage}]
        \cup [type : {"punchMeRequest"}, stdInTopic : Nodes]
        \cup [type : {"punchMeAcknowledgment", "dialError", "writeError"}]

TypeOK ==
    /\ sellerBuffers \in Tables /\ buyerBuffers \in Tables
    /\ topic \in [Nodes -> Seq(Messages)]
    /\ link \in Connections /\ stale \in [Nodes -> Connections]
    /\ open \in SUBSET Nodes
    /\ accounts \in Nat
    /\ hpc \in {"idle", "dial", "stream", "retry", "added", "punch", "record"}
    /\ hacc \in Nat
    /\ ppc \in {"idle", "sleeping", "dial"}
    /\ faults \in 0..MaxFaults
    /\ current \in BOOLEAN

\* One of the two can be dialled, or nothing but luck would connect them.
Init ==
    /\ sellerBuffers = NewNodeBuffers /\ buyerBuffers = NewNodeBuffers
    /\ topic = [n \in Nodes |-> <<>>]
    /\ link = "none" /\ stale = [n \in Nodes |-> "none"]
    /\ open \in SUBSET Nodes \ {{}}
    /\ accounts = 0
    /\ hpc = "idle" /\ hacc = NoMessage
    /\ ppc = "idle"
    /\ faults = MaxFaults
    /\ current = FALSE

-----------------------------------------------------------------------------
(* The surroundings: faults, connections, topics.                          *)

Fault == faults > 0 /\ faults' = faults - 1

Fine == UNCHANGED faults

Other(n) == IF n = Buyer THEN Seller ELSE Buyer

\* What ConnsToPeer and GetStreams of node n's host show.
Connected(n) == link # "none" \/ stale[n] # "none"

HasStreams(n) == link = "streams" \/ stale[n] = "streams"

Dialling(n) == IF n = Buyer THEN ppc = "dial" ELSE hpc = "dial"

\* A host that lists a connection has nothing to dial.
DialConnects(n) ==
    \/ Connected(n) /\ UNCHANGED net
    \/ /\ ~Connected(n)
       /\ Other(n) \in open \/ Dialling(Other(n))
       /\ link' = "open" /\ UNCHANGED stale

DialCannot(n) ==
    /\ ~Connected(n)
    /\ \/ Other(n) \notin open /\ Fine
       \/ Other(n) \in open /\ Fault
    /\ UNCHANGED net

\* All that node n's host lists, live or dead.
Listed(n) ==
    IF HasStreams(n) THEN "streams" ELSE IF Connected(n) THEN "open" ELSE "none"

\* ClosePeer closes what the host lists; the other end is left with a dead
\* connection.
ClosePeer(n) ==
    /\ link' = "none"
    /\ stale' = [stale EXCEPT ![n] = "none", ![Other(n)] = Listed(Other(n))]

\* Mutant: a submission overtakes those that wait.
Post_Overtakes(n, m) ==
    \/ Len(topic[n]) < MaxQueue /\ topic' = [topic EXCEPT ![n] = <<m>> \o @] /\ Fine
    \/ Fault /\ UNCHANGED topic

\* A submission reaches the topic, or is lost on the way without an error.
Post(n, m) ==
    \/ Len(topic[n]) < MaxQueue /\ topic' = [topic EXCEPT ![n] = Append(@, m)] /\ Fine
    \/ Fault /\ UNCHANGED topic

\* A submission that returns an error may have reached the topic all the same.
PostFails(n, m) ==
    /\ Fault
    /\ \/ UNCHANGED topic
       \/ Len(topic[n]) < MaxQueue /\ topic' = [topic EXCEPT ![n] = Append(@, m)]

Take(n, type) ==
    /\ topic[n] # <<>> /\ Head(topic[n]).type = type
    /\ topic' = [topic EXCEPT ![n] = Tail(@)]

-----------------------------------------------------------------------------
(* The buyer.                                                              *)

Entry == sellerBuffers[Seller]

Known == HasBuffer(sellerBuffers, Seller)

Blacklisted == Known /\ ~Entry.valid

Request(a) == [type |-> "serviceRequest", account |-> a]

\* processSeller for a seller without a connection and without an entry: an
\* account, an envelope, a message, and an entry that counts two attempts.
FirstRequest ==
    /\ ~Connected(Buyer) /\ ~Known
    /\ accounts' = accounts + 1 /\ current' = FALSE
    /\ \/ /\ Post(Seller, Request(accounts'))
          /\ sellerBuffers' = IncrementReconnectAttempts(
                 AddBuffer2(sellerBuffers, Seller, accounts', TRUE, "SendOK", "Connecting"),
                 Seller)
       \/ /\ PostFails(Seller, Request(accounts'))
          /\ sellerBuffers' =
                 AddBuffer2(sellerBuffers, Seller, accounts', TRUE, "SendFail", "Connecting")
    /\ UNCHANGED <<buyerBuffers, net, open, hpc, hacc, ppc>>

\* prepareServiceRequestMsg fails, before or after it opened an account, which
\* bans the seller.
PrepareFails ==
    /\ ~Connected(Buyer) /\ ~Known
    /\ Fault
    /\ sellerBuffers' =
           AddBuffer2(sellerBuffers, Seller, NoMessage, FALSE, "NotInitiated", "ConnectionLost")
    /\ accounts' \in {accounts, accounts + 1}
    /\ UNCHANGED <<buyerBuffers, topic, net, open, hpc, hacc, ppc, current>>

SetStates(b, rdv, lib) ==
    UpdateBufferLibP2PState(UpdateBufferRendezvousState(b, Seller, rdv), Seller, lib)

\* Mutant: the request is prepared afresh, with a further account.
Repeat_Afresh ==
    /\ ~Connected(Buyer) /\ Known /\ Entry.valid
    /\ ~IsRequestTooEarly(sellerBuffers, Seller)
    /\ accounts' = accounts + 1 /\ current' = FALSE
    /\ Post(Seller, Request(accounts'))
    /\ sellerBuffers' =
           AddBuffer2(sellerBuffers, Seller, accounts', TRUE, "SendOK", "Connecting")
    /\ UNCHANGED <<buyerBuffers, net, open, hpc, hacc, ppc>>

\* The same for a seller with an entry: the stored envelope again, once the
\* backoff is over.
Repeat ==
    /\ ~Connected(Buyer) /\ Known /\ Entry.valid
    /\ ~IsRequestTooEarly(sellerBuffers, Seller)
    /\ \/ /\ Post(Seller, Request(Entry.msg))
          /\ sellerBuffers' =
                 SetStates(IncrementReconnectAttempts(sellerBuffers, Seller),
                           "SendOK", "Connecting")
       \/ /\ PostFails(Seller, Request(Entry.msg))
          /\ sellerBuffers' =
                 SetStates(IncrementReconnectAttempts(sellerBuffers, Seller),
                           "SendFail", "CanNotConnectUnknownReason")
    /\ UNCHANGED <<buyerBuffers, net, open, accounts, hpc, hacc, ppc, current>>

\* Connected without an entry: close, and ask in the next round.
CloseUnknown ==
    /\ Connected(Buyer) /\ ~Known
    /\ ClosePeer(Buyer)
    /\ UNCHANGED <<tables, topic, open, accounts, hpc, hacc, ppc, faults, current>>

\* Connected with streams: the entry says so.  Without streams nothing is done.
SeeStreams ==
    /\ HasStreams(Buyer) /\ Known /\ Entry.valid
    /\ sellerBuffers' =
           SetLastOtherSideMultiAddress(SetStates(sellerBuffers, "SendOK", "Connected"),
                                        Seller, "transport")
    /\ UNCHANGED <<buyerBuffers, topic, net, open, accounts, hpc, hacc, ppc, faults, current>>

Ask == FirstRequest \/ Repeat

processSeller == Ask \/ PrepareFails \/ CloseUnknown \/ SeeStreams

\* handlePunchMeRequest: the acknowledgment goes to the topic the request
\* names, then a goroutine is started that sleeps until consensus time +
\* delay.  A failed send ends the handler.
handlePunchMeRequest ==
    /\ topic[Buyer] # <<>> /\ Head(topic[Buyer]).type = "punchMeRequest"
    /\ LET to   == Head(topic[Buyer]).stdInTopic
           rest == [topic EXCEPT ![Buyer] = Tail(@)]
       IN \/ /\ ppc = "idle" /\ ppc' = "sleeping"
             /\ \/ topic' = [rest EXCEPT ![to] = Append(@, [type |-> "punchMeAcknowledgment"])]
                   /\ Fine
                \/ topic' = rest /\ Fault
             /\ sellerBuffers' =
                    UpdateBufferLibP2PState(sellerBuffers, Seller, "HolePunchingInProgress")
          \/ topic' = rest /\ Fault /\ UNCHANGED <<ppc, sellerBuffers>>
    /\ UNCHANGED <<buyerBuffers, net, open, accounts, hpc, hacc, current>>

\* A writeError asks for processSeller, which the loop runs as well; a
\* dialError is read and dropped; an acknowledgment is no message a buyer
\* knows, and goes to the application.
OtherMessage ==
    /\ \E type \in {"punchMeAcknowledgment", "dialError", "writeError"} : Take(Buyer, type)
    /\ UNCHANGED <<tables, net, open, accounts, hpc, hacc, ppc, faults, current>>

\* performBuyerHolePunching.
BuyerPunches ==
    /\ \/ ppc = "sleeping" /\ ppc' = "dial" /\ UNCHANGED <<sellerBuffers, net>> /\ Fine
       \/ /\ ppc = "dial" /\ ppc' = "idle"
          /\ DialConnects(Buyer) /\ Fine
          /\ sellerBuffers' = SetLastOtherSideMultiAddress(
                 UpdateBufferLibP2PState(sellerBuffers, Seller, "HolePunchingCompleted"),
                 Seller, "transport")
       \/ /\ ppc = "dial" /\ ppc' = "idle"
          /\ DialCannot(Buyer)
          /\ sellerBuffers' =
                 UpdateBufferLibP2PState(sellerBuffers, Seller, "CanNotConnectUnknownReason")
    /\ UNCHANGED <<buyerBuffers, topic, open, accounts, hpc, hacc, current>>

-----------------------------------------------------------------------------
(* The seller.                                                             *)

SaysConnected ==
    HasBuffer(buyerBuffers, Buyer) /\ buyerBuffers[Buyer].lib = "Connected"

\* Mutant: the entry is trusted, and the host is not asked.
AfterLookup_TrustsTable == IF SaysConnected THEN "record" ELSE "dial"

\* InitialConnect: an entry that says Connected and a host that agrees decide
\* by the stream; all else is dialled.
AfterLookup ==
    IF ~(SaysConnected /\ Connected(Seller)) THEN "dial"
    ELSE IF HasStreams(Seller) THEN "record" ELSE "punch"

TakeRequest ==
    /\ hpc = "idle" /\ Take(Seller, "serviceRequest")
    /\ hacc' = Head(topic[Seller]).account
    /\ hpc' = AfterLookup
    /\ current' = (current \/ (Known /\ hacc' = Entry.msg))
    /\ UNCHANGED <<tables, net, open, accounts, ppc, faults>>

\* The account cannot be looked up, or the address not be decrypted, this
\* time: the request is dropped, and what the buyer may be told does not
\* change anything there.
IgnoreRequest ==
    /\ hpc = "idle" /\ Take(Seller, "serviceRequest")
    /\ Fault
    /\ UNCHANGED <<tables, net, open, accounts, hpc, hacc, ppc, current>>

SellerDials ==
    /\ hpc = "dial"
    /\ \/ DialConnects(Seller) /\ Fine /\ hpc' = "stream"
       \/ DialCannot(Seller) /\ hpc' = "punch"
    /\ UNCHANGED <<tables, topic, open, accounts, hacc, ppc, current>>

\* A stream over a live connection reaches the buyer; one over a dead
\* connection exists on the seller's side only.
StreamOpens ==
    /\ IF link # "none"
         THEN link' = "streams" /\ UNCHANGED stale
         ELSE stale' = [stale EXCEPT ![Seller] = "streams"] /\ UNCHANGED link

\* NewStream; if it fails, once more after ClosePeer, when it has to dial by
\* itself.  Without a connection there is no stream.
OpenStream ==
    /\ \/ hpc = "stream" /\ Connected(Seller) /\ StreamOpens /\ Fine /\ hpc' = "added"
       \/ /\ hpc = "stream" /\ ClosePeer(Seller) /\ hpc' = "retry"
          /\ IF Connected(Seller) THEN Fault ELSE Fine
       \/ /\ hpc = "retry" /\ hpc' = "added" /\ Fine
          /\ link # "none" \/ Buyer \in open
          /\ link' = "streams" /\ UNCHANGED stale
       \/ /\ hpc = "retry" /\ hpc' = "punch"
          /\ IF link # "none" \/ Buyer \in open THEN Fault ELSE Fine
          /\ UNCHANGED net
    /\ UNCHANGED <<tables, topic, open, accounts, hacc, ppc, current>>

AddConnected ==
    /\ hpc = "added" /\ hpc' = "record"
    /\ buyerBuffers' = AddBuffer3(buyerBuffers, Buyer, "SendOK", "Connected")
    /\ UNCHANGED <<sellerBuffers, topic, net, open, accounts, hacc, ppc, faults, current>>

\* preparePunchMeRequest: StdInTopic is the topic the message is sent to.
PunchMeRequest == [type |-> "punchMeRequest", stdInTopic |-> Buyer]

\* The punchMeRequest, and the mark of it in an entry that may not exist; or
\* the error message in its place, which may fail as well.
SendPunchMeRequest ==
    /\ hpc = "punch" /\ hpc' = "record"
    /\ \/ /\ Post(Buyer, PunchMeRequest)
          /\ buyerBuffers' =
                 UpdateBufferLibP2PState(buyerBuffers, Buyer, "HolePunchingScheduled")
       \/ /\ Fault /\ UNCHANGED buyerBuffers
          /\ \/ UNCHANGED topic
             \/ /\ Len(topic[Buyer]) < MaxQueue
                /\ topic' = [topic EXCEPT ![Buyer] = Append(@, [type |-> "dialError"])]
    /\ UNCHANGED <<sellerBuffers, net, open, accounts, hacc, ppc, current>>

\* Mutant: the list of addresses is stored instead of the one in use.
Recorded_Raw ==
    SetNeuronSellerRequest(
        SetLastOtherSideMultiAddress(buyerBuffers, Buyer, "list"), Buyer, hacc)

Recorded ==
    SetNeuronSellerRequest(
        SetLastOtherSideMultiAddress(buyerBuffers, Buyer, "transport"), Buyer, hacc)

\* Mutant: a request from a buyer who has one stored already is not stored.
RecordRequest_KeepsOld ==
    /\ hpc = "record" /\ hpc' = "idle" /\ hacc' = NoMessage
    /\ buyerBuffers' = IF HasBuffer(buyerBuffers, Buyer) /\ buyerBuffers[Buyer].msg # NoMessage
                         THEN buyerBuffers ELSE Recorded
    /\ UNCHANGED <<sellerBuffers, topic, net, open, accounts, ppc, faults, current>>

RecordRequest ==
    /\ hpc = "record" /\ hpc' = "idle" /\ hacc' = NoMessage
    /\ buyerBuffers' = Recorded
    /\ UNCHANGED <<sellerBuffers, topic, net, open, accounts, ppc, faults, current>>

serviceRequest ==
    TakeRequest \/ SellerDials \/ OpenStream \/ AddConnected
        \/ SendPunchMeRequest \/ RecordRequest

\* WriteAndFlushBuffer fails: the entry goes, the stream stays, and the
\* application may tell the buyer.
WriteFails ==
    /\ HasBuffer(buyerBuffers, Buyer) /\ HasStreams(Seller)
    /\ Fault
    /\ buyerBuffers' = RemoveBuffer(buyerBuffers, Buyer)
    /\ \/ UNCHANGED topic
       \/ /\ Len(topic[Buyer]) < MaxQueue
          /\ topic' = [topic EXCEPT ![Buyer] = Append(@, [type |-> "writeError"])]
    /\ UNCHANGED <<sellerBuffers, net, open, accounts, hpc, hacc, ppc, current>>

-----------------------------------------------------------------------------
(* What happens to both.                                                   *)

ConnectionDrops ==
    /\ link # "none" /\ Fault
    /\ link' = "none"
    /\ stale' = [n \in Nodes |-> Listed(n)]
    /\ UNCHANGED <<tables, topic, open, accounts, hpc, hacc, ppc, current>>

StreamsClose ==
    /\ link = "streams" /\ Fault
    /\ link' = "open" /\ UNCHANGED stale
    /\ UNCHANGED <<tables, topic, open, accounts, hpc, hacc, ppc, current>>

\* The idle timeout of a dead connection.
NoticeDead(n) ==
    /\ stale[n] # "none"
    /\ stale' = [stale EXCEPT ![n] = "none"]
    /\ UNCHANGED <<tables, topic, link, open, accounts, hpc, hacc, ppc, faults, current>>

\* A process ends and starts again with an empty table, and listens to its
\* topic from that moment on.
Restart(n) ==
    /\ Fault
    /\ ClosePeer(n)
    /\ topic' = [topic EXCEPT ![n] = <<>>]
    /\ IF n = Buyer
         THEN /\ sellerBuffers' = NewNodeBuffers /\ ppc' = "idle" /\ current' = FALSE
              /\ UNCHANGED <<buyerBuffers, hpc, hacc>>
         ELSE /\ buyerBuffers' = NewNodeBuffers /\ hpc' = "idle" /\ hacc' = NoMessage
              /\ UNCHANGED <<sellerBuffers, ppc, current>>
    /\ UNCHANGED <<open, accounts>>

Tick ==
    /\ sellerBuffers' = AgeBuffers(sellerBuffers)
    /\ UNCHANGED <<buyerBuffers, topic, net, open, accounts, hpc, hacc, ppc, faults, current>>

Next ==
    \/ processSeller \/ handlePunchMeRequest \/ OtherMessage \/ BuyerPunches
    \/ serviceRequest \/ IgnoreRequest \/ WriteFails
    \/ ConnectionDrops \/ StreamsClose
    \/ \E n \in Nodes : NoticeDead(n) \/ Restart(n)
    \/ Tick

\* Every goroutine that can run does: the processing loop, the two callbacks,
\* the punch; timers fire.  Nothing makes a fault happen.
Fairness ==
    /\ WF_vars(Ask) /\ WF_vars(CloseUnknown) /\ WF_vars(SeeStreams)
    /\ WF_vars(handlePunchMeRequest) /\ WF_vars(OtherMessage) /\ WF_vars(BuyerPunches)
    /\ WF_vars(serviceRequest)
    /\ \A n \in Nodes : WF_vars(NoticeDead(n))
    /\ WF_vars(Tick)

Spec == Init /\ [][Next]_vars

FairSpec == Spec /\ Fairness

-----------------------------------------------------------------------------
(* Properties.                                                             *)

\* A buyer who has not banned the seller is connected to him in the end, if
\* either of them can be dialled: requests are repeated until the seller's
\* dial or the buyer's punch gets through, whatever was lost, dropped or
\* restarted before, and no stale entry or dead connection stops that.
ConnectedInTheEnd == <>[](link # "none" \/ Blacklisted)

\* When service has settled, the seller bills the account of the buyer's
\* present request, not one from before a restart of either of them: the last
\* request it accepted is the one in its entry.
AccountsAgree ==
    <>[](link = "streams" /\ current /\ Known /\ HasBuffer(buyerBuffers, Buyer))
        => <>[](Known /\ HasBuffer(buyerBuffers, Buyer)
                  /\ buyerBuffers[Buyer].msg = Entry.msg)

\* The service requests that wait on the seller's topic, and the account it
\* bills; NoMessage when it bills none.
Waiting == {i \in 1..Len(topic[Seller]) : topic[Seller][i].type = "serviceRequest"}

Asked(i) == topic[Seller][i].account

Billed == IF HasBuffer(buyerBuffers, Buyer) THEN buyerBuffers[Buyer].msg ELSE NoMessage

\* The seller never goes back to an older account: the one it bills, the one
\* of the request it handles and those that wait on its topic are in the order
\* in which the buyer opened them, across lost messages, repetitions and
\* restarts of either, and the buyer never asks for one he did not open.
RequestsInOrder ==
    /\ Billed <= accounts
    /\ hpc # "idle" => hacc \in 1..accounts /\ Billed <= hacc
    /\ \A i \in Waiting :
          /\ Asked(i) \in 1..accounts
          /\ Billed <= Asked(i) /\ hacc <= Asked(i)
          /\ \A j \in Waiting : i <= j => Asked(i) <= Asked(j)

\* Once the seller has accepted the buyer's present account it bills no other
\* one whenever its handler is idle: no request from before a restart of the
\* buyer that still waits, and no late record of an older one, replaces it.
BillsPresentAccount ==
    current /\ Known /\ Entry.valid /\ hpc = "idle" /\ HasBuffer(buyerBuffers, Buyer)
        => buyerBuffers[Buyer].msg = Entry.msg

\* What service costs: the first account, and at most one more for each thing
\* that went wrong.  Repeated requests, hole punching, dead connections, the
\* closing of an unknown peer and a seller who starts again open none, and a
\* buyer without an entry has spent no more than his faults.
FaultPerAccount ==
    accounts + faults <= MaxFaults + (IF Known THEN 1 ELSE 0)

\* A buyer who is connected and has no streams hangs around for the loop to
\* issue a fresh request, as processSeller's comment says: one is issued.
FreshRequestIsIssued ==
    <>[](link = "open" /\ Known /\ ~Blacklisted) => []<><<Ask>>_vars
=============================================================================
