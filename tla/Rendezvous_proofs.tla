------------------------- MODULE Rendezvous_proofs -------------------------
(***************************************************************************)
(* Proofs about Rendezvous, for any number of faults and any length of the *)
(* topics: the types, and that the requests of one buyer reach the books   *)
(* of his seller in the order in which their accounts were opened.         *)
(***************************************************************************)
EXTENDS Rendezvous, NodeBuffers_proofs

\* Both ends are peers, and different.
LEMMA TheNodes ==
    Buyer \in Nodes /\ Seller \in Nodes /\ Buyer # Seller /\ Nodes = {Buyer, Seller}
    /\ Buyer \in Peers /\ Seller \in Peers /\ \A n \in Nodes : Other(n) \in Nodes /\ Other(n) # n
BY RendezvousAssumption DEF Nodes, Other

\* The other bounds are natural numbers.
LEMMA FaultBound == MaxFaults \in Nat /\ MaxQueue \in Nat
BY RendezvousAssumption

-----------------------------------------------------------------------------
(* The strengthening.                                                      *)

\* While the seller is not banned, the request in the buyer's entry names the
\* account he opened last.
PresentIsNewest == Known /\ Entry.valid => Entry.msg = accounts /\ accounts > 0

\* The requests in a queue name accounts between lo and hi; they do so in
\* order.
InRange(q, lo, hi) ==
    \A i \in 1..Len(q) :
        q[i].type = "serviceRequest" => lo <= q[i].account /\ q[i].account <= hi

Sorted(q) ==
    \A i, j \in 1..Len(q) :
        /\ i <= j
        /\ q[i].type = "serviceRequest" /\ q[j].type = "serviceRequest"
        => q[i].account <= q[j].account

\* What waits on the seller's topic is in order, and no older than what the
\* seller handles or bills.
QueueInOrder ==
    /\ Sorted(topic[Seller])
    /\ InRange(topic[Seller], 1, accounts)
    /\ InRange(topic[Seller], Billed, accounts)
    /\ InRange(topic[Seller], hacc, accounts)

\* What it handles is no older than what it bills.
HandInOrder ==
    /\ Billed <= accounts /\ hacc <= accounts
    /\ hpc = "idle" => hacc = NoMessage
    /\ hpc # "idle" => hacc > 0 /\ Billed <= hacc

\* Once the seller has accepted the present account, it and its topic hold
\* nothing older.
AcceptedIsNewest ==
    current /\ Known /\ Entry.valid =>
        /\ hpc # "idle" => hacc = accounts
        /\ InRange(topic[Seller], accounts, accounts)

OrderInv ==
    QueueInOrder /\ HandInOrder /\ PresentIsNewest /\ AcceptedIsNewest /\ BillsPresentAccount

-----------------------------------------------------------------------------
(* Types.                                                                  *)

TablesOK == sellerBuffers \in Tables /\ buyerBuffers \in Tables

TopicsOK == topic \in [Nodes -> Seq(Messages)]

NetOK == link \in Connections /\ stale \in [Nodes -> Connections]

HandlerOK ==
    /\ hpc \in {"idle", "dial", "stream", "retry", "added", "punch", "record"}
    /\ hacc \in Nat

PuncherOK == ppc \in {"idle", "sleeping", "dial"}

\* The type invariant in parts.
LEMMA TypeParts ==
    TypeOK <=> /\ TablesOK /\ TopicsOK /\ NetOK /\ HandlerOK /\ PuncherOK
               /\ open \in SUBSET Nodes /\ accounts \in Nat
               /\ faults \in 0..MaxFaults /\ current \in BOOLEAN
BY DEF TypeOK, TablesOK, TopicsOK, NetOK, HandlerOK, PuncherOK

\* The same of the next state.
LEMMA TypePartsNext ==
    TypeOK' <=> /\ TablesOK' /\ TopicsOK' /\ NetOK' /\ HandlerOK' /\ PuncherOK'
                /\ open' \in SUBSET Nodes /\ accounts' \in Nat
                /\ faults' \in 0..MaxFaults /\ current' \in BOOLEAN
BY DEF TypeOK, TablesOK, TopicsOK, NetOK, HandlerOK, PuncherOK

\* A topic grows by a message, loses its first, or starts over.
LEMMA TopicTypes ==
    ASSUME TopicsOK, NEW n \in Nodes
    PROVE  /\ \A m \in Messages : [topic EXCEPT ![n] = Append(@, m)] \in [Nodes -> Seq(Messages)]
           /\ topic[n] # <<>> => /\ [topic EXCEPT ![n] = Tail(@)] \in [Nodes -> Seq(Messages)]
                                 /\ Head(topic[n]) \in Messages
           /\ [topic EXCEPT ![n] = <<>>] \in [Nodes -> Seq(Messages)]
<1>0. topic \in [Nodes -> Seq(Messages)] /\ topic[n] \in Seq(Messages)
  BY DEF TopicsOK
<1>1. ASSUME NEW m \in Messages
      PROVE  [topic EXCEPT ![n] = Append(@, m)] \in [Nodes -> Seq(Messages)]
  <2>1. Append(topic[n], m) \in Seq(Messages)
    BY <1>0
  <2> QED
    BY <1>0, <2>1
<1>2. ASSUME topic[n] # <<>>
      PROVE  [topic EXCEPT ![n] = Tail(@)] \in [Nodes -> Seq(Messages)]
             /\ Head(topic[n]) \in Messages
  <2>1. Tail(topic[n]) \in Seq(Messages) /\ Head(topic[n]) \in Messages
    BY <1>0, <1>2
  <2> QED
    BY <1>0, <2>1
<1>3. [topic EXCEPT ![n] = <<>>] \in [Nodes -> Seq(Messages)]
  BY <1>0
<1> QED
  BY <1>1, <1>2, <1>3

\* The messages the two send.
LEMMA MessageTypes ==
    /\ \A a \in Nat \ {0} : Request(a) \in Messages
    /\ PunchMeRequest \in Messages
    /\ [type |-> "punchMeAcknowledgment"] \in Messages
    /\ [type |-> "dialError"] \in Messages
    /\ [type |-> "writeError"] \in Messages
BY TheNodes DEF Messages, Request, PunchMeRequest, NoMessage

\* A topic on which a message may have arrived.
LEMMA ArrivalTypes ==
    ASSUME TopicsOK, NEW n \in Nodes, NEW m \in Messages,
           UNCHANGED topic \/ topic' = [topic EXCEPT ![n] = Append(@, m)]
    PROVE  TopicsOK'
BY TopicTypes DEF TopicsOK

\* Taking a fault, or none, leaves a number of faults.
LEMMA FaultTypes ==
    ASSUME TypeOK, Fault \/ Fine
    PROVE  faults' \in 0..MaxFaults
BY FaultBound DEF TypeOK, Fault, Fine

\* A submission, whatever becomes of it.
LEMMA PostTypes ==
    ASSUME TypeOK, NEW n \in Nodes, NEW m \in Messages, Post(n, m) \/ PostFails(n, m)
    PROVE  TopicsOK' /\ faults' \in 0..MaxFaults
<1>1. TopicsOK'
  BY TypeParts, ArrivalTypes DEF Post, PostFails
<1>2. faults' \in 0..MaxFaults
  BY FaultTypes DEF Post, PostFails
<1> QED
  BY <1>1, <1>2

\* Dials, new streams and closed connections.
LEMMA NetTypes ==
    ASSUME TypeOK, NEW n \in Nodes,
           \/ DialConnects(n) \/ DialCannot(n) \/ ClosePeer(n) \/ StreamOpens \/ UNCHANGED net
    PROVE  NetOK'
<1>0. NetOK /\ \A k \in Nodes : Listed(k) \in Connections
  BY TypeParts DEF Listed, Connections
<1>1. CASE ClosePeer(n)
  BY <1>0, <1>1, TheNodes DEF ClosePeer, NetOK, Connections
<1>2. CASE StreamOpens
  BY <1>0, <1>2, TheNodes DEF StreamOpens, NetOK, Connections
<1>3. CASE DialConnects(n) \/ DialCannot(n) \/ UNCHANGED net
  BY <1>0, <1>3 DEF DialConnects, DialCannot, net, NetOK, Connections
<1> QED
  BY <1>1, <1>2, <1>3

\* Every step of processSeller.
LEMMA ProcessSellerTypes ==
    ASSUME TypeOK, PresentIsNewest, processSeller
    PROVE  TypeOK'
<1> USE TheNodes
<1>0. /\ TablesOK /\ TopicsOK /\ NetOK /\ HandlerOK /\ PuncherOK
      /\ open \in SUBSET Nodes /\ accounts \in Nat
      /\ faults \in 0..MaxFaults /\ current \in BOOLEAN
      /\ sellerBuffers \in Tables /\ buyerBuffers \in Tables
  BY TypeParts DEF TablesOK
<1>s. /\ {"SendOK", "SendFail", "NotInitiated"} \subseteq RendezvousStates
      /\ {"Connecting", "CanNotConnectUnknownReason", "Connected", "ConnectionLost"}
           \subseteq ConnectionStates
      /\ "transport" \in Addresses
  BY DEF RendezvousStates, ConnectionStates, Addresses
<1>b. ASSUME NEW b \in Tables, NEW r \in RendezvousStates, NEW l \in ConnectionStates
      PROVE  SetStates(b, r, l) \in Tables
  BY UpdateRendezvousType, UpdateLibType DEF SetStates
<1>1. CASE FirstRequest
  <2>1. accounts' = accounts + 1 /\ accounts' \in Nat \ {0} /\ current' = FALSE
    BY <1>0, <1>1 DEF FirstRequest
  <2>2. Request(accounts') \in Messages
    BY <2>1, MessageTypes
  <2>3. TopicsOK' /\ faults' \in 0..MaxFaults
    BY <1>1, <2>2, PostTypes DEF FirstRequest
  <2>4. sellerBuffers' \in Tables
    <3>1. \A r \in RendezvousStates, l \in ConnectionStates :
             AddBuffer2(sellerBuffers, Seller, accounts', TRUE, r, l) \in Tables
      BY <1>0, <2>1, AddBuffer2Type
    <3> QED
      BY <1>1, <1>s, <3>1, IncrementType DEF FirstRequest
  <2>5. UNCHANGED <<buyerBuffers, link, stale, open, hpc, hacc, ppc>>
    BY <1>1 DEF FirstRequest, net
  <2> QED
    BY <1>0, <2>1, <2>3, <2>4, <2>5, TypePartsNext
    DEF TablesOK, NetOK, HandlerOK, PuncherOK
<1>2. CASE PrepareFails
  <2>1. accounts' \in Nat /\ faults' \in 0..MaxFaults
    BY <1>0, <1>2, FaultTypes DEF PrepareFails
  <2>2. sellerBuffers' \in Tables
    BY <1>0, <1>2, <1>s, AddBuffer2Type DEF PrepareFails, NoMessage
  <2>3. UNCHANGED <<buyerBuffers, topic, link, stale, open, hpc, hacc, ppc, current>>
    BY <1>2 DEF PrepareFails, net
  <2> QED
    BY <1>0, <2>1, <2>2, <2>3, TypePartsNext
    DEF TablesOK, TopicsOK, NetOK, HandlerOK, PuncherOK
<1>3. CASE Repeat
  <2>1. Request(Entry.msg) \in Messages
    BY <1>0, <1>3, MessageTypes DEF Repeat, PresentIsNewest
  <2>2. TopicsOK' /\ faults' \in 0..MaxFaults
    BY <1>3, <2>1, PostTypes DEF Repeat
  <2>3. sellerBuffers' \in Tables
    BY <1>0, <1>3, <1>s, <1>b, IncrementType DEF Repeat
  <2>4. UNCHANGED <<buyerBuffers, link, stale, open, accounts, hpc, hacc, ppc, current>>
    BY <1>3 DEF Repeat, net
  <2> QED
    BY <1>0, <2>2, <2>3, <2>4, TypePartsNext DEF TablesOK, NetOK, HandlerOK, PuncherOK
<1>4. CASE CloseUnknown
  <2>1. NetOK'
    BY <1>4, NetTypes DEF CloseUnknown
  <2>2. UNCHANGED <<sellerBuffers, buyerBuffers, topic, open, accounts, hpc, hacc, ppc, faults, current>>
    BY <1>4 DEF CloseUnknown, tables
  <2> QED
    BY <1>0, <2>1, <2>2, TypePartsNext DEF TablesOK, TopicsOK, HandlerOK, PuncherOK
<1>5. CASE SeeStreams
  <2>1. sellerBuffers' \in Tables
    BY <1>0, <1>5, <1>s, <1>b, SetAddressType DEF SeeStreams
  <2>2. UNCHANGED <<buyerBuffers, topic, link, stale, open, accounts, hpc, hacc, ppc, faults, current>>
    BY <1>5 DEF SeeStreams, net
  <2> QED
    BY <1>0, <2>1, <2>2, TypePartsNext DEF TablesOK, TopicsOK, NetOK, HandlerOK, PuncherOK
<1> QED
  BY <1>1, <1>2, <1>3, <1>4, <1>5 DEF processSeller, Ask

\* Every other step of the buyer.
LEMMA BuyerTypes ==
    ASSUME TypeOK, handlePunchMeRequest \/ OtherMessage \/ BuyerPunches
    PROVE  TypeOK'
<1> USE TheNodes
<1>0. /\ TablesOK /\ TopicsOK /\ NetOK /\ HandlerOK /\ PuncherOK
      /\ open \in SUBSET Nodes /\ accounts \in Nat
      /\ faults \in 0..MaxFaults /\ current \in BOOLEAN
      /\ sellerBuffers \in Tables /\ buyerBuffers \in Tables
  BY TypeParts DEF TablesOK
<1>s. /\ {"HolePunchingInProgress", "HolePunchingCompleted", "CanNotConnectUnknownReason"}
           \subseteq ConnectionStates
      /\ "transport" \in Addresses
  BY DEF ConnectionStates, Addresses
<1>1. CASE handlePunchMeRequest
  <2> DEFINE m == Head(topic[Buyer])
             rest == [topic EXCEPT ![Buyer] = Tail(@)]
  <2>1. m \in Messages /\ m.type = "punchMeRequest" /\ rest \in [Nodes -> Seq(Messages)]
    BY <1>0, <1>1, TopicTypes DEF handlePunchMeRequest
  <2>2. m.stdInTopic \in Nodes
    BY <2>1 DEF Messages
  <2>3. topic' = rest
        \/ topic' = [rest EXCEPT ![m.stdInTopic] = Append(@, [type |-> "punchMeAcknowledgment"])]
    BY <1>1 DEF handlePunchMeRequest
  <2>4. TopicsOK'
    <3>1. Append(rest[m.stdInTopic], [type |-> "punchMeAcknowledgment"]) \in Seq(Messages)
      BY <2>1, <2>2, MessageTypes
    <3> HIDE DEF m, rest
    <3> QED
      BY <2>1, <2>2, <2>3, <3>1 DEF TopicsOK
  <2>5. PuncherOK' /\ faults' \in 0..MaxFaults
    BY <1>0, <1>1, FaultTypes DEF handlePunchMeRequest, PuncherOK
  <2>6. sellerBuffers' \in Tables
    BY <1>0, <1>1, <1>s, UpdateLibType DEF handlePunchMeRequest
  <2>7. UNCHANGED <<buyerBuffers, link, stale, open, accounts, hpc, hacc, current>>
    BY <1>1 DEF handlePunchMeRequest, net
  <2> QED
    BY <1>0, <2>4, <2>5, <2>6, <2>7, TypePartsNext DEF TablesOK, NetOK, HandlerOK
<1>2. CASE OtherMessage
  <2>1. TopicsOK'
    BY <1>0, <1>2, TopicTypes DEF OtherMessage, Take, TopicsOK
  <2>2. UNCHANGED <<sellerBuffers, buyerBuffers, link, stale, open, accounts, hpc, hacc, ppc, faults, current>>
    BY <1>2 DEF OtherMessage, tables, net
  <2> QED
    BY <1>0, <2>1, <2>2, TypePartsNext DEF TablesOK, NetOK, HandlerOK, PuncherOK
<1>3. CASE BuyerPunches
  <2>1. NetOK' /\ faults' \in 0..MaxFaults /\ PuncherOK'
    <3>1. NetOK'
      BY <1>0, <1>3, NetTypes DEF BuyerPunches, net, NetOK
    <3>2. faults' \in 0..MaxFaults /\ PuncherOK'
      BY <1>0, <1>3, FaultTypes DEF BuyerPunches, DialCannot, PuncherOK
    <3> QED
      BY <3>1, <3>2
  <2>2. sellerBuffers' \in Tables
    BY <1>0, <1>3, <1>s, UpdateLibType, SetAddressType DEF BuyerPunches
  <2>3. UNCHANGED <<buyerBuffers, topic, open, accounts, hpc, hacc, current>>
    BY <1>3 DEF BuyerPunches
  <2> QED
    BY <1>0, <2>1, <2>2, <2>3, TypePartsNext DEF TablesOK, TopicsOK, HandlerOK
<1> QED
  BY <1>1, <1>2, <1>3

\* Every step of the seller.
LEMMA SellerTypes ==
    ASSUME TypeOK, serviceRequest \/ IgnoreRequest \/ WriteFails
    PROVE  TypeOK'
<1> USE TheNodes
<1>0. /\ TablesOK /\ TopicsOK /\ NetOK /\ HandlerOK /\ PuncherOK
      /\ open \in SUBSET Nodes /\ accounts \in Nat
      /\ faults \in 0..MaxFaults /\ current \in BOOLEAN
      /\ sellerBuffers \in Tables /\ buyerBuffers \in Tables /\ hacc \in Nat
  BY TypeParts DEF TablesOK, HandlerOK
<1>s. /\ "SendOK" \in RendezvousStates
      /\ {"Connected", "HolePunchingScheduled"} \subseteq ConnectionStates
      /\ "transport" \in Addresses
  BY DEF RendezvousStates, ConnectionStates, Addresses
<1>1. CASE TakeRequest
  <2>1. /\ Head(topic[Seller]) \in Messages /\ Head(topic[Seller]).type = "serviceRequest"
        /\ topic' \in [Nodes -> Seq(Messages)]
    BY <1>0, <1>1, TopicTypes DEF TakeRequest, Take
  <2>2. hacc' \in Nat
    BY <1>1, <2>1 DEF TakeRequest, Messages
  <2>3. HandlerOK'
    BY <1>1, <2>2 DEF TakeRequest, AfterLookup, HandlerOK
  <2>4. current' \in BOOLEAN
    BY <1>1, Zenon DEF TakeRequest
  <2>5. UNCHANGED <<sellerBuffers, buyerBuffers, link, stale, open, accounts, ppc, faults>>
    BY <1>1 DEF TakeRequest, tables, net
  <2> QED
    BY <1>0, <2>1, <2>3, <2>4, <2>5, TypePartsNext DEF TablesOK, TopicsOK, NetOK, PuncherOK
<1>2. CASE IgnoreRequest
  <2>1. TopicsOK' /\ faults' \in 0..MaxFaults
    BY <1>0, <1>2, TopicTypes, FaultTypes DEF IgnoreRequest, Take, TopicsOK
  <2>2. UNCHANGED <<sellerBuffers, buyerBuffers, link, stale, open, accounts, hpc, hacc, ppc, current>>
    BY <1>2 DEF IgnoreRequest, tables, net
  <2> QED
    BY <1>0, <2>1, <2>2, TypePartsNext DEF TablesOK, NetOK, HandlerOK, PuncherOK
<1>3. CASE SellerDials
  <2>1. NetOK'
    BY <1>3, NetTypes DEF SellerDials
  <2>2. faults' \in 0..MaxFaults /\ HandlerOK'
    BY <1>0, <1>3, FaultTypes DEF SellerDials, DialCannot, HandlerOK
  <2>3. UNCHANGED <<sellerBuffers, buyerBuffers, topic, open, accounts, ppc, current>>
    BY <1>3 DEF SellerDials, tables
  <2> QED
    BY <1>0, <2>1, <2>2, <2>3, TypePartsNext DEF TablesOK, TopicsOK, PuncherOK
<1>4. CASE OpenStream
  <2>1. NetOK'
    <3>1. CASE link' = "streams" /\ UNCHANGED stale
      BY <1>0, <3>1 DEF NetOK, Connections
    <3> QED
      BY <1>4, <3>1, NetTypes DEF OpenStream
  <2>2. faults' \in 0..MaxFaults /\ HandlerOK'
    BY <1>0, <1>4, FaultTypes DEF OpenStream, HandlerOK
  <2>3. UNCHANGED <<sellerBuffers, buyerBuffers, topic, open, accounts, ppc, current>>
    BY <1>4 DEF OpenStream, tables
  <2> QED
    BY <1>0, <2>1, <2>2, <2>3, TypePartsNext DEF TablesOK, TopicsOK, PuncherOK
<1>5. CASE AddConnected
  <2>1. buyerBuffers' \in Tables /\ HandlerOK'
    BY <1>0, <1>5, <1>s, AddBuffer3Type DEF AddConnected, HandlerOK
  <2>2. UNCHANGED <<sellerBuffers, topic, link, stale, open, accounts, ppc, faults, current>>
    BY <1>5 DEF AddConnected, net
  <2> QED
    BY <1>0, <2>1, <2>2, TypePartsNext DEF TablesOK, TopicsOK, NetOK, PuncherOK
<1>6. CASE SendPunchMeRequest
  <2>1. faults' \in 0..MaxFaults
    BY <1>6, FaultTypes, PostTypes, MessageTypes DEF SendPunchMeRequest
  <2>2. TopicsOK'
    <3>1. CASE Post(Buyer, PunchMeRequest)
      BY <3>1, PostTypes, MessageTypes
    <3>2. CASE UNCHANGED topic \/ topic' = [topic EXCEPT ![Buyer] = Append(@, [type |-> "dialError"])]
      BY <1>0, <3>2, ArrivalTypes, MessageTypes
    <3> QED
      BY <1>6, <3>1, <3>2 DEF SendPunchMeRequest
  <2>3. buyerBuffers' \in Tables /\ HandlerOK'
    BY <1>0, <1>6, <1>s, UpdateLibType DEF SendPunchMeRequest, HandlerOK
  <2>4. UNCHANGED <<sellerBuffers, link, stale, open, accounts, ppc, current>>
    BY <1>6 DEF SendPunchMeRequest, net
  <2> QED
    BY <1>0, <2>1, <2>2, <2>3, <2>4, TypePartsNext DEF TablesOK, NetOK, PuncherOK
<1>7. CASE RecordRequest
  <2>1. buyerBuffers' \in Tables
    BY <1>0, <1>7, <1>s, SetAddressType, SetRequestType DEF RecordRequest, Recorded
  <2>2. HandlerOK'
    BY <1>7 DEF RecordRequest, HandlerOK, NoMessage
  <2>3. UNCHANGED <<sellerBuffers, topic, link, stale, open, accounts, ppc, faults, current>>
    BY <1>7 DEF RecordRequest, net
  <2> QED
    BY <1>0, <2>1, <2>2, <2>3, TypePartsNext DEF TablesOK, TopicsOK, NetOK, PuncherOK
<1>8. CASE WriteFails
  <2>1. TopicsOK' /\ faults' \in 0..MaxFaults
    <3>1. UNCHANGED topic \/ topic' = [topic EXCEPT ![Buyer] = Append(@, [type |-> "writeError"])]
      BY <1>8 DEF WriteFails
    <3>2. TopicsOK'
      BY <1>0, <3>1, ArrivalTypes, MessageTypes
    <3> QED
      BY <1>8, <3>2, FaultTypes DEF WriteFails
  <2>2. buyerBuffers' \in Tables
    BY <1>0, <1>8, RemoveBufferType DEF WriteFails
  <2>3. UNCHANGED <<sellerBuffers, link, stale, open, accounts, hpc, hacc, ppc, current>>
    BY <1>8 DEF WriteFails, net
  <2> QED
    BY <1>0, <2>1, <2>2, <2>3, TypePartsNext DEF TablesOK, NetOK, HandlerOK, PuncherOK
<1> QED
  BY <1>1, <1>2, <1>3, <1>4, <1>5, <1>6, <1>7, <1>8 DEF serviceRequest

\* What happens to both.
LEMMA SurroundingsTypes ==
    ASSUME TypeOK,
           \/ ConnectionDrops \/ StreamsClose \/ Tick
           \/ \E n \in Nodes : NoticeDead(n) \/ Restart(n)
    PROVE  TypeOK'
<1> USE TheNodes
<1>0. /\ TablesOK /\ TopicsOK /\ NetOK /\ HandlerOK /\ PuncherOK
      /\ open \in SUBSET Nodes /\ accounts \in Nat
      /\ faults \in 0..MaxFaults /\ current \in BOOLEAN
      /\ sellerBuffers \in Tables /\ buyerBuffers \in Tables
      /\ \A k \in Nodes : Listed(k) \in Connections
  BY TypeParts DEF TablesOK, Listed, Connections
<1>1. CASE ConnectionDrops \/ StreamsClose
  <2>1. NetOK'
    BY <1>0, <1>1 DEF ConnectionDrops, StreamsClose, NetOK, Connections
  <2>2. faults' \in 0..MaxFaults
    BY <1>1, FaultTypes DEF ConnectionDrops, StreamsClose
  <2>3. UNCHANGED <<sellerBuffers, buyerBuffers, topic, open, accounts, hpc, hacc, ppc, current>>
    BY <1>1 DEF ConnectionDrops, StreamsClose, tables
  <2> QED
    BY <1>0, <2>1, <2>2, <2>3, TypePartsNext DEF TablesOK, TopicsOK, HandlerOK, PuncherOK
<1>2. ASSUME NEW n \in Nodes, NoticeDead(n)
      PROVE  TypeOK'
  <2>1. NetOK'
    BY <1>0, <1>2 DEF NoticeDead, NetOK, Connections
  <2>2. UNCHANGED <<sellerBuffers, buyerBuffers, topic, open, accounts, hpc, hacc, ppc, faults, current>>
    BY <1>2 DEF NoticeDead, tables
  <2> QED
    BY <1>0, <2>1, <2>2, TypePartsNext DEF TablesOK, TopicsOK, HandlerOK, PuncherOK
<1>3. ASSUME NEW n \in Nodes, Restart(n)
      PROVE  TypeOK'
  <2>1. NetOK' /\ faults' \in 0..MaxFaults
    BY <1>3, NetTypes, FaultTypes DEF Restart
  <2>2. TopicsOK'
    BY <1>0, <1>3, TopicTypes DEF Restart, TopicsOK
  <2>3. NewNodeBuffers \in Tables
    BY DEF NewNodeBuffers, Tables
  <2>4. TablesOK' /\ HandlerOK' /\ PuncherOK'
    BY <1>0, <1>3, <2>3 DEF Restart, TablesOK, HandlerOK, PuncherOK, NoMessage
  <2>5. current' \in BOOLEAN
    BY <1>0, <1>3 DEF Restart
  <2>6. UNCHANGED <<open, accounts>>
    BY <1>3 DEF Restart
  <2> QED
    BY <1>0, <2>1, <2>2, <2>4, <2>5, <2>6, TypePartsNext
<1>4. CASE Tick
  <2>1. sellerBuffers' \in Tables
    BY <1>0, <1>4, AgeType DEF Tick
  <2>2. UNCHANGED <<buyerBuffers, topic, link, stale, open, accounts, hpc, hacc, ppc, faults, current>>
    BY <1>4 DEF Tick, net
  <2> QED
    BY <1>0, <2>1, <2>2, TypePartsNext DEF TablesOK, TopicsOK, NetOK, HandlerOK, PuncherOK
<1> QED
  BY <1>1, <1>2, <1>3, <1>4

\* Every step keeps the types, as long as the buyer's entry names an account.
LEMMA StepTypes == TypeOK /\ PresentIsNewest /\ [Next]_vars => TypeOK'
<1> SUFFICES ASSUME TypeOK, PresentIsNewest, [Next]_vars PROVE TypeOK'
  OBVIOUS
<1>1. CASE UNCHANGED vars
  BY <1>1 DEF vars, TypeOK
<1>2. CASE Next
  BY <1>2, ProcessSellerTypes, BuyerTypes, SellerTypes, SurroundingsTypes DEF Next
<1> QED
  BY <1>1, <1>2

-----------------------------------------------------------------------------
(* Queues.                                                                 *)

\* A request's account is a number.
LEMMA AccountType ==
    ASSUME NEW m \in Messages, m.type = "serviceRequest"
    PROVE  m.account \in Nat /\ m.account > 0
BY DEF Messages, NoMessage

\* What Append and Tail do to the elements of a queue.
LEMMA AppendElements ==
    ASSUME NEW q \in Seq(Messages), NEW m \in Messages
    PROVE  /\ Append(q, m) \in Seq(Messages) /\ Len(Append(q, m)) = Len(q) + 1
           /\ Append(q, m)[Len(q) + 1] = m
           /\ \A i \in 1..Len(q) : Append(q, m)[i] = q[i]
OBVIOUS

\* The elements of the rest are those of the queue, one place further.
LEMMA TailElements ==
    ASSUME NEW q \in Seq(Messages), q # <<>>
    PROVE  /\ Tail(q) \in Seq(Messages) /\ Len(Tail(q)) = Len(q) - 1 /\ Len(q) \in Nat
           /\ Head(q) = q[1] /\ 1 \in 1..Len(q)
           /\ \A i \in 1..Len(Tail(q)) : Tail(q)[i] = q[i + 1] /\ i + 1 \in 1..Len(q)
OBVIOUS

\* A message that is no request changes nothing.
LEMMA AppendOther ==
    ASSUME NEW q \in Seq(Messages), NEW m \in Messages, m.type # "serviceRequest",
           NEW lo \in Nat, NEW hi \in Nat
    PROVE  /\ InRange(q, lo, hi) => InRange(Append(q, m), lo, hi)
           /\ Sorted(q) => Sorted(Append(q, m))
BY AppendElements DEF InRange, Sorted

\* A request for the newest account goes to the end of the queue.
LEMMA AppendNewest ==
    ASSUME NEW q \in Seq(Messages), NEW lo \in Nat, NEW hi \in Nat, NEW a \in Nat,
           hi <= a, lo <= a, a > 0, InRange(q, lo, hi)
    PROVE  /\ InRange(Append(q, Request(a)), lo, a)
           /\ Sorted(q) => Sorted(Append(q, Request(a)))
<1> DEFINE m == Request(a)
<1>0. m \in Messages /\ m.type = "serviceRequest" /\ m.account = a
  BY MessageTypes DEF Request
<1>1. \A i \in 1..Len(q) : q[i] \in Messages /\ (q[i].type = "serviceRequest" => q[i].account \in Nat)
  BY AccountType
<1> HIDE DEF m
<1>2. InRange(Append(q, m), lo, a)
  BY <1>0, <1>1, AppendElements DEF InRange
<1>3. Sorted(q) => Sorted(Append(q, m))
  <2> SUFFICES ASSUME Sorted(q), NEW i \in 1..Len(q) + 1, NEW j \in 1..Len(q) + 1, i <= j,
                      Append(q, m)[i].type = "serviceRequest",
                      Append(q, m)[j].type = "serviceRequest"
               PROVE  Append(q, m)[i].account <= Append(q, m)[j].account
    BY <1>0, AppendElements DEF Sorted
  <2>1. CASE j = Len(q) + 1
    BY <1>0, <1>2, <2>1, AppendElements DEF InRange
  <2>2. CASE j # Len(q) + 1
    <3>1. i \in 1..Len(q) /\ j \in 1..Len(q)
      BY <2>2
    <3> QED
      BY <1>0, <3>1, AppendElements DEF Sorted
  <2> QED
    BY <2>1, <2>2
<1> QED
  BY <1>2, <1>3 DEF m

\* Taking the first message keeps the order of the others; a request that is
\* taken is no newer than any of them.
LEMMA TailInOrder ==
    ASSUME NEW q \in Seq(Messages), q # <<>>, NEW lo \in Nat, NEW hi \in Nat,
           InRange(q, lo, hi), Sorted(q)
    PROVE  /\ InRange(Tail(q), lo, hi) /\ Sorted(Tail(q))
           /\ Head(q).type = "serviceRequest" =>
                 /\ lo <= Head(q).account /\ Head(q).account <= hi
                 /\ InRange(Tail(q), Head(q).account, hi)
<1>1. InRange(Tail(q), lo, hi)
  BY TailElements DEF InRange
<1>2. Sorted(Tail(q))
  BY TailElements DEF Sorted
<1>3. ASSUME Head(q).type = "serviceRequest"
      PROVE  /\ lo <= Head(q).account /\ Head(q).account <= hi
             /\ InRange(Tail(q), Head(q).account, hi)
  <2>1. lo <= Head(q).account /\ Head(q).account <= hi
    BY <1>3, TailElements DEF InRange
  <2>2. \A i \in 1..Len(Tail(q)) : Tail(q)[i].type = "serviceRequest" =>
           Head(q).account <= Tail(q)[i].account
    <3> SUFFICES ASSUME NEW i \in 1..Len(Tail(q)), Tail(q)[i].type = "serviceRequest"
                 PROVE  q[1].account <= q[i + 1].account
      BY TailElements
    <3>1. i + 1 \in 1..Len(q) /\ 1 \in 1..Len(q) /\ 1 <= i + 1
      BY TailElements
    <3>2. q[i + 1].type = "serviceRequest" /\ q[1].type = "serviceRequest"
      BY <1>3, TailElements
    <3> QED
      BY <3>1, <3>2 DEF Sorted
  <2> QED
    BY <1>1, <2>1, <2>2 DEF InRange
<1> QED
  BY <1>1, <1>2, <1>3

\* Wider bounds hold as well.
LEMMA WiderRange ==
    ASSUME NEW q \in Seq(Messages), NEW lo \in Nat, NEW hi \in Nat, InRange(q, lo, hi),
           NEW l \in Nat, NEW h \in Nat, l <= lo, hi <= h
    PROVE  InRange(q, l, h)
<1>1. \A i \in 1..Len(q) : q[i].type = "serviceRequest" => q[i].account \in Nat
  BY AccountType
<1> QED
  BY <1>1 DEF InRange

\* Nothing waits in an empty queue.
LEMMA EmptyInOrder == ASSUME NEW lo, NEW hi PROVE InRange(<<>>, lo, hi) /\ Sorted(<<>>)
BY DEF InRange, Sorted

-----------------------------------------------------------------------------
(* Steps.                                                                  *)

\* What the two books hold are numbers.
LEMMA BookTypes ==
    ASSUME TypeOK
    PROVE  /\ Billed \in Nat /\ accounts \in Nat /\ hacc \in Nat
           /\ topic[Seller] \in Seq(Messages)
           /\ Known => Entry \in NodeBufferInfo /\ Entry.msg \in Nat /\ Entry.valid \in BOOLEAN
<1>1. \A b \in Tables, p \in Peers : HasBuffer(b, p) =>
         b[p] \in NodeBufferInfo /\ b[p].msg \in Nat /\ b[p].valid \in BOOLEAN
  BY DEF Tables, HasBuffer, NodeBufferInfo
<1> QED
  BY <1>1, TheNodes DEF TypeOK, Billed, NoMessage, Known, Entry

\* The same of the next state.
LEMMA BookTypesNext ==
    ASSUME TypeOK'
    PROVE  Billed' \in Nat /\ accounts' \in Nat /\ hacc' \in Nat
           /\ topic'[Seller] \in Seq(Messages)
<1>1. \A b \in Tables, p \in Peers : HasBuffer(b, p) => b[p].msg \in Nat
  BY DEF Tables, HasBuffer, NodeBufferInfo
<1> QED
  BY <1>1, TheNodes DEF TypeOK, Billed, NoMessage

\* Two operations that each keep the requests keep them together.
LEMMA SameTwice ==
    ASSUME NEW b, NEW c, NEW d, SameRequests(b, c), SameRequests(c, d)
    PROVE  SameRequests(b, d)
BY DEF SameRequests, HasBuffer

\* The buyer's way to note both states of his seller keeps the requests.
LEMMA SetStatesSame ==
    ASSUME NEW b \in Tables, NEW r \in RendezvousStates, NEW l \in ConnectionStates
    PROVE  SetStates(b, r, l) \in Tables /\ SameRequests(b, SetStates(b, r, l))
<1> DEFINE c == UpdateBufferRendezvousState(b, Seller, r)
<1>1. c \in Tables /\ SameRequests(b, c)
  BY TheNodes, UpdateRendezvousType
<1> HIDE DEF c
<1>2. UpdateBufferLibP2PState(c, Seller, l) \in Tables
      /\ SameRequests(c, UpdateBufferLibP2PState(c, Seller, l))
  BY <1>1, TheNodes, UpdateLibType
<1>3. SetStates(b, r, l) = UpdateBufferLibP2PState(c, Seller, l)
  BY DEF SetStates, c
<1> QED
  BY <1>1, <1>2, <1>3, SameTwice

\* But for a first request, a failed one and a restart, every step of the buyer
\* that writes his table keeps the entries and their requests.
LEMMA KeepsRequests ==
    ASSUME TypeOK, Repeat \/ SeeStreams \/ handlePunchMeRequest \/ BuyerPunches \/ Tick
    PROVE  SameRequests(sellerBuffers, sellerBuffers')
<1> USE TheNodes
<1>0. sellerBuffers \in Tables /\ SameRequests(sellerBuffers, sellerBuffers)
  BY SameTable DEF TypeOK
<1>s. /\ {"SendOK", "SendFail"} \subseteq RendezvousStates
      /\ {"Connecting", "CanNotConnectUnknownReason", "Connected", "HolePunchingInProgress",
          "HolePunchingCompleted"} \subseteq ConnectionStates
      /\ "transport" \in Addresses
  BY DEF RendezvousStates, ConnectionStates, Addresses
<1>1. CASE Repeat
  <2> DEFINE b == IncrementReconnectAttempts(sellerBuffers, Seller)
  <2>1. b \in Tables /\ SameRequests(sellerBuffers, b)
    BY <1>0, IncrementType
  <2>2. \/ sellerBuffers' = SetStates(b, "SendOK", "Connecting")
        \/ sellerBuffers' = SetStates(b, "SendFail", "CanNotConnectUnknownReason")
    BY <1>1 DEF Repeat
  <2> HIDE DEF b
  <2> QED
    BY <1>s, <2>1, <2>2, SetStatesSame, SameTwice
<1>2. CASE SeeStreams
  <2> DEFINE b == SetStates(sellerBuffers, "SendOK", "Connected")
  <2>1. b \in Tables /\ SameRequests(sellerBuffers, b)
    BY <1>0, <1>s, SetStatesSame
  <2>2. sellerBuffers' = SetLastOtherSideMultiAddress(b, Seller, "transport")
    BY <1>2 DEF SeeStreams
  <2> HIDE DEF b
  <2> QED
    BY <1>s, <2>1, <2>2, SetAddressType, SameTwice
<1>3. CASE handlePunchMeRequest
  BY <1>0, <1>3, <1>s, UpdateLibType DEF handlePunchMeRequest
<1>4. CASE BuyerPunches
  <2> DEFINE b == UpdateBufferLibP2PState(sellerBuffers, Seller, "HolePunchingCompleted")
  <2>1. b \in Tables /\ SameRequests(sellerBuffers, b)
    BY <1>0, <1>s, UpdateLibType
  <2>2. \/ UNCHANGED sellerBuffers
        \/ sellerBuffers' = SetLastOtherSideMultiAddress(b, Seller, "transport")
        \/ sellerBuffers' =
               UpdateBufferLibP2PState(sellerBuffers, Seller, "CanNotConnectUnknownReason")
    BY <1>4 DEF BuyerPunches
  <2> HIDE DEF b
  <2> QED
    BY <1>0, <1>s, <2>1, <2>2, UpdateLibType, SetAddressType, SameTwice
<1>5. CASE Tick
  BY <1>0, <1>5, AgeType DEF Tick
<1> QED
  BY <1>1, <1>2, <1>3, <1>4, <1>5

\* A step that keeps the books and the handler busy or idle as they were, and
\* brings the seller at most a message that is no request.
LEMMA QuietOrder ==
    ASSUME TypeOK, OrderInv,
           SameRequests(sellerBuffers, sellerBuffers'),
           SameRequests(buyerBuffers, buyerBuffers'),
           UNCHANGED <<accounts, hacc, current>>, (hpc' = "idle") <=> (hpc = "idle"),
           \/ topic'[Seller] = topic[Seller]
           \/ \E m \in Messages : /\ m.type # "serviceRequest"
                                  /\ topic'[Seller] = Append(topic[Seller], m)
    PROVE  OrderInv'
<1> USE BookTypes
<1>1. /\ Billed' = Billed /\ (Known' <=> Known)
      /\ HasBuffer(buyerBuffers', Buyer) <=> HasBuffer(buyerBuffers, Buyer)
      /\ HasBuffer(buyerBuffers, Buyer) => buyerBuffers'[Buyer].msg = buyerBuffers[Buyer].msg
      /\ Known => Entry'.msg = Entry.msg /\ Entry'.valid = Entry.valid
  BY TheNodes DEF SameRequests, Billed, Known, Entry, HasBuffer
<1>2. /\ Sorted(topic[Seller]) => Sorted(topic'[Seller])
      /\ \A lo, hi \in Nat : InRange(topic[Seller], lo, hi) => InRange(topic'[Seller], lo, hi)
  BY AppendOther
<1>3. QueueInOrder'
  BY <1>1, <1>2 DEF OrderInv, QueueInOrder
<1>4. HandInOrder'
  BY <1>1 DEF OrderInv, HandInOrder
<1>5. PresentIsNewest'
  BY <1>1 DEF OrderInv, PresentIsNewest
<1>6. AcceptedIsNewest'
  BY <1>1, <1>2 DEF OrderInv, AcceptedIsNewest
<1>7. BillsPresentAccount'
  BY <1>1 DEF OrderInv, BillsPresentAccount, HasBuffer
<1> QED
  BY <1>3, <1>4, <1>5, <1>6, <1>7 DEF OrderInv

\* A request for the newest account may arrive on the seller's topic.
LEMMA PostOrder ==
    ASSUME TypeOK, OrderInv, NEW a \in Nat, a > 0, accounts <= a, accounts' = a,
           Post(Seller, Request(a)) \/ PostFails(Seller, Request(a)),
           UNCHANGED <<buyerBuffers, hacc>>
    PROVE  /\ QueueInOrder'
           /\ InRange(topic[Seller], accounts, accounts) /\ accounts' = accounts
                  => InRange(topic'[Seller], accounts', accounts')
<1> USE BookTypes
<1>1. \/ topic'[Seller] = topic[Seller]
      \/ topic'[Seller] = Append(topic[Seller], Request(a))
  BY TheNodes DEF Post, PostFails, TypeOK
<1>2. Billed' = Billed /\ hacc' = hacc /\ Billed <= accounts /\ hacc <= accounts
  BY DEF Billed, OrderInv, HandInOrder, HasBuffer
<1>3. ASSUME NEW lo \in Nat, InRange(topic[Seller], lo, accounts), lo <= a
      PROVE  /\ InRange(topic'[Seller], lo, a)
             /\ Sorted(topic[Seller]) => Sorted(topic'[Seller])
  <2>1. InRange(topic[Seller], lo, a)
    BY <1>3, WiderRange
  <2> QED
    BY <1>1, <1>3, <2>1, AppendNewest
<1>4. QueueInOrder'
  BY <1>2, <1>3 DEF OrderInv, QueueInOrder
<1> QED
  BY <1>3, <1>4

\* The steps of processSeller: only the first request and its repetitions
\* reach the seller, and both name the newest account.
LEMMA ProcessSellerOrder ==
    ASSUME TypeOK, OrderInv, processSeller
    PROVE  OrderInv'
<1> USE TheNodes, BookTypes
<1>0. sellerBuffers \in Tables /\ buyerBuffers \in Tables
  BY DEF TypeOK
<1>s. /\ {"SendOK", "SendFail", "NotInitiated"} \subseteq RendezvousStates
      /\ {"Connecting", "CanNotConnectUnknownReason", "Connected", "ConnectionLost"}
           \subseteq ConnectionStates
      /\ "transport" \in Addresses
  BY DEF RendezvousStates, ConnectionStates, Addresses
<1>1. CASE FirstRequest
  <2>1. /\ accounts' = accounts + 1 /\ current' = FALSE
        /\ UNCHANGED <<buyerBuffers, hpc, hacc>>
    BY <1>1 DEF FirstRequest
  <2>2. QueueInOrder'
    <3>1. PICK a \in Nat : a = accounts'
      BY <2>1
    <3>2. Post(Seller, Request(a)) \/ PostFails(Seller, Request(a))
      BY <1>1, <3>1 DEF FirstRequest
    <3> QED
      BY <2>1, <3>1, <3>2, PostOrder
  <2>3. HandInOrder'
    BY <2>1 DEF OrderInv, HandInOrder, Billed, HasBuffer
  <2>4. PresentIsNewest'
    <3>1. ASSUME NEW r \in RendezvousStates, NEW l \in ConnectionStates
          PROVE  LET b == AddBuffer2(sellerBuffers, Seller, accounts', TRUE, r, l)
                 IN  b \in Tables /\ HasBuffer(b, Seller) /\ b[Seller].msg = accounts'
      <4>1. accounts' \in Nat /\ TRUE \in BOOLEAN /\ Seller \in Peers
        BY <2>1
      <4>2. AddBuffer2(sellerBuffers, Seller, accounts', TRUE, r, l) \in Tables
        BY <1>0, <4>1, AddBuffer2Type, Zenon
      <4>3. HasBuffer(AddBuffer2(sellerBuffers, Seller, accounts', TRUE, r, l), Seller)
        BY <1>0, <4>1, AddBuffer2Entry, Zenon
      <4>4. AddBuffer2(sellerBuffers, Seller, accounts', TRUE, r, l)[Seller].msg = accounts'
        BY <1>0, <4>1 DEF AddBuffer2, Tables
      <4> QED
        BY <4>2, <4>3, <4>4, Zenon
    <3>2. ASSUME NEW b \in Tables, HasBuffer(b, Seller), b[Seller].msg = accounts'
          PROVE  IncrementReconnectAttempts(b, Seller)[Seller].msg = accounts'
      BY <3>2, IncrementType DEF SameRequests
    <3>3. sellerBuffers'[Seller].msg = accounts'
      BY <1>1, <1>s, <3>1, <3>2 DEF FirstRequest
    <3> QED
      BY <2>1, <3>3 DEF PresentIsNewest, Entry
  <2>5. AcceptedIsNewest' /\ BillsPresentAccount'
    BY <2>1 DEF AcceptedIsNewest, BillsPresentAccount
  <2> QED
    BY <2>2, <2>3, <2>4, <2>5 DEF OrderInv
<1>2. CASE PrepareFails
  <2>1. /\ accounts' \in {accounts, accounts + 1}
        /\ UNCHANGED <<buyerBuffers, topic, hpc, hacc, current>>
    BY <1>2 DEF PrepareFails
  <2>2. ~Entry.valid'
    BY <1>0, <1>2 DEF PrepareFails, AddBuffer2, Entry, Tables
  <2>3. QueueInOrder'
    BY <2>1, WiderRange DEF OrderInv, QueueInOrder, Billed, HasBuffer
  <2>4. HandInOrder'
    BY <2>1 DEF OrderInv, HandInOrder, Billed, HasBuffer
  <2> QED
    BY <2>2, <2>3, <2>4 DEF OrderInv, PresentIsNewest, AcceptedIsNewest, BillsPresentAccount
<1>3. CASE Repeat
  <2>1. /\ Known /\ Entry.valid
        /\ Post(Seller, Request(Entry.msg)) \/ PostFails(Seller, Request(Entry.msg))
        /\ UNCHANGED <<buyerBuffers, accounts, hpc, hacc, current>>
    BY <1>3 DEF Repeat
  <2>2. Entry.msg = accounts /\ accounts > 0
    BY <2>1 DEF OrderInv, PresentIsNewest
  <2>3. /\ QueueInOrder'
        /\ InRange(topic[Seller], accounts, accounts) => InRange(topic'[Seller], accounts', accounts')
    BY <2>1, <2>2, PostOrder
  <2>4. SameRequests(sellerBuffers, sellerBuffers')
    BY <1>3, KeepsRequests
  <2>5. Known' /\ Entry'.msg = Entry.msg /\ Entry'.valid = Entry.valid
    BY <2>1, <2>4 DEF SameRequests, Known, Entry, HasBuffer
  <2>6. HandInOrder'
    BY <2>1 DEF OrderInv, HandInOrder, Billed, HasBuffer
  <2>7. PresentIsNewest'
    BY <2>1, <2>2, <2>5 DEF PresentIsNewest
  <2>8. AcceptedIsNewest'
    BY <2>1, <2>3 DEF OrderInv, AcceptedIsNewest
  <2>9. BillsPresentAccount'
    BY <2>1, <2>5 DEF OrderInv, BillsPresentAccount, HasBuffer
  <2> QED
    BY <2>3, <2>6, <2>7, <2>8, <2>9 DEF OrderInv
<1>4. CASE CloseUnknown
  BY <1>4, SameTable, QuietOrder DEF CloseUnknown, tables
<1>5. CASE SeeStreams
  <2>1. SameRequests(sellerBuffers, sellerBuffers')
    BY <1>5, KeepsRequests
  <2> QED
    BY <1>5, <2>1, SameTable, QuietOrder DEF SeeStreams
<1> QED
  BY <1>1, <1>2, <1>3, <1>4, <1>5 DEF processSeller, Ask

\* The buyer's other steps bring the seller no request.
LEMMA BuyerOrder ==
    ASSUME TypeOK, OrderInv, handlePunchMeRequest \/ OtherMessage \/ BuyerPunches
    PROVE  OrderInv'
<1> USE TheNodes
<1>0. /\ sellerBuffers \in Tables /\ topic \in [Nodes -> Seq(Messages)]
      /\ SameRequests(sellerBuffers, sellerBuffers) /\ SameRequests(buyerBuffers, buyerBuffers)
  BY SameTable DEF TypeOK
<1>1. CASE handlePunchMeRequest
  <2> DEFINE to == Head(topic[Buyer]).stdInTopic
             rest == [topic EXCEPT ![Buyer] = Tail(@)]
             ack == [type |-> "punchMeAcknowledgment"]
  <2>1. SameRequests(sellerBuffers, sellerBuffers')
    BY <1>1, KeepsRequests
  <2>2. topic' = rest \/ topic' = [rest EXCEPT ![to] = Append(@, ack)]
    BY <1>1 DEF handlePunchMeRequest
  <2>3. rest[Seller] = topic[Seller] /\ DOMAIN rest = Nodes
    BY <1>0
  <2>4. ack \in Messages /\ ack.type # "serviceRequest"
    BY MessageTypes
  <2> HIDE DEF rest, to, ack
  <2>5. topic'[Seller] = topic[Seller] \/ topic'[Seller] = Append(topic[Seller], ack)
    BY <2>2, <2>3
  <2>6. UNCHANGED <<buyerBuffers, accounts, hpc, hacc, current>>
    BY <1>1 DEF handlePunchMeRequest
  <2> QED
    BY <1>0, <2>1, <2>4, <2>5, <2>6, QuietOrder
<1>2. CASE OtherMessage
  <2>1. topic'[Seller] = topic[Seller]
    BY <1>0, <1>2 DEF OtherMessage, Take
  <2> QED
    BY <1>0, <1>2, <2>1, QuietOrder DEF OtherMessage, tables
<1>3. CASE BuyerPunches
  <2>1. SameRequests(sellerBuffers, sellerBuffers')
    BY <1>3, KeepsRequests
  <2>2. UNCHANGED <<buyerBuffers, topic, accounts, hpc, hacc, current>>
    BY <1>3 DEF BuyerPunches
  <2> QED
    BY <1>0, <2>1, <2>2, QuietOrder
<1> QED
  BY <1>1, <1>2, <1>3

\* The seller takes the oldest request, and records it last.
LEMMA SellerOrder ==
    ASSUME TypeOK, OrderInv, serviceRequest \/ IgnoreRequest \/ WriteFails
    PROVE  OrderInv'
<1> USE TheNodes, BookTypes
<1>0. /\ buyerBuffers \in Tables /\ topic \in [Nodes -> Seq(Messages)]
      /\ SameRequests(sellerBuffers, sellerBuffers) /\ SameRequests(buyerBuffers, buyerBuffers)
  BY SameTable DEF TypeOK
<1>t. ASSUME Take(Seller, "serviceRequest")
      PROVE  /\ topic'[Seller] = Tail(topic[Seller])
             /\ Head(topic[Seller]).account \in Nat
             /\ Sorted(Tail(topic[Seller]))
             /\ \A lo, hi \in Nat : InRange(topic[Seller], lo, hi) =>
                   /\ InRange(Tail(topic[Seller]), lo, hi)
                   /\ lo <= Head(topic[Seller]).account /\ Head(topic[Seller]).account <= hi
                   /\ InRange(Tail(topic[Seller]), Head(topic[Seller]).account, hi)
  <2>1. /\ topic[Seller] # <<>> /\ Head(topic[Seller]).type = "serviceRequest"
        /\ topic'[Seller] = Tail(topic[Seller])
    BY <1>0, <1>t DEF Take
  <2>2. Head(topic[Seller]) \in Messages
    BY <2>1
  <2>3. Sorted(topic[Seller]) /\ InRange(topic[Seller], 1, accounts)
    BY DEF OrderInv, QueueInOrder
  <2>4. Sorted(Tail(topic[Seller]))
    BY <2>1, <2>3, TailInOrder
  <2> QED
    BY <2>1, <2>2, <2>3, <2>4, TailInOrder, AccountType
<1>1. CASE TakeRequest
  <2>1. /\ Take(Seller, "serviceRequest") /\ hpc = "idle"
        /\ hacc' = Head(topic[Seller]).account
        /\ UNCHANGED <<sellerBuffers, buyerBuffers, accounts>>
    BY <1>1 DEF TakeRequest, tables
  <2>2. hpc' # "idle"
    BY <1>1 DEF TakeRequest, AfterLookup
  <2>3. Billed' = Billed /\ Known' = Known /\ Entry' = Entry
    BY <2>1 DEF Billed, Known, Entry, HasBuffer
  <2>4. hacc' > 0 /\ hacc' <= accounts /\ Billed <= hacc'
    BY <1>t, <2>1 DEF OrderInv, QueueInOrder
  <2>5. QueueInOrder'
    BY <1>t, <2>1, <2>3 DEF OrderInv, QueueInOrder
  <2>6. HandInOrder'
    BY <2>1, <2>2, <2>3, <2>4 DEF OrderInv, HandInOrder
  <2>7. PresentIsNewest'
    BY <2>1 DEF OrderInv, PresentIsNewest, Known, Entry, HasBuffer
  <2>8. AcceptedIsNewest'
    <3> SUFFICES ASSUME current', Known, Entry.valid
                 PROVE  hacc' = accounts /\ InRange(Tail(topic[Seller]), accounts, accounts)
      BY <1>t, <2>1, <2>3 DEF AcceptedIsNewest, Known, Entry, HasBuffer
    <3>1. CASE current
      BY <1>t, <2>1, <3>1 DEF OrderInv, AcceptedIsNewest
    <3>2. CASE hacc' = Entry.msg
      <4>1. hacc' = accounts
        BY <3>2 DEF OrderInv, PresentIsNewest
      <4> QED
        BY <1>t, <2>1, <4>1 DEF OrderInv, QueueInOrder
    <3> QED
      BY <1>1, <3>1, <3>2 DEF TakeRequest
  <2>9. BillsPresentAccount'
    BY <2>2 DEF BillsPresentAccount
  <2> QED
    BY <2>5, <2>6, <2>7, <2>8, <2>9 DEF OrderInv
<1>2. CASE IgnoreRequest
  <2>1. /\ Take(Seller, "serviceRequest")
        /\ UNCHANGED <<sellerBuffers, buyerBuffers, accounts, hpc, hacc, current>>
    BY <1>2 DEF IgnoreRequest, tables
  <2>2. QueueInOrder'
    BY <1>t, <2>1 DEF OrderInv, QueueInOrder, Billed, HasBuffer
  <2>3. HandInOrder' /\ PresentIsNewest' /\ BillsPresentAccount'
    BY <2>1 DEF OrderInv, HandInOrder, PresentIsNewest, BillsPresentAccount, Billed, Known,
                Entry, HasBuffer
  <2>4. AcceptedIsNewest'
    BY <1>t, <2>1 DEF OrderInv, AcceptedIsNewest, Known, Entry, HasBuffer
  <2> QED
    BY <2>2, <2>3, <2>4 DEF OrderInv
<1>3. CASE SellerDials \/ OpenStream
  <2>1. UNCHANGED <<sellerBuffers, buyerBuffers, topic, accounts, hacc, current>>
    BY <1>3 DEF SellerDials, OpenStream, tables
  <2>2. hpc # "idle" /\ hpc' # "idle"
    BY <1>3 DEF SellerDials, OpenStream
  <2> QED
    BY <1>0, <2>1, <2>2, QuietOrder
<1>4. CASE AddConnected
  <2>1. /\ UNCHANGED <<sellerBuffers, topic, accounts, hacc, current>>
        /\ hpc # "idle" /\ hpc' # "idle"
    BY <1>4 DEF AddConnected
  <2>2. Billed' = 0
    BY <1>0, <1>4 DEF AddConnected, AddBuffer3, Billed, NoMessage, Tables
  <2>3. QueueInOrder'
    <3>1. InRange(topic[Seller], 0, accounts)
      BY WiderRange DEF OrderInv, QueueInOrder
    <3> QED
      BY <2>1, <2>2, <3>1 DEF OrderInv, QueueInOrder
  <2>4. HandInOrder'
    BY <2>1, <2>2 DEF OrderInv, HandInOrder
  <2>5. PresentIsNewest' /\ AcceptedIsNewest' /\ BillsPresentAccount'
    BY <2>1 DEF OrderInv, PresentIsNewest, AcceptedIsNewest, BillsPresentAccount, Known, Entry,
                HasBuffer
  <2> QED
    BY <2>3, <2>4, <2>5 DEF OrderInv
<1>5. CASE SendPunchMeRequest
  <2>1. /\ UNCHANGED <<sellerBuffers, accounts, hacc, current>>
        /\ hpc # "idle" /\ hpc' # "idle"
    BY <1>5 DEF SendPunchMeRequest
  <2>2. topic'[Seller] = topic[Seller]
    BY <1>0, <1>5 DEF SendPunchMeRequest, Post
  <2>3. SameRequests(buyerBuffers, buyerBuffers')
    BY <1>0, <1>5, UpdateLibType DEF SendPunchMeRequest, ConnectionStates
  <2> QED
    BY <1>0, <2>1, <2>2, <2>3, QuietOrder
<1>6. CASE RecordRequest
  <2>1. /\ UNCHANGED <<sellerBuffers, topic, accounts, current>>
        /\ hpc = "record" /\ hpc' = "idle" /\ hacc' = 0
    BY <1>6 DEF RecordRequest, NoMessage
  <2>2. hacc > 0 /\ hacc <= accounts /\ InRange(topic[Seller], hacc, accounts)
    BY <2>1 DEF OrderInv, HandInOrder, QueueInOrder
  <2>3. HasBuffer(buyerBuffers', Buyer) => buyerBuffers'[Buyer].msg = hacc
    <3> DEFINE b == SetLastOtherSideMultiAddress(buyerBuffers, Buyer, "transport")
    <3>1. b \in Tables
      BY <1>0, SetAddressType DEF Addresses
    <3>2. buyerBuffers' = SetNeuronSellerRequest(b, Buyer, hacc)
      BY <1>6 DEF RecordRequest, Recorded
    <3> HIDE DEF b
    <3> QED
      BY <3>1, <3>2 DEF SetNeuronSellerRequest, HasBuffer, Tables, NodeBufferInfo
  <2>4. Billed' \in {0, hacc}
    BY <2>3 DEF Billed, NoMessage, HasBuffer
  <2>5. InRange(topic[Seller], 0, accounts)
    BY WiderRange DEF OrderInv, QueueInOrder
  <2>6. QueueInOrder'
    BY <2>1, <2>2, <2>4, <2>5 DEF OrderInv, QueueInOrder
  <2>7. HandInOrder'
    BY <2>1, <2>2, <2>4 DEF HandInOrder, NoMessage
  <2>8. PresentIsNewest' /\ AcceptedIsNewest'
    BY <2>1 DEF OrderInv, PresentIsNewest, AcceptedIsNewest, Known, Entry, HasBuffer
  <2>9. BillsPresentAccount'
    BY <2>1, <2>3 DEF OrderInv, PresentIsNewest, AcceptedIsNewest, BillsPresentAccount, Known,
                      Entry, HasBuffer
  <2> QED
    BY <2>6, <2>7, <2>8, <2>9 DEF OrderInv
<1>7. CASE WriteFails
  <2>1. UNCHANGED <<sellerBuffers, accounts, hpc, hacc, current>>
    BY <1>7 DEF WriteFails
  <2>2. topic'[Seller] = topic[Seller]
    BY <1>0, <1>7 DEF WriteFails
  <2>3. ~HasBuffer(buyerBuffers', Buyer) /\ Billed' = 0
    BY <1>0, <1>7 DEF WriteFails, RemoveBuffer, HasBuffer, Billed, NoMessage, Tables
  <2>4. InRange(topic[Seller], 0, accounts)
    BY WiderRange DEF OrderInv, QueueInOrder
  <2>5. QueueInOrder' /\ HandInOrder'
    BY <2>1, <2>2, <2>3, <2>4 DEF OrderInv, QueueInOrder, HandInOrder
  <2>6. PresentIsNewest' /\ AcceptedIsNewest' /\ BillsPresentAccount'
    BY <2>1, <2>2, <2>3 DEF OrderInv, PresentIsNewest, AcceptedIsNewest, BillsPresentAccount,
                            Known, Entry, HasBuffer
  <2> QED
    BY <2>5, <2>6 DEF OrderInv
<1> QED
  BY <1>1, <1>2, <1>3, <1>4, <1>5, <1>6, <1>7 DEF serviceRequest

\* Restarts empty a table or a topic; the rest leaves the books alone.
LEMMA SurroundingsOrder ==
    ASSUME TypeOK, OrderInv,
           \/ ConnectionDrops \/ StreamsClose \/ Tick
           \/ \E n \in Nodes : NoticeDead(n) \/ Restart(n)
    PROVE  OrderInv'
<1> USE TheNodes, BookTypes
<1>0. /\ sellerBuffers \in Tables /\ topic \in [Nodes -> Seq(Messages)]
      /\ SameRequests(sellerBuffers, sellerBuffers) /\ SameRequests(buyerBuffers, buyerBuffers)
  BY SameTable DEF TypeOK
<1>1. CASE ConnectionDrops \/ StreamsClose
  <2>1. UNCHANGED <<sellerBuffers, buyerBuffers, topic, accounts, hpc, hacc, current>>
    BY <1>1 DEF ConnectionDrops, StreamsClose, tables
  <2> QED
    BY <1>0, <2>1, QuietOrder
<1>2. ASSUME NEW n \in Nodes, NoticeDead(n)
      PROVE  OrderInv'
  <2>1. UNCHANGED <<sellerBuffers, buyerBuffers, topic, accounts, hpc, hacc, current>>
    BY <1>2 DEF NoticeDead, tables
  <2> QED
    BY <1>0, <2>1, QuietOrder
<1>3. CASE Tick
  <2>1. SameRequests(sellerBuffers, sellerBuffers')
    BY <1>3, KeepsRequests
  <2> QED
    BY <1>0, <1>3, <2>1, QuietOrder DEF Tick
<1>4. CASE Restart(Buyer)
  <2>1. UNCHANGED <<buyerBuffers, accounts, hpc, hacc>> /\ topic'[Seller] = topic[Seller]
    BY <1>0, <1>4 DEF Restart
  <2>2. ~Known'
    BY <1>4 DEF Restart, NewNodeBuffers, Known, HasBuffer
  <2>3. QueueInOrder' /\ HandInOrder'
    BY <2>1 DEF OrderInv, QueueInOrder, HandInOrder, Billed, HasBuffer
  <2> QED
    BY <2>2, <2>3 DEF OrderInv, PresentIsNewest, AcceptedIsNewest, BillsPresentAccount
<1>5. CASE Restart(Seller)
  <2>1. /\ UNCHANGED <<sellerBuffers, accounts, current>> /\ topic'[Seller] = <<>>
        /\ hpc' = "idle" /\ hacc' = 0
    BY <1>0, <1>5 DEF Restart, NoMessage
  <2>2. ~HasBuffer(buyerBuffers', Buyer) /\ Billed' = 0
    BY <1>5 DEF Restart, NewNodeBuffers, Billed, HasBuffer, NoMessage
  <2>3. QueueInOrder'
    BY <2>1, EmptyInOrder DEF QueueInOrder
  <2>4. HandInOrder'
    BY <2>1, <2>2 DEF HandInOrder, NoMessage
  <2>5. PresentIsNewest'
    BY <2>1 DEF OrderInv, PresentIsNewest, Known, Entry, HasBuffer
  <2>6. AcceptedIsNewest' /\ BillsPresentAccount'
    BY <2>1, <2>2, EmptyInOrder DEF AcceptedIsNewest, BillsPresentAccount
  <2> QED
    BY <2>3, <2>4, <2>5, <2>6 DEF OrderInv
<1> QED
  BY <1>1, <1>2, <1>3, <1>4, <1>5

\* Every step keeps the order.
LEMMA StepOrder == TypeOK /\ OrderInv /\ [Next]_vars => OrderInv'
<1> SUFFICES ASSUME TypeOK, OrderInv, [Next]_vars PROVE OrderInv'
  OBVIOUS
<1>1. CASE UNCHANGED vars
  BY <1>1, SameTable, QuietOrder DEF vars
<1>2. CASE Next
  BY <1>2, ProcessSellerOrder, BuyerOrder, SellerOrder, SurroundingsOrder DEF Next
<1> QED
  BY <1>1, <1>2

-----------------------------------------------------------------------------
(* What service costs.                                                     *)

\* The two cases of the bound.
CostBound ==
    accounts + faults <= MaxFaults + 1 /\ (Known \/ accounts + faults <= MaxFaults)

\* It is the property.
LEMMA CostCases == TypeOK => (FaultPerAccount <=> CostBound)
<1> SUFFICES ASSUME TypeOK PROVE FaultPerAccount <=> CostBound
  OBVIOUS
<1>1. accounts \in Nat /\ faults \in Nat /\ MaxFaults \in Nat
  BY FaultBound DEF TypeOK
<1>2. CASE Known
  BY <1>1, <1>2 DEF FaultPerAccount, CostBound
<1>3. CASE ~Known
  BY <1>1, <1>3 DEF FaultPerAccount, CostBound
<1> QED
  BY <1>2, <1>3

\* The bound in the next state, from the numbers there.
LEMMA CostNext ==
    ASSUME NEW a, NEW f, a = accounts', f = faults',
           a + f <= MaxFaults + 1, Known' \/ a + f <= MaxFaults
    PROVE  CostBound'
BY Zenon DEF CostBound

\* A step that leaves the ledger alone and keeps the buyer's entries costs
\* nothing, whether it is a fault or not.
LEMMA QuietCost ==
    ASSUME TypeOK, CostBound, UNCHANGED accounts, Fault \/ Fine,
           SameRequests(sellerBuffers, sellerBuffers')
    PROVE  CostBound'
<1>1. accounts \in Nat /\ faults \in Nat /\ MaxFaults \in Nat
  BY FaultBound DEF TypeOK
<1>2. PICK f \in Nat : f = faults' /\ f <= faults
  BY <1>1 DEF Fault, Fine
<1>3. f <= faults
  BY <1>2
<1>4. Known' <=> Known
  BY TheNodes DEF SameRequests, Known, HasBuffer
<1>5. accounts + f <= MaxFaults + 1 /\ (Known \/ accounts + f <= MaxFaults)
  BY <1>1, <1>3 DEF CostBound
<1> QED
  BY <1>2, <1>4, <1>5, CostNext, Zenon

\* What processSeller does: an account is opened only by a buyer without an
\* entry, who has one afterwards.
LEMMA ProcessSellerCost ==
    ASSUME TypeOK, CostBound, processSeller
    PROVE  CostBound'
<1> USE TheNodes
<1>0. /\ sellerBuffers \in Tables /\ accounts \in Nat /\ faults \in Nat /\ MaxFaults \in Nat
      /\ SameRequests(sellerBuffers, sellerBuffers)
  BY FaultBound, SameTable DEF TypeOK
<1>s. /\ {"SendOK", "SendFail", "NotInitiated"} \subseteq RendezvousStates
      /\ {"Connecting", "ConnectionLost"} \subseteq ConnectionStates
  BY DEF RendezvousStates, ConnectionStates
<1>1. CASE FirstRequest
  <2>1. ~Known /\ accounts' = accounts + 1 /\ (Fault \/ Fine)
    BY <1>1 DEF FirstRequest, Post, PostFails
  <2>2. PICK f \in Nat : f = faults' /\ f <= faults
    BY <1>0, <2>1 DEF Fault, Fine
  <2>3. ASSUME NEW r \in RendezvousStates, NEW l \in ConnectionStates
        PROVE  LET b == AddBuffer2(sellerBuffers, Seller, accounts', TRUE, r, l)
               IN  b \in Tables /\ HasBuffer(b, Seller)
    <3>1. accounts' \in Nat /\ TRUE \in BOOLEAN
      BY <1>0, <2>1
    <3> QED
      BY <1>0, <3>1, AddBuffer2Type, AddBuffer2Entry, Zenon
  <2>4. ASSUME NEW b \in Tables, HasBuffer(b, Seller)
        PROVE  HasBuffer(IncrementReconnectAttempts(b, Seller), Seller)
    BY <2>4, IncrementType DEF SameRequests
  <2>5. Known'
    BY <1>1, <1>s, <2>3, <2>4 DEF FirstRequest, Known, HasBuffer
  <2>6. ~Known /\ f <= faults
    BY <2>1, <2>2
  <2>7. (accounts + 1) + f <= MaxFaults + 1
    BY <1>0, <2>6 DEF CostBound
  <2> QED
    BY <2>1, <2>2, <2>5, <2>7, CostNext, Zenon
<1>2. CASE PrepareFails
  <2>1. ~Known /\ accounts' \in {accounts, accounts + 1} /\ faults > 0 /\ faults' = faults - 1
    BY <1>2 DEF PrepareFails, Fault
  <2>2. PICK a \in Nat : a = accounts' /\ a <= accounts + 1
    BY <1>0, <2>1
  <2>3. ~Known /\ a <= accounts + 1 /\ faults > 0
    BY <2>1, <2>2
  <2>4. a + (faults - 1) <= MaxFaults + 1 /\ a + (faults - 1) <= MaxFaults
    BY <1>0, <2>3 DEF CostBound
  <2> QED
    BY <2>1, <2>2, <2>4, CostNext, Zenon
<1>3. CASE Repeat
  <2>1. UNCHANGED accounts /\ (Fault \/ Fine)
    BY <1>3 DEF Repeat, Post, PostFails
  <2> QED
    BY <1>3, <2>1, KeepsRequests, QuietCost
<1>4. CASE CloseUnknown
  BY <1>0, <1>4, QuietCost DEF CloseUnknown, tables, Fine
<1>5. CASE SeeStreams
  BY <1>5, KeepsRequests, QuietCost DEF SeeStreams, Fine
<1> QED
  BY <1>1, <1>2, <1>3, <1>4, <1>5 DEF processSeller, Ask

\* The seller opens no account and does not touch the buyer's table.
LEMMA SellerCost ==
    ASSUME TypeOK, CostBound, serviceRequest \/ IgnoreRequest \/ WriteFails
    PROVE  CostBound'
<1>1. UNCHANGED <<sellerBuffers, accounts>>
  BY DEF serviceRequest, TakeRequest, SellerDials, OpenStream, AddConnected,
         SendPunchMeRequest, RecordRequest, IgnoreRequest, WriteFails, tables
<1>2. Fault \/ Fine
  BY DEF serviceRequest, TakeRequest, SellerDials, DialCannot, OpenStream, AddConnected,
         SendPunchMeRequest, Post, RecordRequest, IgnoreRequest, WriteFails, Fine
<1> QED
  BY <1>1, <1>2, SameTable, QuietCost

\* A restart of the buyer, who forgets his entry, pays for it with a fault.
LEMMA OtherCost ==
    ASSUME TypeOK, CostBound,
           \/ handlePunchMeRequest \/ OtherMessage \/ BuyerPunches
           \/ ConnectionDrops \/ StreamsClose \/ Tick
           \/ \E n \in Nodes : NoticeDead(n) \/ Restart(n)
    PROVE  CostBound'
<1> USE TheNodes
<1>0. /\ accounts \in Nat /\ faults \in Nat /\ MaxFaults \in Nat
      /\ SameRequests(sellerBuffers, sellerBuffers)
  BY FaultBound, SameTable DEF TypeOK
<1>1. CASE handlePunchMeRequest
  <2>1. UNCHANGED accounts /\ (Fault \/ Fine)
    BY <1>1 DEF handlePunchMeRequest
  <2> QED
    BY <1>1, <2>1, KeepsRequests, QuietCost
<1>2. CASE BuyerPunches
  <2>1. UNCHANGED accounts /\ (Fault \/ Fine)
    BY <1>2 DEF BuyerPunches, DialCannot
  <2> QED
    BY <1>2, <2>1, KeepsRequests, QuietCost
<1>3. CASE Tick
  BY <1>3, KeepsRequests, QuietCost DEF Tick, Fine
<1>4. CASE OtherMessage \/ ConnectionDrops \/ StreamsClose
  <2>1. UNCHANGED <<sellerBuffers, accounts>> /\ (Fault \/ Fine)
    BY <1>4 DEF OtherMessage, ConnectionDrops, StreamsClose, tables, Fine
  <2> QED
    BY <1>0, <2>1, QuietCost
<1>5. ASSUME NEW n \in Nodes, NoticeDead(n)
      PROVE  CostBound'
  <2>1. UNCHANGED <<sellerBuffers, accounts>> /\ Fine
    BY <1>5 DEF NoticeDead, tables, Fine
  <2> QED
    BY <1>0, <2>1, QuietCost
<1>6. CASE Restart(Seller)
  <2>1. UNCHANGED <<sellerBuffers, accounts>> /\ Fault
    BY <1>6 DEF Restart
  <2> QED
    BY <1>0, <2>1, QuietCost
<1>7. CASE Restart(Buyer)
  <2>1. UNCHANGED accounts /\ faults > 0 /\ faults' = faults - 1
    BY <1>7 DEF Restart, Fault
  <2> QED
    BY <1>0, <2>1 DEF CostBound
<1> QED
  BY <1>1, <1>2, <1>3, <1>4, <1>5, <1>6, <1>7

\* Every step keeps the account of faults.
LEMMA StepCost == TypeOK /\ CostBound /\ [Next]_vars => CostBound'
<1> SUFFICES ASSUME TypeOK, CostBound, [Next]_vars PROVE CostBound'
  OBVIOUS
<1>1. CASE UNCHANGED vars
  BY <1>1, SameTable, QuietCost DEF vars, Fine
<1>2. CASE Next
  BY <1>2, ProcessSellerCost, SellerCost, OtherCost DEF Next
<1> QED
  BY <1>1, <1>2

-----------------------------------------------------------------------------
(* The theorems.                                                           *)

IInv == TypeOK /\ OrderInv

\* At the start nothing was asked.
LEMMA InitiallyIInv == Init => IInv
<1> SUFFICES ASSUME Init PROVE IInv
  OBVIOUS
<1> USE TheNodes
<1>1. NewNodeBuffers \in Tables
  BY DEF NewNodeBuffers, Tables
<1>2. TypeOK
  <2>1. TablesOK /\ NetOK /\ HandlerOK /\ PuncherOK
    BY <1>1 DEF Init, TablesOK, NetOK, HandlerOK, PuncherOK, Connections, NoMessage
  <2>2. TopicsOK
    <3>1. <<>> \in Seq(Messages)
      OBVIOUS
    <3> QED
      BY <3>1 DEF Init, TopicsOK
  <2>3. open \in SUBSET Nodes
    BY Zenon DEF Init
  <2>4. accounts \in Nat /\ faults \in 0..MaxFaults
    BY FaultBound DEF Init
  <2>5. current \in BOOLEAN
    BY Zenon DEF Init
  <2> QED
    BY <2>1, <2>2, <2>3, <2>4, <2>5, TypeParts
<1>3. topic[Seller] = <<>> /\ hpc = "idle" /\ hacc = 0 /\ accounts = 0
  BY DEF Init, NoMessage
<1>4. ~Known /\ Billed = 0
  BY DEF Init, NewNodeBuffers, Known, Billed, HasBuffer, NoMessage
<1>5. QueueInOrder /\ HandInOrder
  BY <1>3, <1>4, EmptyInOrder DEF QueueInOrder, HandInOrder, NoMessage
<1>6. PresentIsNewest /\ AcceptedIsNewest /\ BillsPresentAccount
  BY <1>4 DEF PresentIsNewest, AcceptedIsNewest, BillsPresentAccount
<1> QED
  BY <1>2, <1>5, <1>6 DEF IInv, OrderInv

\* The invariant holds throughout.
LEMMA AlwaysIInv == Spec => []IInv
<1>1. IInv /\ [Next]_vars => IInv'
  BY StepTypes, StepOrder DEF IInv, OrderInv
<1> QED
  BY <1>1, InitiallyIInv, PTL DEF Spec

\* Tables, topics and handlers of both nodes hold what they may hold; in
\* particular no message is sent for an account that does not exist.
THEOREM TypeCorrect == Spec => []TypeOK
<1>1. IInv => TypeOK
  BY DEF IInv
<1> QED
  BY <1>1, AlwaysIInv, PTL

\* From the buyer's ledger to the seller's books the requests keep the order
\* in which their accounts were opened, for every number of repetitions,
\* losses and restarts.
THEOREM RequestsStayInOrder == Spec => []RequestsInOrder
<1>1. IInv => RequestsInOrder
  <2> SUFFICES ASSUME IInv PROVE RequestsInOrder
    OBVIOUS
  <2> USE BookTypes
  <2>1. /\ TypeOK /\ Billed <= accounts
        /\ hpc # "idle" => hacc \in 1..accounts /\ Billed <= hacc
    BY DEF IInv, OrderInv, HandInOrder
  <2>2. ASSUME NEW i \in Waiting
        PROVE  /\ Asked(i) \in 1..accounts
               /\ Billed <= Asked(i) /\ hacc <= Asked(i)
               /\ \A j \in Waiting : i <= j => Asked(i) <= Asked(j)
    <3>1. /\ i \in 1..Len(topic[Seller]) /\ topic[Seller][i] \in Messages
          /\ topic[Seller][i].type = "serviceRequest"
      BY <2>1 DEF Waiting
    <3>2. topic[Seller][i].account \in Nat
      BY <3>1, AccountType
    <3> QED
      BY <2>1, <3>1, <3>2 DEF IInv, OrderInv, QueueInOrder, InRange, Sorted, Waiting, Asked
  <2> QED
    BY <2>1, <2>2 DEF RequestsInOrder
<1> QED
  BY <1>1, AlwaysIInv, PTL

\* Once the seller has accepted the present account, it bills no other one
\* whenever its handler is idle.
THEOREM PresentAccountIsBilled == Spec => []BillsPresentAccount
<1>1. IInv => BillsPresentAccount
  BY DEF IInv, OrderInv
<1> QED
  BY <1>1, AlwaysIInv, PTL

\* However many requests are repeated, connections lost and punches tried, the
\* buyer puts money aside once, and once more for a fault at the most.
THEOREM AccountsArePaidByFaults == Spec => []FaultPerAccount
<1>1. Init => FaultPerAccount
  <2> SUFFICES ASSUME Init PROVE FaultPerAccount
    OBVIOUS
  <2>1. ~Known
    BY TheNodes DEF Init, NewNodeBuffers, Known, HasBuffer
  <2> QED
    BY <2>1, FaultBound DEF Init, FaultPerAccount
<1> QED
  BY <1>1, CostCases, StepCost, TypeCorrect, PTL DEF Spec
=============================================================================
