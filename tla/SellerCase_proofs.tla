------------------------- MODULE SellerCase_proofs -------------------------
(***************************************************************************)
(* Theorems about the seller, for every set of buyers, of callbacks that   *)
(* run at once, of punching goroutines and of accounts: the table and the  *)
(* pointers the invoice loop has copied stay well formed, an entry without *)
(* a request exists only inside a callback's window, and invoices name     *)
(* requested accounts only.  When callbacks do not overlap, a quiet entry  *)
(* holds the latest request.                                               *)
(***************************************************************************)
EXTENDS SellerCase, NodeBuffers_proofs

\* Where a callback has a service request in hand.
ServingPCs == HandlerPCs \ {"idle", "ack", "schedule"}

\* Where it is between AddBuffer3 and SetNeuronSellerRequest.
WindowPCs == {"setaddr", "setreq"}

\* A pointer into the table leads to an entry.
LivePointers == \A b \in Peers : snap[b] = Live => HasBuffer(buffers, b)

\* The invoice loop holds the entry that it is about to read.
ReadsHeld == ipc = "read" => snap[ip] # NoBuffer

\* The request a callback has in hand is one that was taken, and is not empty.
RequestsInHand ==
    \A h \in Handlers :
        hpc[h] \in ServingPCs => hacc[h] \in requested[hb[h]] /\ hacc[h] # NoMessage

\* So is the request in an entry, if there is one ...
EntriesRequested ==
    \A b \in Peers :
        HasBuffer(buffers, b) /\ buffers[b].msg # NoMessage
            => buffers[b].msg \in requested[b]

\* ... and in an entry that only the invoice loop still holds.
KeptRequested ==
    \A b \in Peers :
        snap[b] \in NodeBufferInfo /\ snap[b].msg # NoMessage
            => snap[b].msg \in requested[b]

\* All but the types.
Requested ==
    /\ LivePointers /\ ReadsHeld /\ RequestsInHand /\ EntriesRequested /\ KeptRequested
    /\ InvoicesWereRequested /\ NilRequestWindow

\* The inductive invariant.
IInv == TypeOK /\ Requested

-----------------------------------------------------------------------------
(* Constants.                                                              *)

\* There is a buyer for goroutines that have none at hand.
LEMMA AnyPeerType == AnyPeer \in Peers
BY SellerAssumption DEF AnyPeer

\* The empty table is a table.
LEMMA NewBuffersType == NewNodeBuffers \in Tables
BY DEF NewNodeBuffers, Tables

\* An entry is neither the mark of an absent one nor that of a live pointer.
LEMMA EntryIsNoMark == \A e \in NodeBufferInfo : e # NoBuffer /\ e # Live
BY NoBufferAssumption, SellerAssumption

\* What is left of an entry is an entry, with its request.
LEMMA KeptEntry ==
    ASSUME NEW e \in NodeBufferInfo
    PROVE  Kept(e) \in NodeBufferInfo /\ Kept(e).msg = e.msg
<1>1. (IF e.lib = "Connected" THEN e.lib ELSE "ConnectionLost") \in ConnectionStates
  BY DEF NodeBufferInfo, ConnectionStates
<1>2. "none" \in Addresses /\ "NotInitiated" \in RendezvousStates
  BY DEF Addresses, RendezvousStates
<1> QED
  BY <1>1, <1>2 DEF Kept, NodeBufferInfo

-----------------------------------------------------------------------------
(* Types.                                                                  *)

\* What the invoice loop holds is an entry.
LEMMA HeldType ==
    ASSUME TypeOK, LivePointers, NEW b \in Peers, snap[b] # NoBuffer
    PROVE  Held(b) \in NodeBufferInfo
BY DEF TypeOK, LivePointers, Held, HasBuffer, Tables

\* A callback's step keeps the types of its locals.
LEMMA HGotoType ==
    ASSUME TypeOK, NEW h \in Handlers, NEW l \in HandlerPCs, HGoto(h, l)
    PROVE  hpc' \in [Handlers -> HandlerPCs] /\ hb' \in [Handlers -> Peers]
               /\ hacc' \in [Handlers -> Nat]
BY DEF TypeOK, HGoto

\* So does its return.
LEMMA HReturnType ==
    ASSUME TypeOK, NEW h \in Handlers, HReturn(h)
    PROVE  hpc' \in [Handlers -> HandlerPCs] /\ hb' \in [Handlers -> Peers]
               /\ hacc' \in [Handlers -> Nat]
BY AnyPeerType DEF TypeOK, HReturn, HandlerPCs, NoMessage

\* A step of a callback that touches the table, or nothing but its own locals.
LEMMA HTableType ==
    ASSUME TypeOK, NEW h \in Handlers, NEW from, NEW table \in Tables,
           NEW to \in HandlerPCs \cup {"return"}, HTable(h, from, table, to)
    PROVE  TypeOK'
<1>1. hpc' \in [Handlers -> HandlerPCs] /\ hb' \in [Handlers -> Peers]
          /\ hacc' \in [Handlers -> Nat]
  <2>1. CASE to = "return"
    BY <2>1, HReturnType DEF HTable
  <2>2. CASE to # "return"
    BY <2>2, HGotoType DEF HTable
  <2> QED
    BY <2>1, <2>2
<1> QED
  BY <1>1 DEF HTable, Update, TypeOK, writerVars, punchVars, seenVars

\* A step of a callback at the network.
LEMMA NetworkStepType ==
    ASSUME TypeOK, NEW h \in Handlers, NEW from, NEW c \in {"none", "open", "streams"},
           NEW to \in HandlerPCs, NetworkStep(h, from, c, to)
    PROVE  TypeOK'
<1>1. hpc' \in [Handlers -> HandlerPCs] /\ hb' \in [Handlers -> Peers]
          /\ hacc' \in [Handlers -> Nat]
  BY HGotoType DEF NetworkStep
<1>2. conn' \in [Peers -> {"none", "open", "streams"}]
  BY DEF NetworkStep, TypeOK
<1> QED
  BY <1>1, <1>2 DEF NetworkStep, TypeOK, invoiceVars, writerVars, punchVars, seenVars

\* Dialling leads to a connection.
LEMMA DialledType ==
    ASSUME TypeOK, NEW b \in Peers
    PROVE  Dialled(b) \in {"none", "open", "streams"} /\ conn[b] \in {"none", "open", "streams"}
BY DEF TypeOK, Dialled

\* Replacing an entry leaves an entry to the invoice loop.
LEMMA ReplaceType ==
    ASSUME TypeOK, LivePointers, NEW b \in Peers, NEW table, Replace(b, table)
    PROVE  snap' \in [Peers -> NodeBufferInfo \cup {NoBuffer, Live}]
<1>0. snap \in [Peers -> NodeBufferInfo \cup {NoBuffer, Live}] /\ buffers \in Tables
  BY DEF TypeOK
<1>1. CASE snap[b] = Live
  <2>1. buffers[b] \in NodeBufferInfo
    BY <1>0, <1>1 DEF LivePointers, HasBuffer, Tables
  <2>2. Kept(buffers[b]) \in NodeBufferInfo
    BY <2>1, KeptEntry
  <2> QED
    BY <1>0, <1>1, <2>2 DEF Replace
<1>2. CASE snap[b] # Live
  BY <1>0, <1>2 DEF Replace
<1> QED
  BY <1>1, <1>2

\* A serviceRequest callback keeps the types.
LEMMA ServiceRequestType ==
    ASSUME TypeOK, LivePointers, NEW h \in Handlers, serviceRequest(h)
    PROVE  TypeOK'
<1>0. hb[h] \in Peers /\ hacc[h] \in Nat /\ buffers \in Tables
  BY DEF TypeOK
<1>1. ASSUME NEW b \in Peers, NEW a \in AccountsOf[b], TakeRequest(h, b, a)
      PROVE  TypeOK'
  <2>1. a \in Nat
    BY SellerAssumption
  <2> QED
    BY <1>1, <2>1 DEF TakeRequest, TypeOK, HandlerPCs, invoiceVars, writerVars, punchVars
<1>2. CASE TakeRequestWithoutAddress(h)
  BY <1>2 DEF TakeRequestWithoutAddress, TypeOK, handlerVars, invoiceVars, writerVars,
              punchVars, seenVars
<1>3. CASE InitialLookup(h)
  BY <1>0, <1>3, HTableType DEF InitialLookup, HandlerPCs
<1>4. CASE CheckConnection(h)
  BY <1>0, <1>4, HTableType DEF CheckConnection, HandlerPCs
<1>5. CASE CheckStream(h)
  BY <1>0, <1>5, HTableType DEF CheckStream, HandlerPCs
<1>6. CASE DialSucceeds(h)
  BY <1>0, <1>6, NetworkStepType, DialledType DEF DialSucceeds, HandlerPCs
<1>7. CASE DialFails(h)
  BY <1>0, <1>7, NetworkStepType, DialledType DEF DialFails, HandlerPCs
<1>8. CASE StreamOpens(h)
  BY <1>0, <1>8, NetworkStepType DEF StreamOpens, HandlerPCs
<1>9. CASE StreamFails(h)
  BY <1>0, <1>9, NetworkStepType, DialledType DEF StreamFails, HandlerPCs
<1>10. CASE AddConnected(h)
  <2>1. hpc' \in [Handlers -> HandlerPCs] /\ hb' \in [Handlers -> Peers]
            /\ hacc' \in [Handlers -> Nat]
    BY <1>10, HGotoType DEF AddConnected, HandlerPCs
  <2>2. buffers' \in Tables
    BY <1>0, <1>10, AddBuffer3Type DEF AddConnected, Replace, RendezvousStates, ConnectionStates
  <2>3. snap' \in [Peers -> NodeBufferInfo \cup {NoBuffer, Live}]
    BY <1>0, <1>10, ReplaceType DEF AddConnected
  <2> QED
    BY <1>10, <2>1, <2>2, <2>3 DEF AddConnected, TypeOK, writerVars, punchVars, seenVars
<1>11. CASE SendPunchMeRequest(h)
  BY <1>0, <1>11, HTableType DEF SendPunchMeRequest, HandlerPCs
<1>12. CASE MarkPunchScheduled(h)
  BY <1>0, <1>12, HTableType, UpdateLibType DEF MarkPunchScheduled, HandlerPCs, ConnectionStates
<1>13. CASE RecordAddress(h)
  BY <1>0, <1>13, HTableType, SetAddressType DEF RecordAddress, HandlerPCs, Addresses
<1>14. CASE RecordRequest(h)
  BY <1>0, <1>14, HTableType, SetRequestType DEF RecordRequest
<1> QED
  BY <1>1, <1>2, <1>3, <1>4, <1>5, <1>6, <1>7, <1>8, <1>9, <1>10, <1>11, <1>12, <1>13,
     <1>14 DEF serviceRequest

\* So does one that handles an acknowledgment.
LEMMA AcknowledgmentType ==
    ASSUME TypeOK, NEW h \in Handlers, punchMeAcknowledgment(h)
    PROVE  TypeOK'
<1>0. hb[h] \in Peers /\ buffers \in Tables
  BY DEF TypeOK
<1>1. ASSUME NEW b \in Acknowledging, TakeAcknowledgment(h, b)
      PROVE  TypeOK'
  <2>1. b \in Peers
    BY SellerAssumption
  <2> QED
    BY <1>1, <2>1 DEF TakeAcknowledgment, TypeOK, HandlerPCs, invoiceVars, writerVars,
                      punchVars, seenVars
<1>2. CASE MarkPunchInProgress(h)
  BY <1>0, <1>2, HTableType, UpdateLibType DEF MarkPunchInProgress, HandlerPCs, ConnectionStates
<1>3. CASE ScheduleSellerHolePunching(h)
  <2>1. hpc' \in [Handlers -> HandlerPCs] /\ hb' \in [Handlers -> Peers]
            /\ hacc' \in [Handlers -> Nat]
    BY <1>3, HReturnType DEF ScheduleSellerHolePunching
  <2> QED
    BY <1>0, <1>3, <2>1 DEF ScheduleSellerHolePunching, TypeOK, invoiceVars, writerVars,
                            punchVars, seenVars
<1> QED
  BY <1>1, <1>2, <1>3 DEF punchMeAcknowledgment

\* So do the punching goroutines.
LEMMA PuncherType ==
    ASSUME TypeOK, NEW q \in Punchers, Puncher(q)
    PROVE  TypeOK'
<1>0. ptgt[q] \in Peers /\ buffers \in Tables
  BY DEF TypeOK
<1>1. ASSUME NEW l \in {"idle", "dial", "completed", "stream", "connected", "failed"},
             PGoto(q, l)
      PROVE  /\ ppc' \in [Punchers -> {"idle", "sleeping", "dial", "completed", "stream",
                                       "connected", "failed"}]
             /\ ptgt' \in [Punchers -> Peers]
  BY <1>1, AnyPeerType DEF PGoto, TypeOK
<1>2. CASE PunchAddress(q)
  BY <1>1, <1>2 DEF PunchAddress, Update, PGoto, TypeOK, handlerVars, writerVars, seenVars
<1>3. CASE PunchConnect(q)
  BY <1>0, <1>1, <1>3, DialledType
     DEF PunchConnect, Update, PGoto, TypeOK, handlerVars, writerVars, seenVars
<1>4. CASE PunchStream(q)
  BY <1>0, <1>1, <1>4, DialledType
     DEF PunchStream, Update, PGoto, TypeOK, handlerVars, writerVars, seenVars
<1>5. CASE PunchRecord(q)
  <2>1. buffers' \in Tables /\ UNCHANGED <<snap, conn>>
    BY <1>0, <1>5, UpdateLibType DEF PunchRecord, Update, ConnectionStates
  <2> QED
    BY <1>1, <1>5, <2>1 DEF PunchRecord, PGoto, TypeOK, handlerVars, writerVars, seenVars
<1> QED
  BY <1>2, <1>3, <1>4, <1>5 DEF Puncher

\* So does the invoice loop, because every pointer it follows leads to an entry.
LEMMA InvoiceLoopType ==
    ASSUME TypeOK, LivePointers, ReadsHeld, InvoiceLoop
    PROVE  TypeOK'
<1>1. CASE InvoiceRound
  BY <1>1 DEF InvoiceRound, TypeOK, handlerVars, writerVars, punchVars, seenVars
<1>2. CASE InvoiceRead
  <2>1. ip \in Peers
    BY DEF TypeOK
  <2>2. Held(ip) \in NodeBufferInfo
    BY <1>2, <2>1, HeldType DEF InvoiceRead, ReadsHeld
  <2>3. Held(ip).msg \in Nat
    BY <2>2 DEF NodeBufferInfo
  <2>4. snap' \in [Peers -> NodeBufferInfo \cup {NoBuffer, Live}]
    BY <1>2, <2>1 DEF InvoiceRead, TypeOK
  <2> QED
    BY <1>2, <2>3, <2>4 DEF InvoiceRead, TypeOK, handlerVars, writerVars, punchVars, seenVars
<1>3. CASE InvoiceSend
  BY <1>3 DEF InvoiceSend, TypeOK, handlerVars, writerVars, punchVars, seenVars
<1>4. CASE InvoiceSleep
  BY <1>4, AnyPeerType
     DEF InvoiceSleep, TypeOK, handlerVars, writerVars, punchVars, seenVars, NoMessage
<1>5. ASSUME NEW b \in Peers, InvoiceEntry(b)
      PROVE  TypeOK'
  BY <1>5 DEF InvoiceEntry, TypeOK, handlerVars, writerVars, punchVars, seenVars
<1> QED
  BY <1>1, <1>2, <1>3, <1>4, <1>5 DEF InvoiceLoop

\* So does the application.
LEMMA ApplicationType ==
    ASSUME TypeOK, LivePointers, Application
    PROVE  TypeOK'
<1>0. wp \in Peers /\ buffers \in Tables
  BY DEF TypeOK
<1>1. ASSUME NEW l \in {"idle", "write", "lost", "count", "remove"}, NEW b \in Peers,
             WGoto(l, b), buffers' \in Tables,
             snap' \in [Peers -> NodeBufferInfo \cup {NoBuffer, Live}]
      PROVE  TypeOK'
  BY <1>1 DEF WGoto, TypeOK, handlerVars, punchVars, seenVars
<1>2. CASE WriteEnds
  BY <1>0, <1>1, <1>2, AnyPeerType DEF WriteEnds, Update, TypeOK
<1>3. CASE WriteFailed
  <2>1. CASE wpc = "lost" /\ WGoto("count", wp)
               /\ Update(UpdateBufferLibP2PState(buffers, wp, "ConnectionLost"))
    BY <1>0, <1>1, <2>1, UpdateLibType DEF Update, TypeOK, ConnectionStates
  <2>2. CASE wpc = "count" /\ WGoto("remove", wp)
               /\ Update(IncrementReconnectAttempts(buffers, wp))
    BY <1>0, <1>1, <2>2, IncrementType DEF Update, TypeOK
  <2>3. CASE wpc = "remove" /\ WGoto("idle", AnyPeer)
               /\ Replace(wp, RemoveBuffer(buffers, wp))
    <3>1. buffers' \in Tables
      BY <1>0, <2>3, RemoveBufferType DEF Replace
    <3>2. snap' \in [Peers -> NodeBufferInfo \cup {NoBuffer, Live}]
      BY <1>0, <2>3, ReplaceType
    <3> QED
      BY <1>1, <2>3, <3>1, <3>2, AnyPeerType
  <2> QED
    BY <1>3, <2>1, <2>2, <2>3 DEF WriteFailed
<1>4. ASSUME NEW b \in Peers, WriteBegins(b)
      PROVE  TypeOK'
  BY <1>0, <1>1, <1>4 DEF WriteBegins, Update, TypeOK
<1>5. ASSUME NEW b \in Peers, AppStoresAddress(b)
      PROVE  TypeOK'
  <2>1. buffers' \in Tables /\ UNCHANGED snap
    BY <1>0, <1>5, SetAddressType DEF AppStoresAddress, Update, Addresses
  <2> QED
    BY <1>5, <2>1 DEF AppStoresAddress, TypeOK, handlerVars, writerVars, punchVars, seenVars
<1> QED
  BY <1>2, <1>3, <1>4, <1>5 DEF Application

\* A seller that starts, or starts again, has the right types.
LEMMA InitType == ASSUME Init PROVE TypeOK
BY AnyPeerType, NewBuffersType DEF Init, TypeOK, HandlerPCs, NoMessage

\* Restart is Init in the primed variables.
LEMMA RestartType == ASSUME Restart PROVE TypeOK'
BY AnyPeerType, NewBuffersType DEF Restart, TypeOK, HandlerPCs, NoMessage

\* Every step keeps the types.
LEMMA TypeStep ==
    ASSUME TypeOK, LivePointers, ReadsHeld, [Next]_vars
    PROVE  TypeOK'
<1>1. ASSUME NEW b \in Peers, ConnectionDrops(b)
      PROVE  TypeOK'
  BY <1>1 DEF ConnectionDrops, TypeOK, handlerVars, invoiceVars, writerVars, punchVars, seenVars
<1>2. CASE UNCHANGED vars
  BY <1>2 DEF vars, TypeOK
<1> QED
  BY <1>1, <1>2, ServiceRequestType, AcknowledgmentType, PuncherType, InvoiceLoopType,
     ApplicationType, RestartType DEF Next, Running, Callback

-----------------------------------------------------------------------------
(* Requests.                                                               *)

\* Callbacks keep or drop the request they have in hand, and none that was in
\* the window of a buyer leaves it.
KeepsHandlers ==
    \A h \in Handlers :
        /\ hpc'[h] \in ServingPCs =>
              hpc[h] \in ServingPCs /\ hb'[h] = hb[h] /\ hacc'[h] = hacc[h]
        /\ hpc[h] \in WindowPCs => hpc'[h] \in WindowPCs /\ hb'[h] = hb[h]

\* The invoice loop does not move, and nothing is requested or forgotten.
KeepsInvoice == UNCHANGED <<ipc, snap, ip, iacc, requested>>

\* A step that makes and removes no entry, and stores no request, keeps what
\* the invariant says of requests.
LEMMA SetterStep ==
    ASSUME IInv, buffers' \in Tables, SameRequests(buffers, buffers'), KeepsHandlers, KeepsInvoice
    PROVE  Requested'
<1>1. LivePointers'
  BY DEF IInv, Requested, LivePointers, SameRequests, KeepsInvoice
<1>2. ReadsHeld'
  BY DEF IInv, Requested, ReadsHeld, KeepsInvoice
<1>3. RequestsInHand'
  BY DEF IInv, Requested, RequestsInHand, KeepsHandlers, KeepsInvoice
<1>4. EntriesRequested'
  BY DEF IInv, Requested, EntriesRequested, SameRequests, KeepsInvoice
<1>5. KeptRequested'
  BY DEF IInv, Requested, KeptRequested, KeepsInvoice
<1>6. InvoicesWereRequested'
  BY DEF IInv, Requested, InvoicesWereRequested, KeepsInvoice
<1>7. NilRequestWindow'
  <2> SUFFICES ASSUME NEW b \in Peers, HasBuffer(buffers', b), buffers'[b].msg = NoMessage
               PROVE  Recording(b)' # {}
    BY DEF NilRequestWindow
  <2>1. HasBuffer(buffers, b) /\ buffers[b].msg = NoMessage
    BY DEF SameRequests
  <2>2. PICK h \in Handlers : hb[h] = b /\ hpc[h] \in WindowPCs
    BY <2>1 DEF IInv, Requested, NilRequestWindow, Recording, WindowPCs
  <2>3. hb'[h] = b /\ hpc'[h] \in WindowPCs
    BY <2>2 DEF KeepsHandlers
  <2> QED
    BY <2>3 DEF Recording, WindowPCs
<1> QED
  BY <1>1, <1>2, <1>3, <1>4, <1>5, <1>6, <1>7 DEF Requested

\* A callback that goes on with the same request, or has none, keeps the
\* callbacks; it may leave the window only after it stored the request.
LEMMA GotoKeeps ==
    ASSUME TypeOK, NEW h \in Handlers, NEW l \in HandlerPCs, HGoto(h, l),
           l \in ServingPCs => hpc[h] \in ServingPCs,
           hpc[h] \in WindowPCs => l \in WindowPCs
    PROVE  KeepsHandlers
BY DEF TypeOK, HGoto, KeepsHandlers

\* Callbacks that do not move keep the callbacks.
LEMMA StillKeeps == ASSUME UNCHANGED handlerVars PROVE KeepsHandlers
BY DEF handlerVars, KeepsHandlers

\* A setter called by a callback that goes on.
LEMMA TableStep ==
    ASSUME IInv, NEW h \in Handlers, NEW from, NEW table \in Tables,
           SameRequests(buffers, table), NEW to \in HandlerPCs, HTable(h, from, table, to),
           to \in ServingPCs => from \in ServingPCs,
           from \in WindowPCs => to \in WindowPCs
    PROVE  Requested'
<1>1. to # "return"
  BY DEF HandlerPCs
<1>2. KeepsHandlers
  BY <1>1, GotoKeeps DEF HTable, IInv
<1>3. KeepsInvoice
  BY DEF HTable, Update, KeepsInvoice, seenVars
<1> QED
  BY <1>2, <1>3, SetterStep DEF HTable, Update

\* A network step of a callback.
LEMMA NetStep ==
    ASSUME IInv, NEW h \in Handlers, NEW from \in ServingPCs \ WindowPCs, NEW c,
           NEW to \in HandlerPCs, NetworkStep(h, from, c, to)
    PROVE  Requested'
<1>1. KeepsHandlers
  BY GotoKeeps DEF NetworkStep, IInv
<1>2. KeepsInvoice
  BY DEF NetworkStep, KeepsInvoice, invoiceVars, seenVars
<1>3. buffers' \in Tables /\ SameRequests(buffers, buffers')
  BY SameTable DEF NetworkStep, IInv, TypeOK
<1> QED
  BY <1>1, <1>2, <1>3, SetterStep

\* A request that arrives adds to what was requested.
LEMMA TakeRequestStep ==
    ASSUME IInv, NEW h \in Handlers, NEW b \in Peers, NEW a \in AccountsOf[b],
           TakeRequest(h, b, a)
    PROVE  Requested'
<1>0. a \in Nat /\ a # NoMessage
  BY SellerAssumption
<1>1. \A q \in Peers : requested[q] \subseteq requested'[q]
  BY DEF TakeRequest, IInv, TypeOK
<1>2. a \in requested'[b]
  BY DEF TakeRequest, IInv, TypeOK
<1>3. LivePointers' /\ ReadsHeld'
  BY DEF IInv, Requested, LivePointers, ReadsHeld, TakeRequest, invoiceVars
<1>4. RequestsInHand'
  <2> SUFFICES ASSUME NEW g \in Handlers, hpc'[g] \in ServingPCs
               PROVE  hacc'[g] \in requested'[hb'[g]] /\ hacc'[g] # NoMessage
    BY DEF RequestsInHand
  <2>1. CASE g = h
    BY <1>0, <1>2, <2>1 DEF TakeRequest, IInv, TypeOK
  <2>2. CASE g # h
    <3>1. hpc'[g] = hpc[g] /\ hb'[g] = hb[g] /\ hacc'[g] = hacc[g] /\ hb[g] \in Peers
      BY <2>2 DEF TakeRequest, IInv, TypeOK
    <3> QED
      BY <1>1, <3>1 DEF IInv, Requested, RequestsInHand
  <2> QED
    BY <2>1, <2>2
<1>5. EntriesRequested' /\ KeptRequested'
  BY <1>1 DEF IInv, Requested, EntriesRequested, KeptRequested, TakeRequest, invoiceVars
<1>6. InvoicesWereRequested'
  BY <1>1 DEF IInv, Requested, InvoicesWereRequested, TakeRequest, invoiceVars, TypeOK
<1>7. NilRequestWindow'
  <2> SUFFICES ASSUME NEW p \in Peers, HasBuffer(buffers', p), buffers'[p].msg = NoMessage
               PROVE  Recording(p)' # {}
    BY DEF NilRequestWindow
  <2>1. PICK g \in Handlers : hb[g] = p /\ hpc[g] \in WindowPCs
    BY DEF IInv, Requested, NilRequestWindow, Recording, WindowPCs, TakeRequest
  <2>2. g # h
    BY <2>1 DEF TakeRequest, WindowPCs
  <2>3. hb'[g] = p /\ hpc'[g] \in WindowPCs
    BY <2>1, <2>2 DEF TakeRequest, IInv, TypeOK
  <2> QED
    BY <2>3 DEF Recording, WindowPCs
<1> QED
  BY <1>3, <1>4, <1>5, <1>6, <1>7 DEF Requested

\* Replacing the entry of a buyer leaves the one that the invoice loop holds
\* to the loop, with its request.
LEMMA ReplaceStep ==
    ASSUME IInv, NEW b \in Peers, NEW table \in Tables, Replace(b, table),
           \A q \in Peers : q # b => table[q] = buffers[q],
           HasBuffer(table, b) => table[b].msg = NoMessage,
           UNCHANGED <<ipc, ip, iacc, requested>>
    PROVE  LivePointers' /\ ReadsHeld' /\ EntriesRequested' /\ KeptRequested'
               /\ InvoicesWereRequested'
<1>0. snap \in [Peers -> NodeBufferInfo \cup {NoBuffer, Live}] /\ buffers \in Tables
        /\ ip \in Peers
  BY DEF IInv, TypeOK
<1>1. snap'[b] # Live /\ (snap[b] # NoBuffer => snap'[b] # NoBuffer)
  <2>1. CASE snap[b] = Live
    <3>1. snap'[b] = Kept(buffers[b]) /\ buffers[b] \in NodeBufferInfo
      BY <1>0, <2>1 DEF Replace, IInv, Requested, LivePointers, HasBuffer, Tables
    <3> QED
      BY <3>1, KeptEntry, EntryIsNoMark
  <2>2. CASE snap[b] # Live
    BY <1>0, <2>2 DEF Replace
  <2> QED
    BY <2>1, <2>2
<1>2. \A q \in Peers : q # b => snap'[q] = snap[q] /\ buffers'[q] = buffers[q]
  BY <1>0 DEF Replace
<1>3. LivePointers'
  BY <1>1, <1>2 DEF LivePointers, IInv, Requested, HasBuffer
<1>4. ReadsHeld'
  BY <1>0, <1>1, <1>2 DEF ReadsHeld, IInv, Requested
<1>5. EntriesRequested'
  BY <1>2 DEF EntriesRequested, IInv, Requested, HasBuffer, Replace
<1>6. KeptRequested'
  <2> SUFFICES ASSUME NEW q \in Peers, snap'[q] \in NodeBufferInfo, snap'[q].msg # NoMessage
               PROVE  snap'[q].msg \in requested'[q]
    BY DEF KeptRequested
  <2>1. CASE q # b
    BY <1>2, <2>1 DEF KeptRequested, IInv, Requested
  <2>2. CASE q = b /\ snap[b] # Live
    <3>1. snap'[b] = snap[b]
      BY <1>0, <2>2 DEF Replace
    <3> QED
      BY <2>2, <3>1 DEF KeptRequested, IInv, Requested
  <2>3. CASE q = b /\ snap[b] = Live
    <3>1. snap'[b] = Kept(buffers[b]) /\ HasBuffer(buffers, b)
      BY <1>0, <2>3 DEF Replace, IInv, Requested, LivePointers
    <3>2. snap'[b].msg = buffers[b].msg
      BY <1>0, <3>1, KeptEntry DEF HasBuffer, Tables
    <3> QED
      BY <2>3, <3>1, <3>2 DEF EntriesRequested, IInv, Requested
  <2> QED
    BY <2>1, <2>2, <2>3
<1>7. InvoicesWereRequested'
  BY DEF InvoicesWereRequested, IInv, Requested
<1> QED
  BY <1>3, <1>4, <1>5, <1>6, <1>7

\* AddBuffer3 opens the window of its own callback.
LEMMA AddConnectedStep ==
    ASSUME IInv, NEW h \in Handlers, AddConnected(h)
    PROVE  Requested'
<1>0. hb[h] \in Peers /\ buffers \in Tables /\ hpc[h] = "add"
  BY DEF IInv, TypeOK, AddConnected
<1>1. PICK b \in Peers : b = hb[h]
  BY <1>0
<1>2. PICK table \in Tables : table = AddBuffer3(buffers, b, "SendOK", "Connected")
  BY <1>0, AddBuffer3Type DEF RendezvousStates, ConnectionStates
<1>3. \A q \in Peers : q # b => table[q] = buffers[q]
  BY <1>0, <1>2 DEF AddBuffer3, Tables
<1>4. table[b].msg = NoMessage
  BY <1>0, <1>2 DEF AddBuffer3, Tables
<1>5. Replace(b, table) /\ UNCHANGED <<ipc, ip, iacc, requested>>
  BY <1>1, <1>2 DEF AddConnected, seenVars
<1>6. LivePointers' /\ ReadsHeld' /\ EntriesRequested' /\ KeptRequested' /\ InvoicesWereRequested'
  BY <1>3, <1>4, <1>5, ReplaceStep
<1>7. KeepsHandlers
  BY <1>0, GotoKeeps DEF AddConnected, IInv, HandlerPCs, ServingPCs, WindowPCs
<1>8. RequestsInHand'
  BY <1>5, <1>7 DEF IInv, Requested, RequestsInHand, KeepsHandlers
<1>9. NilRequestWindow'
  <2> SUFFICES ASSUME NEW p \in Peers, HasBuffer(buffers', p), buffers'[p].msg = NoMessage
               PROVE  Recording(p)' # {}
    BY DEF NilRequestWindow
  <2>1. CASE p = b
    BY <1>0, <1>1, <2>1 DEF AddConnected, HGoto, IInv, TypeOK, Recording
  <2>2. CASE p # b
    <3>1. HasBuffer(buffers, p) /\ buffers[p].msg = NoMessage
      BY <1>3, <1>5, <2>2 DEF Replace, HasBuffer
    <3>2. PICK g \in Handlers : hb[g] = p /\ hpc[g] \in WindowPCs
      BY <3>1 DEF IInv, Requested, NilRequestWindow, Recording, WindowPCs
    <3>3. hb'[g] = p /\ hpc'[g] \in WindowPCs
      BY <3>2, <1>7 DEF KeepsHandlers
    <3> QED
      BY <3>3 DEF Recording, WindowPCs
  <2> QED
    BY <2>1, <2>2
<1> QED
  BY <1>6, <1>8, <1>9 DEF Requested

\* SetNeuronSellerRequest closes the window with the request in hand.
LEMMA RecordRequestStep ==
    ASSUME IInv, NEW h \in Handlers, RecordRequest(h)
    PROVE  Requested'
<1>0. hb[h] \in Peers /\ buffers \in Tables /\ hacc[h] \in Nat /\ hpc[h] = "setreq"
  BY DEF IInv, TypeOK, RecordRequest, HTable
<1>1. PICK b \in Peers, a \in Nat : b = hb[h] /\ a = hacc[h]
  BY <1>0
<1>2. a \in requested[b] /\ a # NoMessage
  BY <1>0, <1>1 DEF IInv, Requested, RequestsInHand, ServingPCs, HandlerPCs
<1>3. /\ \A q \in Peers : q # b => buffers'[q] = buffers[q]
      /\ HasBuffer(buffers', b) <=> HasBuffer(buffers, b)
      /\ HasBuffer(buffers, b) => buffers'[b].msg = a
  <2>1. buffers' = SetNeuronSellerRequest(buffers, b, a)
    BY <1>1 DEF RecordRequest, HTable, Update
  <2>2. CASE ~HasBuffer(buffers, b)
    BY <2>1, <2>2 DEF SetNeuronSellerRequest
  <2>3. CASE HasBuffer(buffers, b)
    <3>1. buffers[b] \in NodeBufferInfo
      BY <1>0, <2>3 DEF Tables, HasBuffer
    <3>2. PICK e : e = [buffers[b] EXCEPT !.msg = a]
      OBVIOUS
    <3>3. e \in NodeBufferInfo /\ e.msg = a
      BY <3>1, <3>2 DEF NodeBufferInfo
    <3>4. buffers' = [buffers EXCEPT ![b] = e]
      BY <2>1, <2>3, <3>2 DEF SetNeuronSellerRequest
    <3> QED
      BY <1>0, <2>3, <3>3, <3>4, EntryIsThere DEF Tables, HasBuffer
  <2> QED
    BY <2>2, <2>3
<1>4. KeepsInvoice
  BY DEF RecordRequest, HTable, Update, KeepsInvoice, seenVars
<1>5. /\ hpc'[h] = "idle"
      /\ \A g \in Handlers : g # h => hpc'[g] = hpc[g] /\ hb'[g] = hb[g] /\ hacc'[g] = hacc[g]
  BY DEF RecordRequest, HTable, HReturn, IInv, TypeOK
<1>6. LivePointers' /\ ReadsHeld' /\ KeptRequested' /\ InvoicesWereRequested'
  BY <1>3, <1>4 DEF IInv, Requested, LivePointers, ReadsHeld, KeptRequested,
                    InvoicesWereRequested, KeepsInvoice, HasBuffer
<1>7. RequestsInHand'
  BY <1>4, <1>5 DEF IInv, Requested, RequestsInHand, KeepsInvoice, ServingPCs
<1>8. EntriesRequested'
  BY <1>2, <1>3, <1>4 DEF IInv, Requested, EntriesRequested, KeepsInvoice, HasBuffer
<1>9. NilRequestWindow'
  <2> SUFFICES ASSUME NEW p \in Peers, HasBuffer(buffers', p), buffers'[p].msg = NoMessage
               PROVE  Recording(p)' # {}
    BY DEF NilRequestWindow
  <2>1. p # b
    BY <1>2, <1>3
  <2>2. HasBuffer(buffers, p) /\ buffers[p].msg = NoMessage
    BY <1>3, <2>1 DEF HasBuffer
  <2>3. PICK g \in Handlers : hb[g] = p /\ hpc[g] \in WindowPCs
    BY <2>2 DEF IInv, Requested, NilRequestWindow, Recording, WindowPCs
  <2>4. g # h
    BY <1>1, <2>1, <2>3
  <2>5. hb'[g] = p /\ hpc'[g] \in WindowPCs
    BY <1>5, <2>3, <2>4
  <2> QED
    BY <2>5 DEF Recording, WindowPCs
<1> QED
  BY <1>6, <1>7, <1>8, <1>9 DEF Requested

\* A serviceRequest callback, step by step.
LEMMA ServiceRequestStep ==
    ASSUME IInv, NEW h \in Handlers, serviceRequest(h)
    PROVE  Requested'
<1>0. hb[h] \in Peers /\ buffers \in Tables /\ TypeOK
  BY DEF IInv, TypeOK
<1>1. SameRequests(buffers, buffers)
  BY SameTable
<1>2. CASE TakeRequestWithoutAddress(h)
  <2>1. KeepsHandlers
    BY <1>2, StillKeeps DEF TakeRequestWithoutAddress
  <2>2. KeepsInvoice /\ UNCHANGED buffers
    BY <1>2 DEF TakeRequestWithoutAddress, KeepsInvoice, invoiceVars, seenVars
  <2> QED
    BY <1>0, <1>1, <2>1, <2>2, SetterStep
<1>3. CASE InitialLookup(h)
  BY <1>0, <1>1, <1>3, TableStep DEF InitialLookup, HandlerPCs, ServingPCs, WindowPCs
<1>4. CASE CheckConnection(h)
  BY <1>0, <1>1, <1>4, TableStep DEF CheckConnection, HandlerPCs, ServingPCs, WindowPCs
<1>5. CASE CheckStream(h)
  BY <1>0, <1>1, <1>5, TableStep DEF CheckStream, HandlerPCs, ServingPCs, WindowPCs
<1>6. CASE DialSucceeds(h)
  BY <1>6, NetStep DEF DialSucceeds, HandlerPCs, ServingPCs, WindowPCs
<1>7. CASE DialFails(h)
  BY <1>7, NetStep DEF DialFails, HandlerPCs, ServingPCs, WindowPCs
<1>8. CASE StreamOpens(h)
  BY <1>8, NetStep DEF StreamOpens, HandlerPCs, ServingPCs, WindowPCs
<1>9. CASE StreamFails(h)
  BY <1>9, NetStep DEF StreamFails, HandlerPCs, ServingPCs, WindowPCs
<1>11. CASE SendPunchMeRequest(h)
  BY <1>0, <1>1, <1>11, TableStep DEF SendPunchMeRequest, HandlerPCs, ServingPCs, WindowPCs
<1>12. CASE MarkPunchScheduled(h)
  BY <1>0, <1>12, TableStep, UpdateLibType
     DEF MarkPunchScheduled, HandlerPCs, ServingPCs, WindowPCs, ConnectionStates
<1>13. CASE RecordAddress(h)
  BY <1>0, <1>13, TableStep, SetAddressType
     DEF RecordAddress, HandlerPCs, ServingPCs, WindowPCs, Addresses
<1> QED
  BY <1>2, <1>3, <1>4, <1>5, <1>6, <1>7, <1>8, <1>9, <1>11, <1>12, <1>13, TakeRequestStep,
     AddConnectedStep, RecordRequestStep DEF serviceRequest

\* A callback that handles an acknowledgment has no request in hand.
LEMMA AcknowledgmentStep ==
    ASSUME IInv, NEW h \in Handlers, punchMeAcknowledgment(h)
    PROVE  Requested'
<1>0. hb[h] \in Peers /\ buffers \in Tables /\ TypeOK
  BY DEF IInv, TypeOK
<1>1. ASSUME NEW b \in Acknowledging, TakeAcknowledgment(h, b)
      PROVE  Requested'
  <2>1. KeepsHandlers
    BY <1>0, <1>1 DEF TakeAcknowledgment, TypeOK, KeepsHandlers, ServingPCs, WindowPCs
  <2>2. KeepsInvoice /\ UNCHANGED buffers
    BY <1>1 DEF TakeAcknowledgment, KeepsInvoice, invoiceVars, seenVars
  <2> QED
    BY <1>0, <2>1, <2>2, SetterStep, SameTable
<1>2. CASE MarkPunchInProgress(h)
  BY <1>0, <1>2, TableStep, UpdateLibType
     DEF MarkPunchInProgress, HandlerPCs, ServingPCs, WindowPCs, ConnectionStates
<1>3. CASE ScheduleSellerHolePunching(h)
  <2>1. KeepsHandlers
    BY <1>0, <1>3 DEF ScheduleSellerHolePunching, HReturn, TypeOK, KeepsHandlers, ServingPCs,
                      WindowPCs
  <2>2. KeepsInvoice /\ UNCHANGED buffers
    BY <1>3 DEF ScheduleSellerHolePunching, KeepsInvoice, invoiceVars, seenVars
  <2> QED
    BY <1>0, <2>1, <2>2, SetterStep, SameTable
<1> QED
  BY <1>1, <1>2, <1>3 DEF punchMeAcknowledgment

\* A punching goroutine changes states of connections only.
LEMMA PuncherStep ==
    ASSUME IInv, NEW q \in Punchers, Puncher(q)
    PROVE  Requested'
<1>0. ptgt[q] \in Peers /\ buffers \in Tables
  BY DEF IInv, TypeOK
<1>1. ASSUME NEW l, PGoto(q, l)
      PROVE  KeepsHandlers /\ UNCHANGED <<ipc, ip, iacc, requested>>
  BY <1>1, StillKeeps DEF PGoto, seenVars
<1>2. KeepsHandlers /\ UNCHANGED <<ipc, ip, iacc, requested>>
  BY <1>1 DEF Puncher, PunchAddress, PunchConnect, PunchStream, PunchRecord
<1>3. UNCHANGED snap
  BY DEF Puncher, PunchAddress, PunchConnect, PunchStream, PunchRecord, Update
<1>4. buffers' \in Tables /\ SameRequests(buffers, buffers')
  <2>1. CASE PunchRecord(q)
    BY <1>0, <2>1, UpdateLibType DEF PunchRecord, Update, ConnectionStates
  <2>2. CASE ~PunchRecord(q)
    BY <1>0, <2>2, SameTable DEF Puncher, PunchAddress, PunchConnect, PunchStream, Update
  <2> QED
    BY <2>1, <2>2
<1> QED
  BY <1>2, <1>3, <1>4, SetterStep DEF KeepsInvoice

\* The invoice loop reads only what it holds.
LEMMA InvoiceLoopStep ==
    ASSUME IInv, InvoiceLoop
    PROVE  Requested'
<1>0. /\ snap \in [Peers -> NodeBufferInfo \cup {NoBuffer, Live}] /\ buffers \in Tables
      /\ ip \in Peers /\ TypeOK
  BY DEF IInv, TypeOK
<1>1. UNCHANGED <<buffers, hpc, hb, hacc, requested>>
  BY DEF InvoiceLoop, InvoiceRound, InvoiceRead, InvoiceSend, InvoiceSleep, InvoiceEntry,
         handlerVars, seenVars
<1>2. RequestsInHand' /\ EntriesRequested' /\ NilRequestWindow'
  BY <1>1 DEF IInv, Requested, RequestsInHand, EntriesRequested, NilRequestWindow, Recording
<1>3. CASE InvoiceRound
  <2>1. \A b \in Peers : snap'[b] \notin NodeBufferInfo
    BY <1>3, NoBufferAssumption, SellerAssumption DEF InvoiceRound
  <2>2. LivePointers'
    BY <1>1, <1>3, SellerAssumption DEF InvoiceRound, LivePointers
  <2>3. ReadsHeld' /\ KeptRequested' /\ InvoicesWereRequested'
    BY <1>3, <2>1 DEF InvoiceRound, ReadsHeld, KeptRequested, InvoicesWereRequested
  <2> QED
    BY <1>2, <2>2, <2>3 DEF Requested
<1>4. ASSUME NEW b \in Peers, snap' = [snap EXCEPT ![b] = NoBuffer]
      PROVE  LivePointers' /\ KeptRequested'
  <2>1. \A q \in Peers : snap'[q] # NoBuffer => snap'[q] = snap[q]
    BY <1>0, <1>4
  <2>2. LivePointers'
    BY <1>1, <2>1, SellerAssumption DEF LivePointers, IInv, Requested
  <2>3. KeptRequested'
    BY <1>1, <2>1, NoBufferAssumption DEF KeptRequested, IInv, Requested
  <2> QED
    BY <2>2, <2>3
<1>5. CASE InvoiceRead
  <2>1. LivePointers' /\ KeptRequested'
    BY <1>0, <1>4, <1>5 DEF InvoiceRead
  <2>2. ReadsHeld'
    BY <1>5 DEF InvoiceRead, ReadsHeld
  <2>3. snap[ip] # NoBuffer
    BY <1>5 DEF InvoiceRead, ReadsHeld, IInv, Requested
  <2>4. Held(ip).msg # NoMessage => Held(ip).msg \in requested[ip]
    <3>1. CASE snap[ip] = Live
      BY <1>0, <3>1 DEF Held, IInv, Requested, LivePointers, EntriesRequested
    <3>2. CASE snap[ip] # Live
      BY <1>0, <2>3, <3>2 DEF Held, IInv, Requested, KeptRequested
    <3> QED
      BY <3>1, <3>2
  <2>5. InvoicesWereRequested'
    BY <1>1, <1>5, <2>4 DEF InvoiceRead, InvoicesWereRequested
  <2> QED
    BY <1>2, <2>1, <2>2, <2>5 DEF Requested
<1>6. CASE InvoiceSend
  BY <1>1, <1>2, <1>6 DEF InvoiceSend, IInv, Requested, LivePointers, ReadsHeld, KeptRequested,
                          InvoicesWereRequested
<1>7. CASE InvoiceSleep
  BY <1>1, <1>2, <1>7 DEF InvoiceSleep, IInv, Requested, LivePointers, ReadsHeld, KeptRequested,
                          InvoicesWereRequested
<1>8. ASSUME NEW b \in Peers, InvoiceEntry(b)
      PROVE  Requested'
  <2>1. CASE Held(b).lib = "Connected" /\ Held(b).valid
    <3>1. ipc' = "read" /\ ip' = b /\ UNCHANGED snap /\ snap[b] # NoBuffer
      BY <1>8, <2>1 DEF InvoiceEntry
    <3> QED
      BY <1>1, <1>2, <3>1 DEF IInv, Requested, LivePointers, ReadsHeld, KeptRequested,
                              InvoicesWereRequested
  <2>2. CASE ~(Held(b).lib = "Connected" /\ Held(b).valid)
    <3>1. snap' = [snap EXCEPT ![b] = NoBuffer] /\ ipc = "scan" /\ UNCHANGED ipc
      BY <1>8, <2>2 DEF InvoiceEntry
    <3>2. LivePointers' /\ KeptRequested'
      BY <1>4, <3>1
    <3>3. ReadsHeld' /\ InvoicesWereRequested'
      BY <3>1 DEF ReadsHeld, InvoicesWereRequested
    <3> QED
      BY <1>2, <3>2, <3>3 DEF Requested
  <2> QED
    BY <2>1, <2>2
<1> QED
  BY <1>3, <1>5, <1>6, <1>7, <1>8 DEF InvoiceLoop

\* The application stores no request; a failed write removes the entry.
LEMMA ApplicationStep ==
    ASSUME IInv, Application
    PROVE  Requested'
<1>0. wp \in Peers /\ buffers \in Tables
  BY DEF IInv, TypeOK
<1>1. KeepsHandlers /\ UNCHANGED <<ipc, ip, iacc, requested>>
  <2>1. UNCHANGED handlerVars /\ UNCHANGED <<ipc, ip, iacc, requested>>
    BY DEF Application, WriteEnds, WriteFailed, WriteBegins, AppStoresAddress, WGoto, seenVars
  <2> QED
    BY <2>1, StillKeeps
<1>2. ASSUME NEW table \in Tables, SameRequests(buffers, table), Update(table)
      PROVE  Requested'
  BY <1>1, <1>2, SetterStep DEF Update, KeepsInvoice
<1>3. CASE WriteEnds
  BY <1>0, <1>2, <1>3, SameTable DEF WriteEnds
<1>4. CASE WriteFailed
  <2>1. CASE Update(UpdateBufferLibP2PState(buffers, wp, "ConnectionLost"))
    BY <1>0, <1>2, <2>1, UpdateLibType DEF ConnectionStates
  <2>2. CASE Update(IncrementReconnectAttempts(buffers, wp))
    BY <1>0, <1>2, <2>2, IncrementType
  <2>3. CASE Replace(wp, RemoveBuffer(buffers, wp))
    <3>1. PICK b \in Peers, table \in Tables : b = wp /\ table = RemoveBuffer(buffers, b)
      BY <1>0, RemoveBufferType
    <3>2. /\ \A q \in Peers : q # b => table[q] = buffers[q]
          /\ ~HasBuffer(table, b)
      BY <1>0, <3>1 DEF RemoveBuffer, HasBuffer, Tables
    <3>3. Replace(b, table)
      BY <2>3, <3>1
    <3>4. LivePointers' /\ ReadsHeld' /\ EntriesRequested' /\ KeptRequested'
              /\ InvoicesWereRequested'
      BY <1>1, <3>2, <3>3, ReplaceStep
    <3>5. RequestsInHand'
      BY <1>1 DEF IInv, Requested, RequestsInHand, KeepsHandlers
    <3>6. NilRequestWindow'
      <4> SUFFICES ASSUME NEW p \in Peers, HasBuffer(buffers', p), buffers'[p].msg = NoMessage
                   PROVE  Recording(p)' # {}
        BY DEF NilRequestWindow
      <4>1. HasBuffer(buffers, p) /\ buffers[p].msg = NoMessage
        BY <3>2, <3>3 DEF Replace, HasBuffer
      <4>2. PICK g \in Handlers : hb[g] = p /\ hpc[g] \in WindowPCs
        BY <4>1 DEF IInv, Requested, NilRequestWindow, Recording, WindowPCs
      <4>3. hb'[g] = p /\ hpc'[g] \in WindowPCs
        BY <4>2, <1>1 DEF KeepsHandlers
      <4> QED
        BY <4>3 DEF Recording, WindowPCs
    <3> QED
      BY <3>4, <3>5, <3>6 DEF Requested
  <2> QED
    BY <1>4, <2>1, <2>2, <2>3 DEF WriteFailed
<1>5. ASSUME NEW b \in Peers, WriteBegins(b)
      PROVE  Requested'
  BY <1>0, <1>2, <1>5, SameTable DEF WriteBegins
<1>6. ASSUME NEW b \in Peers, AppStoresAddress(b)
      PROVE  Requested'
  BY <1>0, <1>2, <1>6, SetAddressType DEF AppStoresAddress, Addresses
<1> QED
  BY <1>3, <1>4, <1>5, <1>6 DEF Application

-----------------------------------------------------------------------------
(* The theorems.                                                           *)

\* The invariant holds when the seller starts.
LEMMA InvariantInit == ASSUME Init PROVE IInv
<1>1. TypeOK
  BY InitType
<1>2. \A b \in Peers : ~HasBuffer(buffers, b) /\ snap[b] = NoBuffer
  BY DEF Init, NewNodeBuffers, HasBuffer
<1>3. \A h \in Handlers : hpc[h] \notin ServingPCs
  BY DEF Init, ServingPCs
<1> QED
  BY <1>1, <1>2, <1>3, SellerAssumption, NoBufferAssumption
     DEF IInv, Requested, LivePointers, ReadsHeld, RequestsInHand, EntriesRequested,
         KeptRequested, InvoicesWereRequested, NilRequestWindow, Init

\* ... and when it starts again.
LEMMA RestartStep == ASSUME Restart PROVE Requested'
<1>1. \A b \in Peers : ~HasBuffer(buffers', b) /\ snap'[b] = NoBuffer
  BY DEF Restart, NewNodeBuffers, HasBuffer
<1>2. \A h \in Handlers : hpc'[h] \notin ServingPCs
  BY DEF Restart, ServingPCs
<1> QED
  BY <1>1, <1>2, SellerAssumption, NoBufferAssumption
     DEF Requested, LivePointers, ReadsHeld, RequestsInHand, EntriesRequested,
         KeptRequested, InvoicesWereRequested, NilRequestWindow, Restart

\* Every step keeps it.
LEMMA InvariantStep == IInv /\ [Next]_vars => IInv'
<1> SUFFICES ASSUME IInv, [Next]_vars
             PROVE  IInv'
  OBVIOUS
<1>1. TypeOK'
  BY TypeStep DEF IInv, Requested
<1>2. ASSUME NEW b \in Peers, ConnectionDrops(b)
      PROVE  Requested'
  <2>1. KeepsHandlers
    BY <1>2, StillKeeps DEF ConnectionDrops
  <2>2. KeepsInvoice /\ UNCHANGED buffers
    BY <1>2 DEF ConnectionDrops, KeepsInvoice, invoiceVars, seenVars
  <2> QED
    BY <1>1, <2>1, <2>2, SetterStep, SameTable DEF TypeOK
<1>3. CASE UNCHANGED vars
  <2>1. KeepsHandlers /\ KeepsInvoice /\ UNCHANGED buffers
    BY <1>3, StillKeeps DEF vars, handlerVars, KeepsInvoice
  <2> QED
    BY <1>1, <2>1, SetterStep, SameTable DEF TypeOK, IInv
<1>4. ASSUME Next PROVE Requested'
  <2>1. ASSUME NEW h \in Handlers, Callback(h)
        PROVE  Requested'
    BY <2>1, ServiceRequestStep, AcknowledgmentStep DEF Callback
  <2>2. ASSUME NEW q \in Punchers, Puncher(q)
        PROVE  Requested'
    BY <2>2, PuncherStep
  <2>3. CASE InvoiceLoop
    BY <2>3, InvoiceLoopStep
  <2>4. CASE Application
    BY <2>4, ApplicationStep
  <2>5. CASE Restart
    BY <2>5, RestartStep
  <2> QED
    BY <1>2, <1>4, <2>1, <2>2, <2>3, <2>4, <2>5 DEF Next, Running
<1> QED
  BY <1>1, <1>3, <1>4 DEF IInv

\* The variables of the seller keep their types: in particular a pointer that
\* the invoice loop follows always leads to an entry.
THEOREM TypeCorrect == Spec => []TypeOK
<1>1. Init => IInv
  BY InvariantInit
<1>2. IInv => TypeOK
  BY DEF IInv
<1> QED
  BY <1>1, <1>2, InvariantStep, PTL DEF Spec

\* However many callbacks run at once, an entry without a request exists only
\* while one of them is between AddBuffer3 and SetNeuronSellerRequest for that
\* buyer.
THEOREM NilRequestOnlyInWindow == Spec => []NilRequestWindow
<1>1. Init => IInv
  BY InvariantInit
<1>2. IInv => NilRequestWindow
  BY DEF IInv, Requested
<1> QED
  BY <1>1, <1>2, InvariantStep, PTL DEF Spec

\* However many callbacks run at once, and whatever is replaced or removed
\* under the invoice loop, an invoice names an account that the buyer it goes
\* to asked with.
THEOREM BilledAccountsWereRequested == Spec => []InvoicesWereRequested
<1>1. Init => IInv
  BY InvariantInit
<1>2. IInv => InvoicesWereRequested
  BY DEF IInv, Requested
<1> QED
  BY <1>1, <1>2, InvariantStep, PTL DEF Spec

-----------------------------------------------------------------------------
(* One callback at a time.                                                 *)

\* A callback has a request of buyer b in hand.
Served(b) == \E h \in Handlers : hpc[h] \in ServingPCs /\ hb[h] = b

\* The request in hand is the last one that was taken from its buyer ...
InHandIsLatest == \A h \in Handlers : hpc[h] \in ServingPCs => hacc[h] = latest[hb[h]]

\* ... and so is the one in the entry of a buyer who is not being served.
EntryIsLatest ==
    \A b \in Peers : HasBuffer(buffers, b) /\ ~Served(b) => buffers[b].msg = latest[b]

\* The second inductive invariant, over the first.
LatestInv == InHandIsLatest /\ EntryIsLatest

\* No callback takes a request, drops one or exchanges it for another.
KeepsServing ==
    \A h \in Handlers :
        /\ hpc'[h] \in ServingPCs <=> hpc[h] \in ServingPCs
        /\ hpc[h] \in ServingPCs => hb'[h] = hb[h] /\ hacc'[h] = hacc[h]

\* Only the entry of a buyer who is being served is made or gets a request.
OnlyServedChange ==
    \A q \in Peers :
        HasBuffer(buffers', q) /\ ~Served(q)
            => HasBuffer(buffers, q) /\ buffers'[q].msg = buffers[q].msg

\* Steps of that kind keep the invariant, however many callbacks there are.
LEMMA LatestKept ==
    ASSUME LatestInv, KeepsServing, OnlyServedChange, UNCHANGED latest
    PROVE  LatestInv'
<1>1. InHandIsLatest'
  BY DEF LatestInv, InHandIsLatest, KeepsServing
<1>2. EntryIsLatest'
  <2> SUFFICES ASSUME NEW b \in Peers, HasBuffer(buffers', b), ~Served(b)'
               PROVE  buffers'[b].msg = latest'[b]
    BY DEF EntryIsLatest
  <2>1. ~Served(b)
    BY DEF Served, KeepsServing
  <2> QED
    BY <2>1 DEF OnlyServedChange, LatestInv, EntryIsLatest
<1> QED
  BY <1>1, <1>2 DEF LatestInv

\* A table with the same requests changes no entry's request.
LEMMA SameRequestsChange == ASSUME SameRequests(buffers, buffers') PROVE OnlyServedChange
BY DEF SameRequests, OnlyServedChange

\* Callbacks that do not move keep what they have in hand.
LEMMA StillServing == ASSUME UNCHANGED handlerVars PROVE KeepsServing
BY DEF handlerVars, KeepsServing

\* So does one that goes on with its work.
LEMMA GotoServing ==
    ASSUME TypeOK, NEW h \in Handlers, NEW l \in HandlerPCs, HGoto(h, l),
           l \in ServingPCs <=> hpc[h] \in ServingPCs
    PROVE  KeepsServing
BY DEF TypeOK, HGoto, KeepsServing

\* A setter called by a callback that goes on.
LEMMA LatestTable ==
    ASSUME TypeOK, LatestInv, NEW h \in Handlers, NEW from \in HandlerPCs, NEW table,
           SameRequests(buffers, table), NEW to \in HandlerPCs, HTable(h, from, table, to),
           to \in ServingPCs <=> from \in ServingPCs
    PROVE  LatestInv'
<1>1. to # "return"
  BY DEF HandlerPCs
<1>2. KeepsServing
  BY <1>1, GotoServing DEF HTable
<1>3. OnlyServedChange /\ UNCHANGED latest
  BY SameRequestsChange DEF HTable, Update, seenVars
<1> QED
  BY <1>2, <1>3, LatestKept

\* A network step of a callback.
LEMMA LatestNet ==
    ASSUME TypeOK, LatestInv, NEW h \in Handlers, NEW from \in ServingPCs, NEW c,
           NEW to \in ServingPCs, NetworkStep(h, from, c, to)
    PROVE  LatestInv'
<1>1. KeepsServing
  BY GotoServing DEF NetworkStep, ServingPCs
<1>2. OnlyServedChange /\ UNCHANGED latest
  BY SameTable, SameRequestsChange DEF NetworkStep, seenVars
<1> QED
  BY <1>1, <1>2, LatestKept

\* A request that arrives becomes the latest one.  This is where it matters
\* that no other callback has an earlier one of the same buyer in hand.
LEMMA LatestTake ==
    ASSUME TypeOK, LatestInv, \A g, h \in Handlers : g = h,
           NEW h \in Handlers, NEW b \in Peers, NEW a \in AccountsOf[b], TakeRequest(h, b, a)
    PROVE  LatestInv'
<1>1. hpc'[h] = "lookup" /\ hb'[h] = b /\ hacc'[h] = a /\ latest'[b] = a
  BY DEF TakeRequest, TypeOK
<1>2. InHandIsLatest'
  BY <1>1 DEF InHandIsLatest
<1>3. EntryIsLatest'
  <2> SUFFICES ASSUME NEW q \in Peers, HasBuffer(buffers', q), ~Served(q)'
               PROVE  buffers'[q].msg = latest'[q]
    BY DEF EntryIsLatest
  <2>1. q # b
    BY <1>1 DEF Served, ServingPCs, HandlerPCs
  <2>2. latest'[q] = latest[q]
    BY <2>1 DEF TakeRequest, TypeOK
  <2>3. ~Served(q)
    BY DEF Served, TakeRequest, ServingPCs
  <2> QED
    BY <2>2, <2>3 DEF TakeRequest, LatestInv, EntryIsLatest
<1> QED
  BY <1>2, <1>3 DEF LatestInv

\* AddBuffer3 touches the entry of the buyer being served.
LEMMA LatestAdd ==
    ASSUME TypeOK, LatestInv, NEW h \in Handlers, AddConnected(h)
    PROVE  LatestInv'
<1>0. hb[h] \in Peers /\ buffers \in Tables /\ hpc[h] \in ServingPCs
  BY DEF TypeOK, AddConnected, ServingPCs, HandlerPCs
<1>1. KeepsServing
  BY GotoServing DEF AddConnected, ServingPCs, HandlerPCs
<1>2. \A q \in Peers : q # hb[h] => buffers'[q] = buffers[q]
  BY <1>0 DEF AddConnected, Replace, AddBuffer3, Tables
<1>3. OnlyServedChange
  BY <1>0, <1>2 DEF OnlyServedChange, Served, HasBuffer
<1> QED
  BY <1>1, <1>3, LatestKept DEF AddConnected, seenVars

\* SetNeuronSellerRequest stores the request in hand, which is the latest.
LEMMA LatestRecord ==
    ASSUME TypeOK, LatestInv, NEW h \in Handlers, RecordRequest(h)
    PROVE  LatestInv'
<1>0. hb[h] \in Peers /\ buffers \in Tables /\ hpc[h] \in ServingPCs /\ hacc[h] \in Nat
  BY DEF TypeOK, RecordRequest, HTable, ServingPCs, HandlerPCs
<1>1. hacc[h] = latest[hb[h]] /\ UNCHANGED latest
  BY <1>0 DEF LatestInv, InHandIsLatest, RecordRequest, HTable, seenVars
<1>2. /\ hpc'[h] = "idle"
      /\ \A g \in Handlers : g # h => hpc'[g] = hpc[g] /\ hb'[g] = hb[g] /\ hacc'[g] = hacc[g]
  BY DEF RecordRequest, HTable, HReturn, TypeOK
<1>3. InHandIsLatest'
  BY <1>1, <1>2 DEF LatestInv, InHandIsLatest, ServingPCs
<1>4. /\ \A q \in Peers : q # hb[h] => buffers'[q] = buffers[q]
      /\ HasBuffer(buffers', hb[h]) => buffers'[hb[h]].msg = hacc[h]
  <2>1. buffers' = SetNeuronSellerRequest(buffers, hb[h], hacc[h])
    BY DEF RecordRequest, HTable, Update
  <2>2. CASE ~HasBuffer(buffers, hb[h])
    BY <2>1, <2>2 DEF SetNeuronSellerRequest
  <2>3. CASE HasBuffer(buffers, hb[h])
    <3>1. PICK e : e = [buffers[hb[h]] EXCEPT !.msg = hacc[h]]
      OBVIOUS
    <3>2. e.msg = hacc[h]
      BY <1>0, <2>3, <3>1 DEF NodeBufferInfo, Tables, HasBuffer
    <3>3. buffers' = [buffers EXCEPT ![hb[h]] = e]
      BY <2>1, <2>3, <3>1 DEF SetNeuronSellerRequest
    <3> QED
      BY <1>0, <3>2, <3>3 DEF Tables
  <2> QED
    BY <2>2, <2>3
<1>5. EntryIsLatest'
  <2> SUFFICES ASSUME NEW q \in Peers, HasBuffer(buffers', q), ~Served(q)'
               PROVE  buffers'[q].msg = latest'[q]
    BY DEF EntryIsLatest
  <2>1. CASE q = hb[h]
    BY <1>1, <1>4, <2>1
  <2>2. CASE q # hb[h]
    <3>1. ~Served(q)
      BY <1>2, <2>2 DEF Served
    <3> QED
      BY <1>1, <1>4, <2>2, <3>1 DEF LatestInv, EntryIsLatest, HasBuffer
  <2> QED
    BY <2>1, <2>2
<1> QED
  BY <1>3, <1>5 DEF LatestInv

\* A callback, step by step.
LEMMA LatestCallback ==
    ASSUME TypeOK, LatestInv, \A g, h \in Handlers : g = h, NEW h \in Handlers, Callback(h)
    PROVE  LatestInv'
<1>0. hb[h] \in Peers /\ buffers \in Tables /\ SameRequests(buffers, buffers)
  BY SameTable DEF TypeOK
<1>2. CASE TakeRequestWithoutAddress(h)
  <2>1. KeepsServing /\ OnlyServedChange /\ UNCHANGED latest
    BY <1>0, <1>2, StillServing, SameRequestsChange DEF TakeRequestWithoutAddress, seenVars
  <2> QED
    BY <2>1, LatestKept
<1>3. CASE InitialLookup(h)
  BY <1>0, <1>3, LatestTable DEF InitialLookup, HandlerPCs, ServingPCs
<1>4. CASE CheckConnection(h)
  BY <1>0, <1>4, LatestTable DEF CheckConnection, HandlerPCs, ServingPCs
<1>5. CASE CheckStream(h)
  BY <1>0, <1>5, LatestTable DEF CheckStream, HandlerPCs, ServingPCs
<1>6. CASE DialSucceeds(h) \/ DialFails(h) \/ StreamOpens(h) \/ StreamFails(h)
  BY <1>6, LatestNet DEF DialSucceeds, DialFails, StreamOpens, StreamFails, HandlerPCs, ServingPCs
<1>7. CASE SendPunchMeRequest(h)
  BY <1>0, <1>7, LatestTable DEF SendPunchMeRequest, HandlerPCs, ServingPCs
<1>8. CASE MarkPunchScheduled(h)
  BY <1>0, <1>8, LatestTable, UpdateLibType
     DEF MarkPunchScheduled, HandlerPCs, ServingPCs, ConnectionStates
<1>9. CASE RecordAddress(h)
  BY <1>0, <1>9, LatestTable, SetAddressType DEF RecordAddress, HandlerPCs, ServingPCs, Addresses
<1>10. ASSUME NEW b \in Acknowledging, TakeAcknowledgment(h, b)
       PROVE  LatestInv'
  <2>1. KeepsServing
    BY <1>10 DEF TakeAcknowledgment, TypeOK, KeepsServing, ServingPCs
  <2>2. OnlyServedChange /\ UNCHANGED latest
    BY <1>0, <1>10, SameRequestsChange DEF TakeAcknowledgment, seenVars
  <2> QED
    BY <2>1, <2>2, LatestKept
<1>11. CASE MarkPunchInProgress(h)
  BY <1>0, <1>11, LatestTable, UpdateLibType
     DEF MarkPunchInProgress, HandlerPCs, ServingPCs, ConnectionStates
<1>12. CASE ScheduleSellerHolePunching(h)
  <2>1. KeepsServing
    BY <1>12 DEF ScheduleSellerHolePunching, HReturn, TypeOK, KeepsServing, ServingPCs
  <2>2. OnlyServedChange /\ UNCHANGED latest
    BY <1>0, <1>12, SameRequestsChange DEF ScheduleSellerHolePunching, seenVars
  <2> QED
    BY <2>1, <2>2, LatestKept
<1> QED
  BY <1>2, <1>3, <1>4, <1>5, <1>6, <1>7, <1>8, <1>9, <1>10, <1>11, <1>12, LatestTake, LatestAdd,
     LatestRecord DEF Callback, serviceRequest, punchMeAcknowledgment

\* The other goroutines store no request; a failed write removes an entry.
LEMMA LatestOthers ==
    ASSUME TypeOK, LatestInv,
           \/ \E q \in Punchers : Puncher(q)
           \/ InvoiceLoop \/ Application
           \/ \E b \in Peers : ConnectionDrops(b)
    PROVE  LatestInv'
<1>0. buffers \in Tables /\ wp \in Peers /\ SameRequests(buffers, buffers)
  BY SameTable DEF TypeOK
<1>1. UNCHANGED handlerVars /\ UNCHANGED latest
  BY DEF Puncher, PunchAddress, PunchConnect, PunchStream, PunchRecord, PGoto, InvoiceLoop,
         InvoiceRound, InvoiceEntry, InvoiceRead, InvoiceSend, InvoiceSleep, Application,
         WriteBegins, WriteEnds, WriteFailed, WGoto, AppStoresAddress, ConnectionDrops, seenVars
<1>2. OnlyServedChange
  <2>1. ASSUME NEW q \in Punchers, Puncher(q) PROVE OnlyServedChange
    <3>1. ptgt[q] \in Peers
      BY DEF TypeOK
    <3> QED
      BY <1>0, <2>1, <3>1, UpdateLibType, SameRequestsChange
         DEF Puncher, PunchAddress, PunchConnect, PunchStream, PunchRecord, Update, ConnectionStates
  <2>2. CASE InvoiceLoop
    BY <1>0, <2>2, SameRequestsChange
       DEF InvoiceLoop, InvoiceRound, InvoiceEntry, InvoiceRead, InvoiceSend, InvoiceSleep
  <2>3. CASE Replace(wp, RemoveBuffer(buffers, wp))
    BY <1>0, <2>3 DEF Replace, RemoveBuffer, Tables, OnlyServedChange, HasBuffer
  <2>4. CASE Application
    BY <1>0, <2>3, <2>4, UpdateLibType, IncrementType, SetAddressType, SameRequestsChange
       DEF Application, WriteBegins, WriteEnds, WriteFailed, AppStoresAddress, Update,
           ConnectionStates, Addresses
  <2>5. ASSUME NEW b \in Peers, ConnectionDrops(b) PROVE OnlyServedChange
    BY <1>0, <2>5, SameRequestsChange DEF ConnectionDrops
  <2> QED
    BY <2>1, <2>2, <2>4, <2>5
<1> QED
  BY <1>1, <1>2, StillServing, LatestKept

\* With one callback at a time, the entry of a buyer who is not being handled
\* holds the last request taken from him.
THEOREM QuietEntriesAreUpToDate ==
    ASSUME \A g, h \in Handlers : g = h
    PROVE  Spec => []QuietEntryHoldsLatest
<1>1. Init => IInv /\ LatestInv
  <2>1. Init => LatestInv
    BY DEF Init, LatestInv, InHandIsLatest, EntryIsLatest, ServingPCs, NewNodeBuffers, HasBuffer
  <2> QED
    BY <2>1, InvariantInit
<1>2. IInv /\ LatestInv /\ [Next]_vars => LatestInv'
  <2> SUFFICES ASSUME IInv, LatestInv, [Next]_vars
               PROVE  LatestInv'
    OBVIOUS
  <2>1. CASE Restart
    BY <2>1 DEF Restart, LatestInv, InHandIsLatest, EntryIsLatest, ServingPCs, NewNodeBuffers,
                HasBuffer
  <2>2. CASE Running
    BY <2>2, LatestCallback, LatestOthers DEF Running, IInv
  <2>3. CASE UNCHANGED vars
    BY <2>3, StillServing, SameTable, SameRequestsChange, LatestKept DEF vars, handlerVars
  <2> QED
    BY <2>1, <2>2, <2>3 DEF Next
<1>3. LatestInv => QuietEntryHoldsLatest
  BY DEF LatestInv, EntryIsLatest, QuietEntryHoldsLatest, Served, ServingPCs
<1> QED
  BY <1>1, <1>2, <1>3, InvariantStep, PTL DEF Spec
=============================================================================
