----------------------------- MODULE SellerCase -----------------------------
(***************************************************************************)
(* The seller of dapp-protocols/stream-buyer-vs-seller/seller-case.go,     *)
(* with InitialConnect and WriteAndFlushBuffer of common-lib/connection.go.*)
(*                                                                         *)
(* Four kinds of goroutine share the peer table: the topic callback, which *)
(* dials a buyer and records his request; the hourly invoice loop; the     *)
(* application, which writes to connected buyers; and the goroutines that  *)
(* punch holes.  There is one action per table operation and per outside   *)
(* call, as in BuyerCase.                                                  *)
(*                                                                         *)
(* GetBufferMap copies pointers.  The invoice loop therefore sees later    *)
(* changes of an entry it holds (snap[p] = Live) until the entry is        *)
(* replaced or removed, from when on it keeps the entry as it was last     *)
(* (snap[p] is that record).  Nothing on this side reads the age of an     *)
(* attempt, so time is left out.                                           *)
(***************************************************************************)
EXTENDS NodeBuffers

CONSTANTS AccountsOf,    \* the shared accounts each buyer's requests may name
          Live,          \* a snapshot pointer to the table's own entry
          Handlers,      \* goroutines that run the topic callback
          Punchers,      \* bound: hole punching goroutines alive at once
          Acknowledging, \* the buyers whose acknowledgments reach the seller
          AppAddresses   \* the buyers whose full peer address the application stores

ASSUME SellerAssumption ==
    /\ Peers # {}
    /\ AccountsOf \in [Peers -> SUBSET (Nat \ {NoMessage})]
    /\ Live # NoBuffer
    /\ Live \notin NodeBufferInfo
    /\ Acknowledging \subseteq Peers
    /\ AppAddresses \subseteq Peers

VARIABLES
    buffers,          \* commonlib.NodeBuffersInstance
    conn,             \* libp2p: no connection, a connection, one with a stream
    hpc, hb, hacc,    \* the callbacks: where, which buyer, whose request
    ipc, snap, ip, iacc,    \* the invoice loop
    wpc, wp,          \* the application's write loop
    ppc, ptgt,        \* the hole punching goroutines
    crashed,          \* a log.Panic that ended the process, and why
    \* Observers, never read by an action's guard.
    requested,        \* accounts in the requests taken from each buyer since the start
    latest            \* account of the last request taken from each buyer

handlerVars == <<hpc, hb, hacc>>
invoiceVars == <<ipc, snap, ip, iacc>>
writerVars  == <<wpc, wp>>
punchVars   == <<ppc, ptgt>>
seenVars    == <<requested, latest>>
vars == <<buffers, conn, hpc, hb, hacc, ipc, snap, ip, iacc, wpc, wp,
          ppc, ptgt, crashed, requested, latest>>

AnyPeer == CHOOSE b \in Peers : TRUE

HandlerPCs ==
    {"idle", "lookup", "check", "handler", "dial", "stream", "retry", "add",
     "punch", "mark", "setaddr", "setreq", "ack", "schedule"}

TypeOK ==
    /\ buffers \in Tables
    /\ conn \in [Peers -> {"none", "open", "streams"}]
    /\ hpc \in [Handlers -> HandlerPCs]
    /\ hb \in [Handlers -> Peers]
    /\ hacc \in [Handlers -> Nat]
    /\ ipc \in {"sleep", "scan", "read", "bill"}
    /\ snap \in [Peers -> NodeBufferInfo \cup {NoBuffer, Live}]
    /\ ip \in Peers
    /\ iacc \in Nat
    /\ wpc \in {"idle", "write", "lost", "count", "remove"}
    /\ wp \in Peers
    /\ ppc \in [Punchers -> {"idle", "sleeping", "dial", "completed", "stream",
                             "connected", "failed"}]
    /\ ptgt \in [Punchers -> Peers]
    /\ crashed \in {"no", "address", "nilRequest", "ledger"}
    /\ requested \in [Peers -> SUBSET Nat]
    /\ latest \in [Peers -> Nat]

Init ==
    /\ buffers = NewNodeBuffers
    /\ conn = [b \in Peers |-> "none"]
    /\ hpc = [h \in Handlers |-> "idle"]
    /\ hb = [h \in Handlers |-> AnyPeer]
    /\ hacc = [h \in Handlers |-> NoMessage]
    /\ ipc = "sleep" /\ snap = [b \in Peers |-> NoBuffer]
    /\ ip = AnyPeer /\ iacc = NoMessage
    /\ wpc = "idle" /\ wp = AnyPeer
    /\ ppc = [q \in Punchers |-> "idle"] /\ ptgt = [q \in Punchers |-> AnyPeer]
    /\ crashed = "no"
    /\ requested = [b \in Peers |-> {}]
    /\ latest = [b \in Peers |-> NoMessage]

-----------------------------------------------------------------------------
(* The table, as the invoice loop's pointers see it.                       *)

\* A setter changes the entry in place.
Update(table) == buffers' = table /\ UNCHANGED snap

\* What the loop still reads of an entry that is no longer in the table: its
\* request, its validity and whether it says Connected.
Kept(entry) ==
    [entry EXCEPT !.addr = "none", !.rdv = "NotInitiated",
                  !.lib = IF @ = "Connected" THEN @ ELSE "ConnectionLost"]

\* AddBuffer3 and RemoveBuffer leave an older entry to whoever still holds it.
Replace(b, table) ==
    /\ buffers' = table
    /\ snap' = [snap EXCEPT ![b] = IF @ = Live THEN Kept(buffers[b]) ELSE @]

Held(b) == IF snap[b] = Live THEN buffers[b] ELSE snap[b]

-----------------------------------------------------------------------------
(* The topic callback.                                                     *)

HGoto(h, l) == hpc' = [hpc EXCEPT ![h] = l] /\ UNCHANGED <<hb, hacc>>

HReturn(h) ==
    /\ hpc' = [hpc EXCEPT ![h] = "idle"]
    /\ hb' = [hb EXCEPT ![h] = AnyPeer]
    /\ hacc' = [hacc EXCEPT ![h] = NoMessage]

HTable(h, from, table, to) ==
    /\ hpc[h] = from
    /\ Update(table)
    /\ IF to = "return" THEN HReturn(h) ELSE HGoto(h, to)
    /\ UNCHANGED <<conn, ipc, ip, iacc, writerVars, punchVars, crashed, seenVars>>

\* A serviceRequest that passes every check: version, shared account, keys,
\* decryption, an address with the forced protocol.  A request that fails one
\* of the first four is answered or dropped and changes nothing here.
TakeRequest(h, b, a) ==
    /\ hpc[h] = "idle"
    /\ hpc' = [hpc EXCEPT ![h] = "lookup"]
    /\ hb' = [hb EXCEPT ![h] = b]
    /\ hacc' = [hacc EXCEPT ![h] = a]
    /\ requested' = [requested EXCEPT ![b] = @ \cup {a}]
    /\ latest' = [latest EXCEPT ![b] = a]
    /\ UNCHANGED <<buffers, conn, invoiceVars, writerVars, punchVars, crashed>>

\* None of the buyer's addresses has the forced protocol: AddrInfoFromString
\* of the empty string fails, and the handler panics.
TakeRequestWithoutAddress(h) ==
    /\ hpc[h] = "idle"
    /\ crashed' = "address"
    /\ UNCHANGED <<buffers, conn, handlerVars, invoiceVars, writerVars, punchVars, seenVars>>

\* InitialConnect: is there an entry that says Connected?
InitialLookup(h) ==
    HTable(h, "lookup", buffers,
           IF HasBuffer(buffers, hb[h]) /\ buffers[hb[h]].lib = "Connected"
             THEN "check" ELSE "dial")

\* Mutant: an entry that says Connected is believed.
CheckConnection_Trusts(h) == HTable(h, "check", buffers, "setaddr")

\* It does: a missing connection is dialled.
CheckConnection(h) ==
    HTable(h, "check", buffers, IF conn[hb[h]] = "none" THEN "dial" ELSE "handler")

\* GetStreamHandler: an open stream is all we need, a missing one is an error.
\* A connection that closes at this moment is an error or a reason to dial.
CheckStream(h) ==
    \/ conn[hb[h]] = "streams" /\ HTable(h, "handler", buffers, "setaddr")
    \/ conn[hb[h]] # "streams" /\ HTable(h, "handler", buffers, "punch")
    \/ conn[hb[h]] = "none" /\ HTable(h, "handler", buffers, "dial")

NetworkStep(h, from, c, to) ==
    /\ hpc[h] = from
    /\ conn' = [conn EXCEPT ![hb[h]] = c]
    /\ HGoto(h, to)
    /\ UNCHANGED <<buffers, invoiceVars, writerVars, punchVars, crashed, seenVars>>

\* The state of a connection after a dial that succeeds.
Dialled(b) == IF conn[b] = "none" THEN "open" ELSE conn[b]

DialSucceeds(h) == NetworkStep(h, "dial", Dialled(hb[h]), "stream")

DialFails(h) == NetworkStep(h, "dial", conn[hb[h]], "punch")

\* NewStream, and once more when it fails: the connection is closed first,
\* and NewStream dials again by itself.
StreamOpens(h) ==
    \/ NetworkStep(h, "stream", "streams", "add")
    \/ NetworkStep(h, "retry", "streams", "add")

StreamFails(h) ==
    \/ NetworkStep(h, "stream", "none", "retry")
    \/ NetworkStep(h, "retry", conn[hb[h]], "punch")
    \/ NetworkStep(h, "retry", Dialled(hb[h]), "punch")

AddConnected(h) ==
    /\ hpc[h] = "add"
    /\ HGoto(h, "setaddr")
    /\ Replace(hb[h], AddBuffer3(buffers, hb[h], "SendOK", "Connected"))
    /\ UNCHANGED <<conn, ipc, ip, iacc, writerVars, punchVars, crashed, seenVars>>

\* The punchMeRequest is sent, or a DialError instead of it.
SendPunchMeRequest(h) ==
    HTable(h, "punch", buffers, "mark") \/ HTable(h, "punch", buffers, "setaddr")

MarkPunchScheduled(h) ==
    HTable(h, "mark", UpdateBufferLibP2PState(buffers, hb[h], "HolePunchingScheduled"),
           "setaddr")

\* Mutant: the list of addresses is stored instead of the one in use.
RecordAddress_Raw(h) ==
    HTable(h, "setaddr", SetLastOtherSideMultiAddress(buffers, hb[h], "list"), "setreq")

\* addrInfo.Addrs[0] has lost its /p2p part.
RecordAddress(h) ==
    HTable(h, "setaddr", SetLastOtherSideMultiAddress(buffers, hb[h], "transport"), "setreq")

\* Mutant: the request is never stored.
RecordRequest_Skipped(h) == HTable(h, "setreq", buffers, "return")

RecordRequest(h) ==
    HTable(h, "setreq", SetNeuronSellerRequest(buffers, hb[h], hacc[h]), "return")

serviceRequest(h) ==
    \/ \E b \in Peers : \E a \in AccountsOf[b] : TakeRequest(h, b, a)
    \/ TakeRequestWithoutAddress(h)
    \/ InitialLookup(h) \/ CheckConnection(h) \/ CheckStream(h)
    \/ DialSucceeds(h) \/ DialFails(h) \/ StreamOpens(h) \/ StreamFails(h)
    \/ AddConnected(h) \/ SendPunchMeRequest(h) \/ MarkPunchScheduled(h)
    \/ RecordAddress(h) \/ RecordRequest(h)

TakeAcknowledgment(h, b) ==
    /\ hpc[h] = "idle"
    /\ hpc' = [hpc EXCEPT ![h] = "ack"]
    /\ hb' = [hb EXCEPT ![h] = b]
    /\ UNCHANGED hacc
    /\ UNCHANGED <<buffers, conn, invoiceVars, writerVars, punchVars, crashed, seenVars>>

MarkPunchInProgress(h) ==
    HTable(h, "ack", UpdateBufferLibP2PState(buffers, hb[h], "HolePunchingInProgress"),
           "schedule")

\* A goroutine that sleeps until consensus time + delay, unless the timestamp
\* in the acknowledgment does not parse.
ScheduleSellerHolePunching(h) ==
    /\ hpc[h] = "schedule"
    /\ \/ UNCHANGED punchVars
       \/ \E q \in Punchers :
             /\ ppc[q] = "idle"
             /\ ppc' = [ppc EXCEPT ![q] = "sleeping"]
             /\ ptgt' = [ptgt EXCEPT ![q] = hb[h]]
    /\ HReturn(h)
    /\ UNCHANGED <<buffers, conn, invoiceVars, writerVars, crashed, seenVars>>

punchMeAcknowledgment(h) ==
    \/ \E b \in Acknowledging : TakeAcknowledgment(h, b)
    \/ MarkPunchInProgress(h) \/ ScheduleSellerHolePunching(h)

-----------------------------------------------------------------------------
(* performSellerHolePunching, in a goroutine of its own.                   *)

PGoto(q, l) ==
    /\ ppc' = [ppc EXCEPT ![q] = l]
    /\ ptgt' = IF l = "idle" THEN [ptgt EXCEPT ![q] = AnyPeer] ELSE ptgt
    /\ UNCHANGED <<handlerVars, ipc, ip, iacc, writerVars, crashed, seenVars>>

\* Only an address with a /p2p part makes an AddrInfo.
ParsesAsPeer(addr) == addr = "p2p"

PunchAddress(q) ==
    /\ ppc[q] = "sleeping"
    /\ PGoto(q, IF HasBuffer(buffers, ptgt[q]) /\ ParsesAsPeer(buffers[ptgt[q]].addr)
                  THEN "dial" ELSE "idle")
    /\ Update(buffers) /\ UNCHANGED conn

PunchConnect(q) ==
    /\ ppc[q] = "dial"
    /\ \/ conn' = [conn EXCEPT ![ptgt[q]] = Dialled(ptgt[q])] /\ PGoto(q, "completed")
       \/ UNCHANGED conn /\ PGoto(q, "failed")
    /\ Update(buffers)

PunchStream(q) ==
    /\ ppc[q] = "stream"
    /\ \/ conn' = [conn EXCEPT ![ptgt[q]] = "streams"] /\ PGoto(q, "connected")
       \/ UNCHANGED conn /\ PGoto(q, "idle")
       \/ conn' = [conn EXCEPT ![ptgt[q]] = Dialled(ptgt[q])] /\ PGoto(q, "idle")
    /\ Update(buffers)

PunchRecord(q) ==
    /\ \/ /\ ppc[q] = "completed" /\ PGoto(q, "stream")
          /\ Update(UpdateBufferLibP2PState(buffers, ptgt[q], "HolePunchingCompleted"))
       \/ /\ ppc[q] = "connected" /\ PGoto(q, "idle")
          /\ Update(UpdateBufferLibP2PState(buffers, ptgt[q], "Connected"))
       \/ /\ ppc[q] = "failed" /\ PGoto(q, "idle")
          /\ Update(UpdateBufferLibP2PState(buffers, ptgt[q], "CanNotConnectUnknownReason"))
    /\ UNCHANGED conn

Puncher(q) == PunchAddress(q) \/ PunchConnect(q) \/ PunchStream(q) \/ PunchRecord(q)

-----------------------------------------------------------------------------
(* The invoice loop.                                                       *)

InvoiceRound ==
    /\ ipc = "sleep" /\ ipc' = "scan"
    /\ snap' = [b \in Peers |-> IF HasBuffer(buffers, b) THEN Live ELSE NoBuffer]
    /\ UNCHANGED <<buffers, conn, handlerVars, ip, iacc, writerVars, punchVars, crashed, seenVars>>

\* The next entry of the copy: skipped unless it says Connected.
InvoiceEntry(b) ==
    /\ ipc = "scan" /\ snap[b] # NoBuffer
    /\ IF Held(b).lib = "Connected" /\ Held(b).valid
         THEN ipc' = "read" /\ ip' = b /\ UNCHANGED snap
         ELSE snap' = [snap EXCEPT ![b] = NoBuffer] /\ UNCHANGED <<ipc, ip>>
    /\ UNCHANGED <<buffers, conn, handlerVars, iacc, writerVars, punchVars, crashed, seenVars>>

\* Mutant: the request variable outlives the iteration, and a nil Message
\* leaves the previous buyer's request in it.
InvoiceRead_Carried ==
    /\ ipc = "read" /\ ipc' = "bill"
    /\ iacc' = IF Held(ip).msg = NoMessage THEN iacc ELSE Held(ip).msg
    /\ snap' = [snap EXCEPT ![ip] = NoBuffer]
    /\ UNCHANGED <<buffers, conn, handlerVars, ip, writerVars, punchVars, crashed, seenVars>>

\* A nil Message leaves the zero request, whose SharedAccID is 0.
InvoiceRead ==
    /\ ipc = "read" /\ ipc' = "bill"
    /\ iacc' = Held(ip).msg
    /\ snap' = [snap EXCEPT ![ip] = NoBuffer]
    /\ UNCHANGED <<buffers, conn, handlerVars, ip, writerVars, punchVars, crashed, seenVars>>

\* SellerSendScheduledTransferRequest reads the balance of the account: the
\* account 0.0.0 has none, and any error of the call is a panic.
InvoiceSend ==
    /\ ipc = "bill"
    /\ \/ /\ iacc # NoMessage
          /\ ipc' = "scan"
          /\ UNCHANGED crashed
       \/ /\ crashed' = IF iacc = NoMessage THEN "nilRequest" ELSE "ledger"
          /\ UNCHANGED ipc
    /\ UNCHANGED <<buffers, conn, handlerVars, snap, ip, iacc, writerVars, punchVars, seenVars>>

InvoiceSleep ==
    /\ ipc = "scan" /\ \A b \in Peers : snap[b] = NoBuffer
    /\ ipc' = "sleep" /\ ip' = AnyPeer /\ iacc' = NoMessage
    /\ UNCHANGED <<buffers, conn, handlerVars, snap, writerVars, punchVars, crashed, seenVars>>

InvoiceLoop ==
    \/ InvoiceRound \/ InvoiceRead \/ InvoiceSend \/ InvoiceSleep
    \/ \E b \in Peers : InvoiceEntry(b)

-----------------------------------------------------------------------------
(* The application: WriteAndFlushBuffer for the peers of GetBufferMap.     *)

WGoto(l, b) ==
    /\ wpc' = l /\ wp' = b
    /\ UNCHANGED <<conn, handlerVars, ipc, ip, iacc, punchVars, crashed, seenVars>>

\* Without a connection or a stream the call fails before it writes, and only
\* a copy of the entry is marked ConnectionLost.
WriteBegins(b) ==
    /\ wpc = "idle" /\ HasBuffer(buffers, b) /\ conn[b] = "streams"
    /\ WGoto("write", b) /\ Update(buffers)

\* Written; timed out, and the entry goes; or failed otherwise, and the entry
\* is marked and counted first.
WriteEnds ==
    /\ wpc = "write"
    /\ WGoto("idle", AnyPeer) \/ WGoto("remove", wp) \/ WGoto("lost", wp)
    /\ Update(buffers)

WriteFailed ==
    \/ /\ wpc = "lost" /\ WGoto("count", wp)
       /\ Update(UpdateBufferLibP2PState(buffers, wp, "ConnectionLost"))
    \/ /\ wpc = "count" /\ WGoto("remove", wp)
       /\ Update(IncrementReconnectAttempts(buffers, wp))
    \/ /\ wpc = "remove" /\ WGoto("idle", AnyPeer)
       /\ Replace(wp, RemoveBuffer(buffers, wp))

\* The application may also store the address it knows the buyer by.
AppStoresAddress(b) ==
    /\ b \in AppAddresses /\ HasBuffer(buffers, b)
    /\ Update(SetLastOtherSideMultiAddress(buffers, b, "p2p"))
    /\ UNCHANGED <<conn, handlerVars, ipc, ip, iacc, writerVars, punchVars, crashed, seenVars>>

Application ==
    \/ WriteEnds \/ WriteFailed
    \/ \E b \in Peers : WriteBegins(b) \/ AppStoresAddress(b)

-----------------------------------------------------------------------------
(* The outside world.                                                      *)

ConnectionDrops(b) ==
    /\ conn[b] # "none"
    /\ conn' \in {[conn EXCEPT ![b] = c] : c \in {"none", "open"} \ {conn[b]}}
    /\ UNCHANGED <<buffers, handlerVars, invoiceVars, writerVars, punchVars, crashed, seenVars>>

\* The process ends, by a panic or from outside, and is started again with an
\* empty table.
Restart ==
    /\ buffers' = NewNodeBuffers
    /\ conn' = [b \in Peers |-> "none"]
    /\ hpc' = [h \in Handlers |-> "idle"]
    /\ hb' = [h \in Handlers |-> AnyPeer]
    /\ hacc' = [h \in Handlers |-> NoMessage]
    /\ ipc' = "sleep" /\ snap' = [b \in Peers |-> NoBuffer]
    /\ ip' = AnyPeer /\ iacc' = NoMessage
    /\ wpc' = "idle" /\ wp' = AnyPeer
    /\ ppc' = [q \in Punchers |-> "idle"] /\ ptgt' = [q \in Punchers |-> AnyPeer]
    /\ crashed' = "no"
    /\ requested' = [b \in Peers |-> {}]
    /\ latest' = [b \in Peers |-> NoMessage]

Callback(h) == serviceRequest(h) \/ punchMeAcknowledgment(h)

Running ==
    \/ \E h \in Handlers : Callback(h)
    \/ \E q \in Punchers : Puncher(q)
    \/ InvoiceLoop
    \/ Application
    \/ \E b \in Peers : ConnectionDrops(b)

Next == (crashed = "no" /\ Running) \/ Restart

Spec == Init /\ [][Next]_vars

\* Goroutines that can run do; a dial, a stream and a punchMeRequest that are
\* tried again and again succeed in the end; buyers repeat their requests (BuyerCase's
\* KeepsAsking); a stopped process is started again.
Fairness ==
    /\ \A h \in Handlers :
         /\ WF_vars(crashed = "no" /\ Callback(h) /\ hpc[h] # "idle")
         /\ \A b \in Peers :
              /\ SF_vars(crashed = "no" /\ DialSucceeds(h) /\ hb[h] = b)
              /\ SF_vars(crashed = "no" /\ StreamOpens(h) /\ hb[h] = b)
              /\ SF_vars(crashed = "no" /\ SendPunchMeRequest(h) /\ hb[h] = b /\ hpc'[h] = "mark")
    /\ \A b \in Peers :
         SF_vars(crashed = "no" /\ \E h \in Handlers, a \in AccountsOf[b] : TakeRequest(h, b, a))
    /\ \A q \in Punchers : WF_vars(crashed = "no" /\ Puncher(q))
    /\ WF_vars(crashed # "no" /\ Restart)

FairSpec == Spec /\ Fairness

-----------------------------------------------------------------------------
(* Properties.                                                             *)

\* The callbacks between AddBuffer3 and SetNeuronSellerRequest for buyer b.
Recording(b) == {h \in Handlers : hb[h] = b /\ hpc[h] \in {"setaddr", "setreq"}}

\* An entry without a request exists only while a callback is on its way from
\* AddBuffer3 to SetNeuronSellerRequest: this window is the only time at which
\* the invoice loop can meet a nil Message in the table.
NilRequestWindow ==
    \A b \in Peers :
        HasBuffer(buffers, b) /\ buffers[b].msg = NoMessage => Recording(b) # {}

\* An invoice goes only to a buyer who sent a request, and names an account
\* from one of his own requests, although the loop works on entries that may
\* have been replaced or removed since it copied the table, and none of it
\* survives a restart.
InvoicesWereRequested ==
    ipc = "bill" /\ iacc # NoMessage => iacc \in requested[ip]

\* With one callback at a time, the entry of a buyer who is not being handled
\* holds the last request taken from him: no path through InitialConnect, no
\* failed dial and no removal in between leaves an older one.
QuietEntryHoldsLatest ==
    \A b \in Peers :
        HasBuffer(buffers, b) /\ (\A h \in Handlers : hpc[h] = "idle")
            => buffers[b].msg = latest[b]

\* Unless the seller restarts for ever, a buyer who keeps asking has a stream
\* again and again, however often connections and streams drop, writes fail or
\* holes are punched.  A stale Connected entry does not stop that: it makes
\* InitialConnect dial when there is no connection, and when there is one
\* without a stream, InitialConnect refuses, but the punchMeRequest that
\* follows takes the Connected away and the next request dials.
AskingBuyerIsServed ==
    \/ []<><<Restart>>_vars
    \/ \A b \in Peers : []<>(conn[b] = "streams")

\* The invoice loop sends an invoice for each connected buyer: it never
\* reaches the call with a request that was not stored yet.
NoInvoiceWithoutRequest == crashed # "nilRequest"

\* The invoice loop skips buyers who are not connected.
SkipsUnconnected ==
    [][ipc = "scan" /\ ipc' = "read" => conn[ip'] # "none"]_vars

\* After a punchMeRequest was sent the entry of the buyer says that hole
\* punching is under way.
PunchIsRecorded ==
    [][\A h \in Handlers : hpc[h] = "mark" /\ hpc'[h] = "setaddr" =>
         HasBuffer(buffers', hb[h]) /\ buffers'[hb[h]].lib = "HolePunchingScheduled"]_vars

\* An AddrInfo can be created from the address stored for a known buyer, so
\* his acknowledgment is followed by a dial.
StoredAddressCanBeDialled ==
    [][\A q \in Punchers :
         /\ ppc[q] = "sleeping" /\ ppc'[q] # "sleeping"
         /\ HasBuffer(buffers, ptgt[q]) /\ HasBuffer(buffers', ptgt[q])
         => ppc'[q] = "dial"]_vars
=============================================================================
