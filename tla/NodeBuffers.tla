---------------------------- MODULE NodeBuffers ----------------------------
(***************************************************************************)
(* The peer table of common-lib/buffers.go: one NodeBufferInfo for every   *)
(* remote peer the node deals with, behind one RWMutex.  Every method of   *)
(* NodeBuffers takes the lock once, so each is one operator from tables to *)
(* tables, and the goroutines of BuyerCase and SellerCase interleave       *)
(* between the calls.                                                      *)
(*                                                                         *)
(* Two fields are abstracted.  LastConnectionAttempt is kept as its age,   *)
(* since, in units of the initial backoff (30 s); the age stops growing at *)
(* MaxBackoff, beyond which no test can tell ages apart.                   *)
(* NoOfConnectionAttempts stops growing at MaxAttempts, from where on the  *)
(* backoff stays the same: zero, since the product that IsRequestTooEarly  *)
(* computes has lost its last bit.  RetryBackoff keeps the exact counter   *)
(* and the exact 64-bit arithmetic, and shows which counts are Wrapped.    *)
(* RequestOrResponse is the SharedAccID of the request in the envelope,    *)
(* NoMessage for an envelope whose Message is nil.  The fields that only   *)
(* reports read (NextScheduledConnectionAttempt, LastGoodsReceivedTime)    *)
(* and NextScheduleRequestTime, which is never later than now, are left    *)
(* out.                                                                    *)
(***************************************************************************)
EXTENDS Integers

CONSTANTS Peers,        \* the remote peers
          NoBuffer,     \* what the map lookup of an absent peer yields
          MaxAttempts,  \* bound: attempts from which on the product is zero
          MaxDoublings, \* doublings that take the backoff to its cap
          MaxBackoff,   \* the 12 h cap, in units of the initial backoff
          Wrapped       \* attempts at which the product is zero or negative

ASSUME AttemptsAssumption ==
    /\ MaxAttempts \in Nat
    /\ MaxDoublings \in 0..MaxAttempts
    /\ MaxBackoff \in Nat
    /\ 2 ^ MaxDoublings >= MaxBackoff

ASSUME WrapAssumption == Wrapped \subseteq 0..MaxAttempts /\ MaxAttempts \in Wrapped

\* What a power is.  It is assumed because the provers know no exponentiation.
ASSUME PowersAssumption ==
    \A n \in 0..MaxDoublings : 2 ^ n = IF n = 0 THEN 1 ELSE 2 * 2 ^ (n - 1)

NoMessage == 0

ConnectionStates ==
    {"ConnectionLost", "ConnectionLostFlushError", "ConnectionLostWriteError",
     "CanNotConnectUnknownReason", "CanNotConnectStreamError", "Connected",
     "Connecting", "Reconnecting", "HolePunchingScheduled",
     "HolePunchingInProgress", "HolePunchingCompleted"}

RendezvousStates ==
    {"NotInitiated", "SendOK", "SendFail", "ReceivedOK", "ReceivedFail",
     "WeDoNotKnowPeer", "HoldYourHorses"}

\* What LastOtherSideMultiAddress can hold, told apart by what
\* peer.AddrInfoFromString makes of it: nothing, a transport address with no
\* /p2p part, or a full peer address.
Addresses == {"none", "transport", "p2p"}

NodeBufferInfo ==
    [valid     : BOOLEAN,            \* IsOtherSideValidAccount
     rdv       : RendezvousStates,   \* RendezvousState
     lib       : ConnectionStates,   \* LibP2PState
     attempts  : 0..MaxAttempts,     \* NoOfConnectionAttempts
     since     : 0..MaxBackoff,      \* age of LastConnectionAttempt
     msg       : Nat,                \* RequestOrResponse.Message
     addr      : Addresses]          \* LastOtherSideMultiAddress

ASSUME NoBufferAssumption == NoBuffer \notin NodeBufferInfo

Tables == [Peers -> NodeBufferInfo \cup {NoBuffer}]

NewNodeBuffers == [p \in Peers |-> NoBuffer]

HasBuffer(b, p) == b[p] # NoBuffer

BufferedPeers(b) == {p \in Peers : HasBuffer(b, p)}

CappedSucc(n, cap) == IF n < cap THEN n + 1 ELSE cap

-----------------------------------------------------------------------------

AddBuffer2(b, p, msg, valid, rdv, lib) ==
    [b EXCEPT ![p] = [valid |-> valid, rdv |-> rdv, lib |-> lib,
                      attempts |-> CappedSucc(0, MaxAttempts), since |-> 0,
                      msg |-> msg, addr |-> "none"]]

AddBuffer3(b, p, rdv, lib) ==
    [b EXCEPT ![p] = [valid |-> TRUE, rdv |-> rdv, lib |-> lib,
                      attempts |-> 0, since |-> 0,
                      msg |-> NoMessage, addr |-> "none"]]

RemoveBuffer(b, p) == [b EXCEPT ![p] = NoBuffer]

\* The setters look the peer up and do nothing when it has no entry.
UpdateBufferLibP2PState(b, p, state) ==
    IF HasBuffer(b, p)
      THEN [b EXCEPT ![p].lib = state,
                     ![p].attempts = IF state = "Connected" THEN 0 ELSE @,
                     ![p].since = 0]
      ELSE b

UpdateBufferRendezvousState(b, p, state) ==
    IF HasBuffer(b, p) THEN [b EXCEPT ![p].rdv = state] ELSE b

IncrementReconnectAttempts(b, p) ==
    IF HasBuffer(b, p)
      THEN [b EXCEPT ![p].attempts = CappedSucc(@, MaxAttempts), ![p].since = 0]
      ELSE b

SetNeuronSellerRequest(b, p, msg) ==
    IF HasBuffer(b, p) THEN [b EXCEPT ![p].msg = msg] ELSE b

SetLastOtherSideMultiAddress(b, p, addr) ==
    IF HasBuffer(b, p) THEN [b EXCEPT ![p].addr = addr] ELSE b

\* One unit of time passes.
AgeBuffers(b) ==
    [p \in Peers |-> IF HasBuffer(b, p)
                       THEN [b[p] EXCEPT !.since = CappedSucc(@, MaxBackoff)]
                       ELSE NoBuffer]

-----------------------------------------------------------------------------
\* IsRequestTooEarly of common-lib/connection.go: 30 s * 2^attempts, capped
\* after the multiplication, so that a product that has wrapped to zero or
\* below passes the cap and asks for no wait at all.
Doublings(attempts) == IF attempts < MaxDoublings THEN attempts ELSE MaxDoublings

Backoff(attempts) ==
    IF attempts \in Wrapped THEN 0
    ELSE IF 2 ^ Doublings(attempts) > MaxBackoff THEN MaxBackoff
    ELSE 2 ^ Doublings(attempts)

IsRequestTooEarly(b, p) ==
    HasBuffer(b, p) => b[p].since < Backoff(b[p].attempts)
=============================================================================
