-------------------------- MODULE BuyerCase_proofs --------------------------
(***************************************************************************)
(* Proofs about BuyerCase, for any number of sellers, goroutines, restarts *)
(* and replacements.                                                       *)
(***************************************************************************)
EXTENDS BuyerCase, NodeBuffers_proofs

\* There is a peer for an unset local to stand on.
LEMMA AnyPeerType == AnyPeer \in Peers
BY BuyerAssumption DEF AnyPeer

\* The loop sleeps for a while.
LEMMA LoopPeriodType == LoopPeriod \in Nat /\ LoopPeriod > 0
BY BuyerAssumption

\* What an action leaves alone keeps its type.
LEMMA FrameType ==
    ASSUME TypeOK
    PROVE  /\ UNCHANGED loopVars => LoopOK'
           /\ UNCHANGED <<pc, localVars>> => LocalsOK'
           /\ UNCHANGED appVars => AppOK'
           /\ UNCHANGED punchVars => PunchOK'
           /\ UNCHANGED ledgerVars => LedgerOK'
           /\ UNCHANGED sendVars => SentOK'
           /\ UNCHANGED envVars => EnvOK'
<1>1. UNCHANGED loopVars => LoopOK'
  BY DEF TypeOK, loopVars, LoopOK
<1>2. UNCHANGED <<pc, localVars>> => LocalsOK'
  BY DEF TypeOK, localVars, LocalsOK
<1>3. UNCHANGED appVars => AppOK'
  BY DEF TypeOK, appVars, AppOK
<1>4. UNCHANGED punchVars => PunchOK'
  BY DEF TypeOK, punchVars, PunchOK
<1>5. UNCHANGED ledgerVars => LedgerOK'
  BY DEF TypeOK, ledgerVars, LedgerOK
<1>6. UNCHANGED sendVars => SentOK'
  BY DEF TypeOK, sendVars, SentOK
<1>7. UNCHANGED envVars => EnvOK'
  BY DEF TypeOK, envVars, EnvOK
<1> QED
  BY <1>1, <1>2, <1>3, <1>4, <1>5, <1>6, <1>7

\* A goroutine that moves on, returns or is called keeps well-typed locals.
LEMMA GotoType ==
    ASSUME TypeOK, NEW t \in Callers, NEW l \in CallPCs, Goto(t, l)
    PROVE  LocalsOK'
BY DEF TypeOK, LocalsOK, Goto, localVars

\* A goroutine that returns resets its locals.
LEMMA ReturnType ==
    ASSUME TypeOK, NEW t \in Callers, Return(t)
    PROVE  LocalsOK'
BY AnyPeerType DEF TypeOK, LocalsOK, Return, CallPCs, NoMessage

\* A goroutine that starts work on a seller has him as its target.
LEMMA CallType ==
    ASSUME TypeOK, NEW t \in Callers, NEW s \in Peers, NEW l \in CallPCs, Call(t, s, l)
    PROVE  LocalsOK'
BY DEF TypeOK, LocalsOK, Call

\* A call of processSeller, whether it gets past the contract or not.
LEMMA EnterType ==
    ASSUME TypeOK, NEW t \in Callers, NEW s \in Peers, EnterProcessSeller(t, s)
    PROVE  LocalsOK'
BY CallType, FrameType DEF EnterProcessSeller, CallPCs

\* A table operation of a goroutine keeps every type, if it makes a table.
LEMMA TableStepType ==
    ASSUME TypeOK, NEW t \in Callers, NEW from, NEW b \in Tables,
           NEW to \in CallPCs \cup {"return"}, TableStep(t, from, b, to)
    PROVE  TypeOK'
<1>1. LocalsOK'
  BY GotoType, ReturnType DEF TableStep
<1> QED
  BY <1>1, FrameType DEF TableStep, TypeOK

\* So does sending a request, whatever becomes of it.
LEMMA SendToType ==
    ASSUME TypeOK, NEW s \in Peers, NEW m \in Nat, NEW n \in 0..MaxAttempts,
           SendTo(s, m), streak' = [streak EXCEPT ![s] = n]
    PROVE  LedgerOK' /\ SentOK'
<1>1. LedgerOK'
  <2>1. delivered' \in [Peers -> SUBSET Nat]
    BY DEF SendTo, TypeOK, LedgerOK
  <2>2. (s \in Unreachable) \in BOOLEAN
    OBVIOUS
  <2>3. owed' \in [Peers -> BOOLEAN]
    BY <2>2, Zenon DEF SendTo, TypeOK, LedgerOK
  <2> QED
    BY <2>1, <2>3 DEF SendTo, TypeOK, LedgerOK
<1>2. SentOK'
  BY BoundsAreNaturals DEF SendTo, TypeOK, SentOK
<1> QED
  BY <1>1, <1>2

\* Every step of processSeller keeps the types.
LEMMA ProcessSellerType ==
    ASSUME TypeOK, NEW t \in Callers, processSeller(t)
    PROVE  TypeOK'
<1> USE DEF CallPCs
<1>0. tgt[t] \in Peers /\ msg[t] \in Nat /\ buffers \in Tables
  BY DEF TypeOK, LocalsOK
<1>1. CASE Lookup(t)
  <2>1. LocalsOK'
    <3>1. CASE Return(t)
      BY <3>1, ReturnType
    <3>2. CASE pc' = [pc EXCEPT ![t] = "conns"] /\ ReadBuffer(t)
      BY <1>0, <3>2 DEF ReadBuffer, TypeOK, LocalsOK, Tables, HasBuffer, NodeBufferInfo, NoMessage
    <3> QED
      BY <1>1, <3>1, <3>2 DEF Lookup
  <2> QED
    BY <1>1, <2>1, FrameType DEF Lookup, TypeOK
<1>2. CASE ConnsToPeer(t)
  <2>1. LocalsOK'
    BY <1>2, GotoType, ReturnType DEF ConnsToPeer
  <2> QED
    BY <1>2, <2>1, FrameType DEF ConnsToPeer, TypeOK
<1>3. CASE CloseUnknownPeer(t)
  <2>1. LocalsOK'
    BY <1>3, ReturnType DEF CloseUnknownPeer
  <2>2. EnvOK'
    BY <1>0, <1>3 DEF CloseUnknownPeer, TypeOK, EnvOK
  <2> QED
    BY <1>3, <2>1, <2>2, FrameType DEF CloseUnknownPeer, TypeOK
<1>4. CASE PrepareServiceRequest(t)
  <2>1. LocalsOK'
    <3>1. CASE Goto(t, "blacklist")
      BY <3>1, GotoType
    <3>2. CASE /\ pc' = [pc EXCEPT ![t] = "incr1"]
               /\ msg' = [msg EXCEPT ![t] = accounts[tgt[t]] + 1]
               /\ UNCHANGED <<tgt, has>>
      BY <1>0, <3>2 DEF TypeOK, LocalsOK, LedgerOK
    <3> QED
      BY <1>4, <3>1, <3>2 DEF PrepareServiceRequest
  <2>2. LedgerOK'
    <3>1. CASE UNCHANGED <<accounts, opened>>
      BY <1>4, <3>1 DEF PrepareServiceRequest, TypeOK, LedgerOK
    <3>2. CASE /\ accounts' = [accounts EXCEPT ![tgt[t]] = @ + 1]
               /\ opened' = [opened EXCEPT ![t][tgt[t]] = @ + 1]
      <4>1. accounts' \in [Peers -> Nat]
        BY <1>0, <3>2 DEF TypeOK, LedgerOK
      <4>2. opened[t] \in [Peers -> Nat]
        BY DEF TypeOK, LedgerOK
      <4>3. [opened[t] EXCEPT ![tgt[t]] = @ + 1] \in [Peers -> Nat]
        BY <1>0, <4>2
      <4>4. opened' \in [Callers -> [Peers -> Nat]]
        BY <1>0, <3>2, <4>3 DEF TypeOK, LedgerOK
      <4> QED
        BY <1>4, <4>1, <4>4 DEF PrepareServiceRequest, TypeOK, LedgerOK
    <3> QED
      BY <1>4, <3>1, <3>2 DEF PrepareServiceRequest
  <2> QED
    BY <1>4, <2>1, <2>2, FrameType DEF PrepareServiceRequest, TypeOK
<1>5. CASE Blacklist(t)
  BY <1>0, <1>5, TableStepType, AddBuffer2Type DEF Blacklist, NoMessage, RendezvousStates, ConnectionStates
<1>6. CASE CountFirstAttempt(t)
  BY <1>0, <1>6, TableStepType, IncrementType DEF CountFirstAttempt
<1>7. CASE SendRequest(t)
  <2>1. LocalsOK'
    BY <1>7, GotoType DEF SendRequest
  <2>2. CappedSucc(0, MaxAttempts) \in 0..MaxAttempts
    BY CappedSuccType, BoundsAreNaturals
  <2>3. LedgerOK' /\ SentOK'
    BY <1>0, <1>7, <2>2, SendToType DEF SendRequest
  <2> QED
    BY <1>7, <2>1, <2>3, FrameType DEF SendRequest, TypeOK
<1>8. CASE AddAfterFailedSend(t)
  BY <1>0, <1>8, TableStepType, AddBuffer2Type DEF AddAfterFailedSend, RendezvousStates, ConnectionStates
<1>9. CASE AddAfterSend(t)
  BY <1>0, <1>9, TableStepType, AddBuffer2Type DEF AddAfterSend, RendezvousStates, ConnectionStates
<1>10. CASE CheckTooEarly(t)
  BY <1>0, <1>10, TableStepType DEF CheckTooEarly
<1>11. CASE CountAttempt(t)
  BY <1>0, <1>11, TableStepType, IncrementType DEF CountAttempt
<1>12. CASE ResendRequest(t)
  <2>1. LocalsOK'
    BY <1>12, GotoType DEF ResendRequest
  <2>2. streak[tgt[t]] \in 0..MaxAttempts
    BY <1>0 DEF TypeOK, SentOK
  <2>3. LedgerOK' /\ SentOK'
    BY <1>0, <1>12, <2>2, SendToType, CappedSuccType, BoundsAreNaturals DEF ResendRequest
  <2> QED
    BY <1>12, <2>1, <2>3, FrameType DEF ResendRequest, TypeOK
<1>13. CASE MarkRendezvous(t)
  BY <1>0, <1>13, TableStepType, UpdateRendezvousType DEF MarkRendezvous, RendezvousStates
<1>14. CASE MarkResent(t)
  BY <1>0, <1>14, TableStepType, UpdateLibType DEF MarkResent, ConnectionStates
<1>15. CASE MarkConnected(t)
  <2>1. LocalsOK'
    BY <1>15, GotoType DEF MarkConnected
  <2>2. buffers' \in Tables
    BY <1>0, <1>15, UpdateLibType DEF MarkConnected, ConnectionStates
  <2>3. SentOK'
    BY <1>0, <1>15, BoundsAreNaturals DEF MarkConnected, TypeOK, SentOK
  <2> QED
    BY <1>15, <2>1, <2>2, <2>3, FrameType DEF MarkConnected, TypeOK
<1>16. CASE SetRemoteAddress(t)
  BY <1>0, <1>16, TableStepType, SetAddressType DEF SetRemoteAddress, Addresses
<1> QED
  BY <1>1, <1>2, <1>3, <1>4, <1>5, <1>6, <1>7, <1>8, <1>9, <1>10, <1>11,
     <1>12, <1>13, <1>14, <1>15, <1>16 DEF processSeller

\* Every step of the processing loop keeps the types.
LEMMA LoopType ==
    ASSUME TypeOK, TheLoop
    PROVE  TypeOK'
<1>0. Loop \in Callers
  BY DEF Callers
<1>1. CASE StartSecondLoop
  <2>1. LoopOK'
    BY <1>1, LoopPeriodType DEF StartSecondLoop, TypeOK, LoopOK, Waiting
  <2> QED
    BY <1>1, <2>1, FrameType DEF StartSecondLoop, TypeOK
<1>2. CASE CopySellers
  <2>1. LoopOK'
    BY <1>2, LoopPeriodType DEF CopySellers, TypeOK, LoopOK, Waiting
  <2> QED
    BY <1>2, <2>1, FrameType DEF CopySellers, TypeOK
<1>3. CASE LoopSleeps
  <2>1. LoopOK'
    BY <1>3, LoopPeriodType DEF LoopSleeps, TypeOK, LoopOK, Waiting
  <2> QED
    BY <1>3, <2>1, FrameType DEF LoopSleeps, TypeOK
<1>4. ASSUME NEW x \in Peers \X Locations, NextSeller(x)
      PROVE  TypeOK'
  <2>1. LoopOK'
    BY <1>4 DEF NextSeller, TypeOK, LoopOK
  <2>2. LocalsOK'
    BY <1>0, <1>4, EnterType DEF NextSeller
  <2> QED
    BY <1>4, <2>1, <2>2, FrameType DEF NextSeller, TypeOK
<1> QED
  BY <1>0, <1>1, <1>2, <1>3, <1>4, ProcessSellerType DEF TheLoop

\* Every step of the topic callback keeps the types.
LEMMA CallbackType ==
    ASSUME TypeOK, NEW t \in Callbacks, Callback(t)
    PROVE  TypeOK'
<1>0. t \in Callers /\ tgt[t] \in Peers /\ buffers \in Tables
  BY DEF Callers, TypeOK, LocalsOK
<1>1. ASSUME NEW m \in inbox, TopicCallback(t, m)
      PROVE  TypeOK'
  <2>1. m.seller \in Peers
    BY DEF TypeOK, EnvOK, Messages
  <2>2. LocalsOK'
    BY <1>0, <1>1, <2>1, CallType, EnterType, FrameType DEF TopicCallback, CallPCs
  <2>3. EnvOK'
    BY <1>1 DEF TopicCallback, TypeOK, EnvOK
  <2> QED
    BY <1>1, <2>2, <2>3, FrameType DEF TopicCallback, TypeOK
<1>2. CASE SendAcknowledgment(t)
  <2>1. LocalsOK'
    BY <1>0, <1>2, GotoType, ReturnType DEF SendAcknowledgment, CallPCs
  <2> QED
    BY <1>2, <2>1, FrameType DEF SendAcknowledgment, TypeOK
<1>3. CASE MarkPunching(t)
  BY <1>0, <1>3, TableStepType, UpdateLibType DEF MarkPunching, ConnectionStates, CallPCs
<1>4. CASE ScheduleBuyerHolePunching(t)
  <2>1. LocalsOK'
    BY <1>0, <1>4, ReturnType DEF ScheduleBuyerHolePunching
  <2>2. PunchOK'
    BY <1>0, <1>4 DEF ScheduleBuyerHolePunching, TypeOK, PunchOK, PunchPCs, punchVars
  <2> QED
    BY <1>4, <2>1, <2>2, FrameType DEF ScheduleBuyerHolePunching, TypeOK
<1> QED
  BY <1>1, <1>2, <1>3, <1>4 DEF Callback

\* Every step of a hole punching goroutine keeps the types.
LEMMA PunchType ==
    ASSUME TypeOK, NEW q \in Punchers, Puncher(q)
    PROVE  TypeOK'
<1>0. ptgt[q] \in Peers /\ buffers \in Tables
  BY DEF TypeOK, PunchOK
<1>1. ASSUME NEW l \in PunchPCs, PunchGoto(q, l)
      PROVE  PunchOK' /\ LoopOK' /\ LocalsOK' /\ AppOK' /\ LedgerOK' /\ SentOK'
  <2>1. PunchOK'
    BY <1>1, AnyPeerType DEF PunchGoto, TypeOK, PunchOK
  <2> QED
    BY <1>1, <2>1, FrameType DEF PunchGoto
<1>2. CASE PunchConnect(q)
  <2>1. EnvOK'
    BY <1>0, <1>2 DEF PunchConnect, PunchGoto, TypeOK, EnvOK
  <2> QED
    BY <1>1, <1>2, <2>1 DEF PunchConnect, PunchPCs, TypeOK
<1>3. CASE PunchRecord(q)
  <2>1. EnvOK'
    BY <1>3 DEF PunchRecord, PunchGoto, TypeOK, EnvOK
  <2>2. buffers' \in Tables
    BY <1>0, <1>3, UpdateLibType, SetAddressType DEF PunchRecord, ConnectionStates, Addresses
  <2> QED
    BY <1>1, <1>3, <2>1, <2>2 DEF PunchRecord, PunchPCs, TypeOK
<1> QED
  BY <1>2, <1>3 DEF Puncher

\* Every step of ReplaceSellers and its variants keeps the types.
LEMMA AppType ==
    ASSUME TypeOK, NEW t \in Apps, App(t)
    PROVE  TypeOK'
<1> USE DEF CallPCs
<1>0. t \in Callers /\ tgt[t] \in Peers /\ buffers \in Tables
  BY DEF Callers, TypeOK, LocalsOK
<1>1. ASSUME NEW new \in SUBSET Peers, NEW current \in SUBSET Peers,
             ReplaceSellers(t, new, current)
      PROVE  TypeOK'
  <2>1. AppOK'
    BY <1>1 DEF ReplaceSellers, TypeOK, AppOK
  <2>2. LocalsOK'
    BY <1>0, <1>1, GotoType DEF ReplaceSellers
  <2> QED
    BY <1>1, <2>1, <2>2, FrameType DEF ReplaceSellers, TypeOK
<1>2. ASSUME NEW new \in SUBSET Peers, ReplaceSellersSimple(t, new)
      PROVE  TypeOK'
  <2>1. AppOK'
    BY <1>2 DEF ReplaceSellersSimple, TypeOK, AppOK
  <2>2. LocalsOK'
    BY <1>0, <1>2, GotoType DEF ReplaceSellersSimple
  <2> QED
    BY <1>2, <2>1, <2>2, FrameType DEF ReplaceSellersSimple, TypeOK
<1>3. CASE VerifySellers(t)
  <2>1. AppOK'
    BY <1>3 DEF VerifySellers, TypeOK, AppOK
  <2>2. LocalsOK'
    BY <1>0, <1>3, GotoType DEF VerifySellers
  <2> QED
    BY <1>3, <2>1, <2>2, FrameType DEF VerifySellers, TypeOK
<1>4. CASE SnapshotPeers(t)
  <2>1. AppOK'
    BY <1>4 DEF SnapshotPeers, TypeOK, AppOK, BufferedPeers
  <2>2. LocalsOK'
    BY <1>0, <1>4, GotoType DEF SnapshotPeers
  <2> QED
    BY <1>4, <2>1, <2>2, FrameType DEF SnapshotPeers, TypeOK
<1>5. CASE RemoveSeller(t)
  <2>1. AppOK'
    BY <1>0, <1>5 DEF RemoveSeller, TypeOK, AppOK
  <2>2. LocalsOK'
    BY <1>0, <1>5, ReturnType DEF RemoveSeller
  <2>3. buffers' \in Tables
    BY <1>0, <1>5, RemoveBufferType DEF RemoveSeller
  <2> QED
    BY <1>5, <2>1, <2>2, <2>3, FrameType DEF RemoveSeller, TypeOK
<1>6. ASSUME NEW s \in Peers, AddSeller(t, s)
      PROVE  TypeOK'
  <2>1. AppOK'
    BY <1>6 DEF AddSeller, TypeOK, AppOK
  <2>2. LocalsOK'
    BY <1>0, <1>6, EnterType, FrameType DEF AddSeller
  <2> QED
    BY <1>6, <2>1, <2>2, FrameType DEF AddSeller, TypeOK
<1>7. ASSUME NEW s \in Peers, DisconnectSeller(t, s)
      PROVE  TypeOK'
  <2>1. AppOK'
    BY <1>7 DEF DisconnectSeller, TypeOK, AppOK
  <2>2. LocalsOK'
    BY <1>0, <1>7, CallType DEF DisconnectSeller
  <2>3. EnvOK'
    BY <1>7 DEF DisconnectSeller, TypeOK, EnvOK
  <2> QED
    BY <1>7, <2>1, <2>2, <2>3, FrameType DEF DisconnectSeller, TypeOK
<1> QED
  BY <1>1, <1>2, <1>3, <1>4, <1>5, <1>6, <1>7 DEF App

\* What the outside world does keeps the types.
LEMMA EnvironmentType ==
    ASSUME TypeOK, Environment
    PROVE  TypeOK'
<1>0. ASSUME World, LedgerOK', EnvOK'
      PROVE  TypeOK'
  BY <1>0, FrameType DEF World, TypeOK
<1>1. ASSUME NEW s \in Peers, SellerConnects(s)
      PROVE  TypeOK'
  <2>1. (served[s] \/ conn[s] = "open") \in BOOLEAN
    OBVIOUS
  <2>2. served' \in [Peers -> BOOLEAN]
    BY <1>1, <2>1, Zenon DEF SellerConnects, TypeOK, LedgerOK
  <2>3. LedgerOK'
    BY <1>1, <2>2 DEF SellerConnects, World, TypeOK, LedgerOK
  <2>4. EnvOK'
    BY <1>1 DEF SellerConnects, World, TypeOK, EnvOK
  <2> QED
    BY <1>0, <1>1, <2>3, <2>4 DEF SellerConnects
<1>2. ASSUME NEW s \in Peers, ConnectionDrops(s)
      PROVE  TypeOK'
  <2>1. LedgerOK'
    BY <1>2 DEF ConnectionDrops, World, TypeOK, LedgerOK
  <2>2. EnvOK'
    BY <1>2 DEF ConnectionDrops, World, TypeOK, EnvOK
  <2> QED
    BY <1>0, <1>2, <2>1, <2>2 DEF ConnectionDrops
<1>3. ASSUME NEW s \in Peers, SellerReportsWriteError(s)
      PROVE  TypeOK'
  <2>1. LedgerOK'
    BY <1>3 DEF SellerReportsWriteError, World, TypeOK, LedgerOK
  <2>2. EnvOK'
    BY <1>3 DEF SellerReportsWriteError, World, TypeOK, EnvOK, Messages
  <2> QED
    BY <1>0, <1>3, <2>1, <2>2 DEF SellerReportsWriteError
<1>4. ASSUME NEW s \in Peers, SellerAsksToPunch(s)
      PROVE  TypeOK'
  <2>1. LedgerOK'
    BY <1>4 DEF SellerAsksToPunch, World, TypeOK, LedgerOK
  <2>2. EnvOK'
    BY <1>4 DEF SellerAsksToPunch, World, TypeOK, EnvOK, Messages
  <2> QED
    BY <1>0, <1>4, <2>1, <2>2 DEF SellerAsksToPunch
<1>5. ASSUME NEW m \in inbox, LoseMessage(m)
      PROVE  TypeOK'
  <2>1. LedgerOK'
    BY <1>5 DEF LoseMessage, World, TypeOK, LedgerOK
  <2>2. EnvOK'
    BY <1>5 DEF LoseMessage, World, TypeOK, EnvOK
  <2> QED
    BY <1>0, <1>5, <2>1, <2>2 DEF LoseMessage
<1>6. ASSUME NEW s \in Peers, NEW l \in Locations, Discover(s, l)
      PROVE  TypeOK'
  <2>1. LoopOK'
    BY <1>6 DEF Discover, TypeOK, LoopOK
  <2> QED
    BY <1>6, <2>1, FrameType DEF Discover, TypeOK
<1>7. CASE Tick
  <2>1. buffers' \in Tables
    BY <1>7, AgeType DEF Tick, TypeOK
  <2>2. LoopOK'
    BY <1>7, LoopPeriodType DEF Tick, TypeOK, LoopOK, Waiting
  <2>3. SentOK'
    BY <1>7, CappedSuccType, BoundsAreNaturals DEF Tick, TypeOK, SentOK
  <2> QED
    BY <1>7, <2>1, <2>2, <2>3, FrameType DEF Tick, TypeOK
<1>8. CASE Restart
  <2>1. buffers' \in Tables
    BY <1>8 DEF Restart, NewNodeBuffers, Tables
  <2>2. LoopOK'
    BY <1>8, LoopPeriodType DEF Restart, LoopOK, Waiting
  <2>3. LocalsOK'
    BY <1>8, AnyPeerType DEF Restart, LocalsOK, CallPCs, NoMessage
  <2>4. AppOK'
    BY <1>8 DEF Restart, TypeOK, AppOK
  <2>5. PunchOK'
    BY <1>8, AnyPeerType DEF Restart, PunchOK, PunchPCs
  <2>6. EnvOK'
    BY <1>8 DEF Restart, TypeOK, EnvOK
  <2> QED
    BY <1>8, <2>1, <2>2, <2>3, <2>4, <2>5, <2>6, FrameType DEF Restart, TypeOK
<1> QED
  BY <1>1, <1>2, <1>3, <1>4, <1>5, <1>6, <1>7, <1>8 DEF Environment

\* A buyer that has just started.
LEMMA InitType == Init => TypeOK
<1> SUFFICES ASSUME Init PROVE TypeOK
  OBVIOUS
<1>1. buffers \in Tables
  BY DEF Init, NewNodeBuffers, Tables
<1>2. LoopOK
  BY LoopPeriodType DEF Init, LoopOK, Waiting
<1>3. LocalsOK
  BY AnyPeerType DEF Init, LocalsOK, CallPCs, NoMessage
<1>4. AppOK /\ PunchOK
  BY AnyPeerType DEF Init, AppOK, PunchOK, PunchPCs
<1>5. LedgerOK
  BY DEF Init, LedgerOK
<1>6. SentOK /\ EnvOK
  BY BoundsAreNaturals DEF Init, SentOK, EnvOK
<1> QED
  BY <1>1, <1>2, <1>3, <1>4, <1>5, <1>6 DEF TypeOK

\* Every step of the buyer and of its surroundings keeps the types.
LEMMA StepType == TypeOK /\ [Next]_vars => TypeOK'
<1> SUFFICES ASSUME TypeOK, [Next]_vars PROVE TypeOK'
  OBVIOUS
<1>1. CASE UNCHANGED vars
  BY <1>1, FrameType
  DEF TypeOK, vars, loopVars, localVars, appVars, punchVars, ledgerVars, sendVars, envVars
<1>2. CASE Next
  BY <1>2, LoopType, ProcessSellerType, CallbackType, AppType, PunchType, EnvironmentType
  DEF Next, Callers
<1> QED
  BY <1>1, <1>2

\* Every variable of the buyer keeps its type: the table stays well formed
\* whichever goroutines write to it, and every message taken from the topic
\* names a seller.
THEOREM TypeCorrect == Spec => []TypeOK
BY InitType, StepType, PTL DEF Spec

-----------------------------------------------------------------------------
(* One account for each goroutine and seller.  OneAccountPerGoroutine says *)
(* nothing of the table, so it is not inductive; AccountsAreRecorded adds  *)
(* that an opened account leaves an entry behind.                          *)

AccountInv == OneAccountPerGoroutine /\ AccountsAreRecorded

Holding == {"blacklist", "incr1", "send", "addOK", "addFail"}

\* The entries of the table stay, and no account is opened or forgotten.
KeepsEntries ==
    /\ UNCHANGED <<opened, removed, restarts>>
    /\ \A s \in Peers : HasBuffer(buffers, s) => HasBuffer(buffers', s)

\* A step of goroutine t that keeps the entries, does not come to the point of
\* opening an account and, if t had one on its hands, still has or recorded it.
LEMMA MoveAccounts ==
    ASSUME TypeOK, TypeOK', AccountInv, NEW t \in Callers, KeepsEntries,
           \A u \in Callers \ {t} : pc'[u] = pc[u] /\ tgt'[u] = tgt[u] /\ has'[u] = has[u],
           pc'[t] \notin {"conns", "prepare"},
           pc[t] \in Holding => \/ HasBuffer(buffers', tgt[t])
                                \/ pc'[t] \in Holding /\ tgt'[t] = tgt[t]
    PROVE  AccountInv'
<1>1. OneAccountPerGoroutine'
  BY DEF AccountInv, OneAccountPerGoroutine, KeepsEntries
<1>2. AccountsAreRecorded'
  <2> SUFFICES ASSUME NEW u \in Callers, NEW s \in Peers,
                      \/ ~HasBuffer(buffers', s) /\ ~HoldsAccount(u, s)'
                      \/ FoundNoEntry(u, s)'
               PROVE  opened[u][s] <= removed[s] + restarts
    BY DEF AccountsAreRecorded, KeepsEntries, HasBuffer
  <2>1. \/ ~HasBuffer(buffers, s) /\ ~HoldsAccount(u, s)
        \/ FoundNoEntry(u, s)
    <3>1. CASE u = t
      BY <3>1 DEF HasBuffer, KeepsEntries, HoldsAccount, FoundNoEntry, Holding
    <3>2. CASE u # t
      BY <3>2 DEF HasBuffer, KeepsEntries, HoldsAccount, FoundNoEntry
    <3> QED
      BY <3>1, <3>2
  <2> QED
    BY <2>1 DEF AccountInv, AccountsAreRecorded
<1> QED
  BY <1>1, <1>2 DEF AccountInv

\* A step that touches neither the entries nor the goroutines.
LEMMA FrameAccounts ==
    ASSUME AccountInv, KeepsEntries, UNCHANGED <<pc, tgt, has>>
    PROVE  AccountInv'
BY DEF AccountInv, KeepsEntries, OneAccountPerGoroutine, AccountsAreRecorded,
       HoldsAccount, FoundNoEntry, HasBuffer

\* What Goto, Return and Call do to the goroutine and leave to the others.
Others(t) ==
    \A u \in Callers \ {t} : /\ pc'[u] = pc[u] /\ tgt'[u] = tgt[u]
                             /\ has'[u] = has[u] /\ msg'[u] = msg[u]

\* What a jump changes, read off for one goroutine and for the others.
LEMMA GotoMoves ==
    ASSUME TypeOK, NEW t \in Callers, NEW l, Goto(t, l)
    PROVE  /\ Others(t) /\ pc'[t] = l
           /\ tgt'[t] = tgt[t] /\ has'[t] = has[t] /\ msg'[t] = msg[t]
BY DEF Goto, localVars, Others, TypeOK, LocalsOK

\* The same for a return.
LEMMA ReturnMoves ==
    ASSUME TypeOK, NEW t \in Callers, Return(t)
    PROVE  Others(t) /\ pc'[t] = "idle"
BY DEF Return, Others, TypeOK, LocalsOK

\* The same for a call.
LEMMA CallMoves ==
    ASSUME TypeOK, NEW t \in Callers, NEW s \in Peers, NEW l, Call(t, s, l)
    PROVE  Others(t) /\ pc'[t] = l
BY DEF Call, Others, TypeOK, LocalsOK

\* A table operation that takes no entry away: a goroutine that held an account
\* still holds it, or has left an entry behind.
LEMMA TableStepAccounts ==
    ASSUME TypeOK, AccountInv, NEW t \in Callers, NEW from, NEW b \in Tables,
           NEW to \in (CallPCs \cup {"return"}) \ {"conns", "prepare"},
           TableStep(t, from, b, to),
           \A s \in Peers : HasBuffer(buffers, s) => HasBuffer(b, s),
           from \in Holding => HasBuffer(b, tgt[t]) \/ to \in Holding
    PROVE  AccountInv'
<1>1. TypeOK'
  BY TableStepType
<1>2. KeepsEntries
  BY DEF TableStep, KeepsEntries, appVars, ledgerVars, envVars
<1>3. /\ Others(t)
      /\ \/ to = "return" /\ pc'[t] = "idle"
         \/ to # "return" /\ pc'[t] = to /\ tgt'[t] = tgt[t]
  BY GotoMoves, ReturnMoves DEF TableStep
<1>4. pc'[t] \notin {"conns", "prepare"}
  BY <1>3
<1>5. pc[t] \in Holding => \/ HasBuffer(buffers', tgt[t])
                           \/ pc'[t] \in Holding /\ tgt'[t] = tgt[t]
  BY <1>3 DEF TableStep, Holding
<1> QED
  BY <1>1, <1>2, <1>3, <1>4, <1>5, MoveAccounts DEF Others

\* Setters keep the entries.
LEMMA SameKeeps ==
    ASSUME NEW b, NEW c, SameRequests(b, c)
    PROVE  \A s \in Peers : HasBuffer(b, s) => HasBuffer(c, s)
BY DEF SameRequests

\* processSeller: the one step that opens an account comes after a look at the
\* table that found no entry, and every way out of it makes one.
LEMMA ProcessSellerAccounts ==
    ASSUME TypeOK, AccountInv, NEW t \in Callers, processSeller(t)
    PROVE  AccountInv'
<1> USE DEF CallPCs
<1>0. tgt[t] \in Peers /\ msg[t] \in Nat /\ buffers \in Tables
  BY DEF TypeOK, LocalsOK
<1>t. TypeOK'
  BY ProcessSellerType
<1>n. /\ "NotInitiated" \in RendezvousStates /\ "SendOK" \in RendezvousStates
      /\ "SendFail" \in RendezvousStates
      /\ "ConnectionLost" \in ConnectionStates /\ "Connecting" \in ConnectionStates
      /\ NoMessage \in Nat
  BY DEF RendezvousStates, ConnectionStates, NoMessage
<1>1. CASE Lookup(t)
  <2>1. KeepsEntries
    BY <1>1 DEF Lookup, KeepsEntries, appVars, ledgerVars, envVars
  <2>2. pc[t] = "lookup"
    BY <1>1 DEF Lookup
  <2>3. CASE Return(t)
    BY <1>t, <2>1, <2>2, <2>3, ReturnMoves, MoveAccounts DEF Others, Holding
  <2>4. CASE pc' = [pc EXCEPT ![t] = "conns"] /\ ReadBuffer(t)
    <3>1. Others(t) /\ tgt' = tgt /\ pc'[t] = "conns" /\ has'[t] = HasBuffer(buffers, tgt[t])
      BY <2>4 DEF ReadBuffer, Others, TypeOK, LocalsOK
    <3>2. \A u \in Callers, s \in Peers :
             (\/ ~HasBuffer(buffers', s) /\ ~HoldsAccount(u, s)'
              \/ FoundNoEntry(u, s)')
             => (\/ ~HasBuffer(buffers, s) /\ ~HoldsAccount(u, s)
                 \/ FoundNoEntry(u, s))
      BY <2>1, <2>2, <3>1 DEF KeepsEntries, HoldsAccount, FoundNoEntry, Others
    <3> QED
      BY <2>1, <3>2 DEF AccountInv, OneAccountPerGoroutine, AccountsAreRecorded, KeepsEntries, HasBuffer
  <2> QED
    BY <1>1, <2>3, <2>4 DEF Lookup
<1>2. CASE ConnsToPeer(t)
  <2>1. KeepsEntries
    BY <1>2 DEF ConnsToPeer, KeepsEntries, appVars, ledgerVars, envVars
  <2>2. pc[t] = "conns"
    BY <1>2 DEF ConnsToPeer
  <2>3. CASE ~has[t] /\ Goto(t, "prepare")
    <3>1. Others(t) /\ tgt' = tgt /\ pc'[t] = "prepare"
      BY <2>3, GotoMoves DEF Goto, localVars
    <3>2. \A u \in Callers, s \in Peers :
             (\/ ~HasBuffer(buffers', s) /\ ~HoldsAccount(u, s)'
              \/ FoundNoEntry(u, s)')
             => (\/ ~HasBuffer(buffers, s) /\ ~HoldsAccount(u, s)
                 \/ FoundNoEntry(u, s))
      BY <2>1, <2>2, <2>3, <3>1 DEF KeepsEntries, HoldsAccount, FoundNoEntry, Others
    <3> QED
      BY <2>1, <3>2 DEF AccountInv, OneAccountPerGoroutine, AccountsAreRecorded, KeepsEntries, HasBuffer
  <2>4. CASE Goto(t, "check") \/ Goto(t, "rdvConn") \/ Return(t)
    BY <1>t, <2>1, <2>2, <2>4, GotoMoves, ReturnMoves, MoveAccounts DEF Others, Holding
  <2> QED
    BY <1>2, <2>3, <2>4 DEF ConnsToPeer
<1>3. CASE CloseUnknownPeer(t)
  <2>1. KeepsEntries /\ pc[t] = "conns" /\ Return(t)
    BY <1>3 DEF CloseUnknownPeer, KeepsEntries, appVars, ledgerVars
  <2> QED
    BY <1>t, <2>1, ReturnMoves, MoveAccounts DEF Others, Holding
<1>4. CASE PrepareServiceRequest(t)
  <2> DEFINE s == tgt[t]
  <2>1. /\ pc[t] = "prepare" /\ Others(t) /\ tgt' = tgt /\ pc'[t] \in {"blacklist", "incr1"}
        /\ UNCHANGED <<buffers, removed, restarts>>
    BY <1>4, GotoMoves
    DEF PrepareServiceRequest, Goto, localVars, Others, TypeOK, LocalsOK, appVars, envVars
  <2>2. opened[t][s] <= removed[s] + restarts
    BY <1>0, <2>1 DEF AccountInv, AccountsAreRecorded, FoundNoEntry
  <2>3. \A u \in Callers, r \in Peers :
           /\ u # t \/ r # s => opened'[u][r] = opened[u][r]
           /\ opened'[t][s] \in {opened[t][s], opened[t][s] + 1}
    <3>1. CASE UNCHANGED opened
      BY <3>1
    <3>2. CASE opened' = [opened EXCEPT ![t][tgt[t]] = @ + 1]
      BY <1>0, <3>2 DEF TypeOK, LedgerOK
    <3> QED
      BY <1>4, <3>1, <3>2 DEF PrepareServiceRequest
  <2>4. \A u \in Callers, r \in Peers :
           opened[u][r] \in Nat /\ removed[r] \in Nat /\ restarts \in Nat
    BY DEF TypeOK, LedgerOK, AppOK, EnvOK
  <2>5. OneAccountPerGoroutine'
    BY <1>0, <2>1, <2>2, <2>3, <2>4 DEF AccountInv, OneAccountPerGoroutine
  <2>6. AccountsAreRecorded'
    <3> SUFFICES ASSUME NEW u \in Callers, NEW r \in Peers,
                        \/ ~HasBuffer(buffers, r) /\ ~HoldsAccount(u, r)'
                        \/ FoundNoEntry(u, r)'
                 PROVE  opened'[u][r] <= removed[r] + restarts
      BY <2>1 DEF AccountsAreRecorded, HasBuffer
    <3>1. u # t \/ r # s
      BY <1>0, <2>1 DEF HoldsAccount, FoundNoEntry
    <3>2. \/ ~HasBuffer(buffers, r) /\ ~HoldsAccount(u, r)
          \/ FoundNoEntry(u, r)
      BY <2>1, <3>1 DEF HoldsAccount, FoundNoEntry, Others
    <3> QED
      BY <2>3, <3>1, <3>2 DEF AccountInv, AccountsAreRecorded
  <2> QED
    BY <2>5, <2>6 DEF AccountInv
<1>5. CASE Blacklist(t)
  <2> DEFINE b == AddBuffer2(buffers, tgt[t], NoMessage, FALSE, "NotInitiated", "ConnectionLost")
  <2>1. b \in Tables /\ HasBuffer(b, tgt[t])
        /\ \A s \in Peers : HasBuffer(buffers, s) => HasBuffer(b, s)
    <3>1. b \in Tables /\ HasBuffer(b, tgt[t])
      BY <1>0, <1>n, AddBuffer2Type, AddBuffer2Entry
    <3>2. ASSUME NEW s \in Peers, HasBuffer(buffers, s) PROVE HasBuffer(b, s)
      BY <1>0, <1>n, <3>2, AddBuffer2Keeps
    <3> HIDE DEF b
    <3> QED
      BY <3>1, <3>2
  <2>2. TableStep(t, "blacklist", b, "return")
    BY <1>5 DEF Blacklist
  <2> HIDE DEF b
  <2> QED
    BY <2>1, <2>2, TableStepAccounts
<1>6. CASE CountFirstAttempt(t)
  <2> DEFINE b == IncrementReconnectAttempts(buffers, tgt[t])
  <2>1. b \in Tables /\ \A s \in Peers : HasBuffer(buffers, s) => HasBuffer(b, s)
    BY <1>0, IncrementType, SameKeeps
  <2>2. TableStep(t, "incr1", b, "send")
    BY <1>6 DEF CountFirstAttempt
  <2> HIDE DEF b
  <2> QED
    BY <2>1, <2>2, TableStepAccounts DEF Holding
<1>7. CASE SendRequest(t)
  <2>1. KeepsEntries /\ pc[t] = "send" /\ (Goto(t, "addOK") \/ Goto(t, "addFail"))
    BY <1>7 DEF SendRequest, SendTo, KeepsEntries, appVars, envVars
  <2> QED
    BY <1>t, <2>1, GotoMoves, MoveAccounts DEF Others, Holding
<1>8. CASE AddAfterFailedSend(t)
  <2> DEFINE b == AddBuffer2(buffers, tgt[t], msg[t], TRUE, "SendFail", "Connecting")
  <2>1. b \in Tables /\ HasBuffer(b, tgt[t])
        /\ \A s \in Peers : HasBuffer(buffers, s) => HasBuffer(b, s)
    <3>1. b \in Tables /\ HasBuffer(b, tgt[t])
      BY <1>0, <1>n, AddBuffer2Type, AddBuffer2Entry
    <3>2. ASSUME NEW s \in Peers, HasBuffer(buffers, s) PROVE HasBuffer(b, s)
      BY <1>0, <1>n, <3>2, AddBuffer2Keeps
    <3> HIDE DEF b
    <3> QED
      BY <3>1, <3>2
  <2>2. TableStep(t, "addFail", b, "return")
    BY <1>8 DEF AddAfterFailedSend
  <2> HIDE DEF b
  <2> QED
    BY <2>1, <2>2, TableStepAccounts
<1>9. CASE AddAfterSend(t)
  <2> DEFINE b == AddBuffer2(buffers, tgt[t], msg[t], TRUE, "SendOK", "Connecting")
  <2>1. b \in Tables /\ HasBuffer(b, tgt[t])
        /\ \A s \in Peers : HasBuffer(buffers, s) => HasBuffer(b, s)
    <3>1. b \in Tables /\ HasBuffer(b, tgt[t])
      BY <1>0, <1>n, AddBuffer2Type, AddBuffer2Entry
    <3>2. ASSUME NEW s \in Peers, HasBuffer(buffers, s) PROVE HasBuffer(b, s)
      BY <1>0, <1>n, <3>2, AddBuffer2Keeps
    <3> HIDE DEF b
    <3> QED
      BY <3>1, <3>2
  <2>2. TableStep(t, "addOK", b, "incr2")
    BY <1>9 DEF AddAfterSend
  <2> HIDE DEF b
  <2> QED
    BY <2>1, <2>2, TableStepAccounts
<1>10. CASE CheckTooEarly(t)
  <2>1. TableStep(t, "check", buffers, "return") \/ TableStep(t, "check", buffers, "incr2")
    BY <1>10 DEF CheckTooEarly
  <2> QED
    BY <1>0, <2>1, TableStepAccounts DEF Holding
<1>11. CASE CountAttempt(t)
  <2> DEFINE b == IncrementReconnectAttempts(buffers, tgt[t])
  <2>1. b \in Tables /\ \A s \in Peers : HasBuffer(buffers, s) => HasBuffer(b, s)
    BY <1>0, IncrementType, SameKeeps
  <2>2. TableStep(t, "incr2", b, "resend") \/ TableStep(t, "incr2", b, "return")
    BY <1>11 DEF CountAttempt
  <2> HIDE DEF b
  <2> QED
    BY <2>1, <2>2, TableStepAccounts DEF Holding
<1>12. CASE ResendRequest(t)
  <2>1. KeepsEntries /\ pc[t] = "resend" /\ (Goto(t, "rdvOK") \/ Goto(t, "rdvFail"))
    BY <1>12 DEF ResendRequest, SendTo, KeepsEntries, appVars, envVars
  <2> QED
    BY <1>t, <2>1, GotoMoves, MoveAccounts DEF Others, Holding
<1>13. CASE MarkRendezvous(t)
  <2>1. ASSUME NEW r \in RendezvousStates
        PROVE  /\ UpdateBufferRendezvousState(buffers, tgt[t], r) \in Tables
               /\ \A s \in Peers : HasBuffer(buffers, s)
                      => HasBuffer(UpdateBufferRendezvousState(buffers, tgt[t], r), s)
    BY <1>0, UpdateRendezvousType, SameKeeps
  <2> QED
    BY <1>13, <2>1, TableStepAccounts DEF MarkRendezvous, RendezvousStates, Holding
<1>14. CASE MarkResent(t)
  <2>1. ASSUME NEW l \in ConnectionStates
        PROVE  /\ UpdateBufferLibP2PState(buffers, tgt[t], l) \in Tables
               /\ \A s \in Peers : HasBuffer(buffers, s)
                      => HasBuffer(UpdateBufferLibP2PState(buffers, tgt[t], l), s)
    BY <1>0, UpdateLibType, SameKeeps
  <2> QED
    BY <1>14, <2>1, TableStepAccounts DEF MarkResent, ConnectionStates, Holding
<1>15. CASE MarkConnected(t)
  <2>1. SameRequests(buffers, UpdateBufferLibP2PState(buffers, tgt[t], "Connected"))
    BY <1>0, UpdateLibType DEF ConnectionStates
  <2>2. KeepsEntries /\ pc[t] = "libConn" /\ Goto(t, "addrConn")
    BY <1>15, <2>1, SameKeeps DEF MarkConnected, KeepsEntries, appVars, ledgerVars, envVars
  <2> QED
    BY <1>t, <2>2, GotoMoves, MoveAccounts DEF Others, Holding
<1>16. CASE SetRemoteAddress(t)
  <2> DEFINE b == SetLastOtherSideMultiAddress(buffers, tgt[t], "transport")
  <2>1. b \in Tables /\ \A s \in Peers : HasBuffer(buffers, s) => HasBuffer(b, s)
    BY <1>0, SetAddressType, SameKeeps DEF Addresses
  <2>2. TableStep(t, "addrConn", b, "return")
    BY <1>16 DEF SetRemoteAddress
  <2> HIDE DEF b
  <2> QED
    BY <2>1, <2>2, TableStepAccounts DEF Holding
<1> QED
  BY <1>1, <1>2, <1>3, <1>4, <1>5, <1>6, <1>7, <1>8, <1>9, <1>10, <1>11,
     <1>12, <1>13, <1>14, <1>15, <1>16 DEF processSeller

\* A goroutine that enters processSeller holds no account yet.
LEMMA EnterMoves ==
    ASSUME TypeOK, TypeOK', AccountInv, NEW t \in Callers, NEW s \in Peers,
           KeepsEntries, pc[t] = "idle", EnterProcessSeller(t, s)
    PROVE  AccountInv'
<1>1. CASE Call(t, s, "lookup")
  BY <1>1, CallMoves, MoveAccounts DEF Others, Holding
<1>2. CASE UNCHANGED <<pc, localVars>>
  BY <1>2, FrameAccounts DEF localVars
<1> QED
  BY <1>1, <1>2 DEF EnterProcessSeller

\* The processing loop only ever enters processSeller.
LEMMA LoopAccounts ==
    ASSUME TypeOK, AccountInv, TheLoop
    PROVE  AccountInv'
<1>0. Loop \in Callers /\ TypeOK'
  BY LoopType DEF Callers
<1>1. CASE StartSecondLoop \/ CopySellers \/ LoopSleeps
  <2>1. KeepsEntries /\ UNCHANGED <<pc, tgt, has>>
    BY <1>1 DEF StartSecondLoop, CopySellers, LoopSleeps, KeepsEntries, appVars,
                ledgerVars, envVars, localVars
  <2> QED
    BY <2>1, FrameAccounts
<1>2. ASSUME NEW x \in Peers \X Locations, NextSeller(x)
      PROVE  AccountInv'
  <2>1. KeepsEntries
    BY <1>2 DEF NextSeller, KeepsEntries, appVars, ledgerVars, envVars
  <2>2. x[1] \in Peers /\ pc[Loop] = "idle" /\ EnterProcessSeller(Loop, x[1])
    BY <1>2 DEF NextSeller
  <2> QED
    BY <1>0, <2>1, <2>2, EnterMoves
<1> QED
  BY <1>0, <1>1, <1>2, ProcessSellerAccounts DEF TheLoop

\* The topic callback enters processSeller, or handles a punch request, which
\* never makes nor removes an entry.
LEMMA CallbackAccounts ==
    ASSUME TypeOK, AccountInv, NEW t \in Callbacks, Callback(t)
    PROVE  AccountInv'
<1>0. t \in Callers /\ tgt[t] \in Peers /\ buffers \in Tables
  BY DEF Callers, TypeOK, LocalsOK
<1>t. TypeOK'
  BY CallbackType
<1>1. ASSUME NEW m \in inbox, TopicCallback(t, m)
      PROVE  AccountInv'
  <2>1. KeepsEntries /\ pc[t] = "idle"
    BY <1>1 DEF TopicCallback, KeepsEntries, appVars, ledgerVars
  <2>2. m.seller \in Peers
    BY DEF TypeOK, EnvOK, Messages
  <2>3. CASE EnterProcessSeller(t, m.seller)
    BY <1>0, <1>t, <2>1, <2>2, <2>3, EnterMoves
  <2>4. CASE Call(t, m.seller, "ack")
    BY <1>0, <1>t, <2>1, <2>2, <2>4, CallMoves, MoveAccounts DEF Others, Holding
  <2>5. CASE UNCHANGED <<pc, localVars>>
    BY <2>1, <2>5, FrameAccounts DEF localVars
  <2> QED
    BY <1>1, <2>3, <2>4, <2>5 DEF TopicCallback
<1>2. CASE SendAcknowledgment(t)
  <2>1. KeepsEntries /\ pc[t] = "ack" /\ (Goto(t, "mark") \/ Return(t))
    BY <1>2 DEF SendAcknowledgment, KeepsEntries, appVars, ledgerVars, envVars
  <2> QED
    BY <1>0, <1>t, <2>1, GotoMoves, ReturnMoves, MoveAccounts DEF Others, Holding
<1>3. CASE MarkPunching(t)
  <2> DEFINE b == UpdateBufferLibP2PState(buffers, tgt[t], "HolePunchingInProgress")
  <2>1. b \in Tables /\ \A s \in Peers : HasBuffer(buffers, s) => HasBuffer(b, s)
    BY <1>0, UpdateLibType, SameKeeps DEF ConnectionStates
  <2>2. TableStep(t, "mark", b, "schedule")
    BY <1>3 DEF MarkPunching
  <2> HIDE DEF b
  <2> QED
    BY <1>0, <2>1, <2>2, TableStepAccounts DEF Holding, CallPCs
<1>4. CASE ScheduleBuyerHolePunching(t)
  <2>1. KeepsEntries /\ pc[t] = "schedule" /\ Return(t)
    BY <1>4 DEF ScheduleBuyerHolePunching, KeepsEntries, appVars, ledgerVars, envVars
  <2> QED
    BY <1>0, <1>t, <2>1, ReturnMoves, MoveAccounts DEF Others, Holding
<1> QED
  BY <1>1, <1>2, <1>3, <1>4 DEF Callback

\* Hole punching only uses setters.
LEMMA PunchAccounts ==
    ASSUME TypeOK, AccountInv, NEW q \in Punchers, Puncher(q)
    PROVE  AccountInv'
<1>0. ptgt[q] \in Peers /\ buffers \in Tables
  BY DEF TypeOK, PunchOK
<1>1. \A s \in Peers : HasBuffer(buffers, s) => HasBuffer(buffers', s)
  <2>1. CASE PunchConnect(q)
    BY <2>1 DEF PunchConnect
  <2>2. CASE PunchRecord(q)
    <3>1. SameRequests(buffers, buffers')
      BY <1>0, <2>2, UpdateLibType, SetAddressType DEF PunchRecord, ConnectionStates, Addresses
    <3> QED
      BY <3>1, SameKeeps
  <2> QED
    BY <2>1, <2>2 DEF Puncher
<1>2. UNCHANGED <<pc, tgt, has, opened, removed, restarts>>
  BY DEF Puncher, PunchConnect, PunchRecord, PunchGoto, localVars, appVars, ledgerVars
<1> QED
  BY <1>1, <1>2, FrameAccounts DEF KeepsEntries

\* Removing an entry that is there gives every goroutine one more account for
\* that seller.
LEMMA RemoveAccounts ==
    ASSUME TypeOK, AccountInv, NEW t \in Apps, RemoveSeller(t)
    PROVE  AccountInv'
<1> DEFINE s == tgt[t]
<1>0. t \in Callers /\ s \in Peers
  BY DEF Callers, TypeOK, LocalsOK
<1>1. \A u \in Callers, r \in Peers :
         opened[u][r] \in Nat /\ removed[r] \in Nat /\ restarts \in Nat
  BY DEF TypeOK, LedgerOK, AppOK, EnvOK
<1>2. /\ UNCHANGED <<opened, restarts>>
      /\ \A r \in Peers \ {s} : removed'[r] = removed[r] /\ buffers'[r] = buffers[r]
      /\ removed'[s] = IF HasBuffer(buffers, s) THEN removed[s] + 1 ELSE removed[s]
  BY <1>0 DEF RemoveSeller, RemoveBuffer, ledgerVars, envVars, TypeOK, AppOK, Tables
<1>3. pc[t] = "remove" /\ Others(t) /\ pc'[t] = "idle"
  BY <1>0, ReturnMoves DEF RemoveSeller
<1>4. OneAccountPerGoroutine'
  BY <1>0, <1>1, <1>2 DEF AccountInv, OneAccountPerGoroutine
<1>5. AccountsAreRecorded'
  <2> SUFFICES ASSUME NEW u \in Callers, NEW r \in Peers,
                      \/ ~HasBuffer(buffers', r) /\ ~HoldsAccount(u, r)'
                      \/ FoundNoEntry(u, r)'
               PROVE  opened[u][r] <= removed'[r] + restarts
    BY <1>2 DEF AccountsAreRecorded, HasBuffer
  <2>1. CASE r = s /\ HasBuffer(buffers, s)
    BY <1>0, <1>1, <1>2, <2>1 DEF AccountInv, OneAccountPerGoroutine
  <2>2. CASE r # s \/ ~HasBuffer(buffers, s)
    <3>1. \/ ~HasBuffer(buffers, r) /\ ~HoldsAccount(u, r)
          \/ FoundNoEntry(u, r)
      BY <1>2, <1>3, <2>2 DEF HasBuffer, HoldsAccount, FoundNoEntry, Others
    <3> QED
      BY <1>2, <2>2, <3>1 DEF AccountInv, AccountsAreRecorded
  <2> QED
    BY <2>1, <2>2
<1> QED
  BY <1>4, <1>5 DEF AccountInv

\* ReplaceSellers: apart from the removal, the application enters processSeller
\* or changes its own lists.
LEMMA AppAccounts ==
    ASSUME TypeOK, AccountInv, NEW t \in Apps, App(t)
    PROVE  AccountInv'
<1>0. t \in Callers
  BY DEF Callers
<1>t. TypeOK'
  BY AppType
<1>1. ASSUME NEW new \in SUBSET Peers, NEW current \in SUBSET Peers,
             ReplaceSellers(t, new, current) \/ ReplaceSellersSimple(t, new)
      PROVE  AccountInv'
  <2>1. KeepsEntries /\ pc[t] = "idle" /\ (Goto(t, "verify") \/ Goto(t, "snapshot"))
    BY <1>1 DEF ReplaceSellers, ReplaceSellersSimple, Idle, KeepsEntries, ledgerVars, envVars
  <2> QED
    BY <1>0, <1>t, <2>1, GotoMoves, MoveAccounts DEF Others, Holding
<1>2. CASE VerifySellers(t) \/ SnapshotPeers(t)
  <2>1. KeepsEntries /\ pc[t] \in {"verify", "snapshot"} /\ Goto(t, "idle")
    BY <1>2 DEF VerifySellers, SnapshotPeers, KeepsEntries, ledgerVars, envVars
  <2> QED
    BY <1>0, <1>t, <2>1, GotoMoves, MoveAccounts DEF Others, Holding
<1>3. ASSUME NEW s \in Peers, AddSeller(t, s)
      PROVE  AccountInv'
  <2>1. KeepsEntries /\ pc[t] = "idle"
    BY <1>3 DEF AddSeller, KeepsEntries, ledgerVars, envVars
  <2>2. CASE EnterProcessSeller(t, s)
    BY <1>0, <1>t, <2>1, <2>2, EnterMoves
  <2>3. CASE UNCHANGED <<pc, localVars>>
    BY <2>1, <2>3, FrameAccounts DEF localVars
  <2> QED
    BY <1>3, <2>2, <2>3 DEF AddSeller
<1>4. ASSUME NEW s \in Peers, DisconnectSeller(t, s)
      PROVE  AccountInv'
  <2>1. KeepsEntries /\ pc[t] = "idle" /\ Call(t, s, "remove")
    BY <1>4 DEF DisconnectSeller, KeepsEntries, ledgerVars
  <2> QED
    BY <1>0, <1>t, <2>1, CallMoves, MoveAccounts DEF Others, Holding
<1> QED
  BY <1>1, <1>2, <1>3, <1>4, RemoveAccounts DEF App

\* The outside world does not open accounts; a restart empties the table and
\* gives every goroutine one more account for every seller.
LEMMA EnvironmentAccounts ==
    ASSUME TypeOK, AccountInv, Environment
    PROVE  AccountInv'
<1>1. ASSUME World, UNCHANGED restarts
      PROVE  AccountInv'
  <2>1. KeepsEntries /\ UNCHANGED <<pc, tgt, has>>
    BY <1>1 DEF World, KeepsEntries, localVars, appVars
  <2> QED
    BY <2>1, FrameAccounts
<1>2. ASSUME NEW s \in Peers,
             \/ SellerConnects(s) \/ ConnectionDrops(s)
             \/ SellerReportsWriteError(s) \/ SellerAsksToPunch(s)
      PROVE  AccountInv'
  BY <1>1, <1>2
  DEF SellerConnects, ConnectionDrops, SellerReportsWriteError, SellerAsksToPunch, World
<1>3. ASSUME NEW m \in inbox, LoseMessage(m)
      PROVE  AccountInv'
  BY <1>1, <1>3 DEF LoseMessage, World
<1>4. ASSUME NEW s \in Peers, NEW l \in Locations, Discover(s, l)
      PROVE  AccountInv'
  <2>1. KeepsEntries /\ UNCHANGED <<pc, tgt, has>>
    BY <1>4 DEF Discover, KeepsEntries, localVars, appVars, ledgerVars, envVars
  <2> QED
    BY <2>1, FrameAccounts
<1>5. CASE Tick
  <2>1. SameRequests(buffers, buffers')
    BY <1>5, AgeType DEF Tick, TypeOK
  <2>2. KeepsEntries /\ UNCHANGED <<pc, tgt, has>>
    BY <1>5, <2>1, SameKeeps DEF Tick, KeepsEntries, localVars, appVars, ledgerVars, envVars
  <2> QED
    BY <2>2, FrameAccounts
<1>6. CASE Restart
  <2>1. \A u \in Callers, r \in Peers :
           opened[u][r] \in Nat /\ removed[r] \in Nat /\ restarts \in Nat
    BY DEF TypeOK, LedgerOK, AppOK, EnvOK
  <2>2. UNCHANGED <<opened, removed>> /\ restarts' = restarts + 1
    BY <1>6 DEF Restart, ledgerVars
  <2> QED
    BY <2>1, <2>2 DEF AccountInv, OneAccountPerGoroutine, AccountsAreRecorded
<1> QED
  BY <1>2, <1>3, <1>4, <1>5, <1>6 DEF Environment

\* At the start nobody has opened an account.
LEMMA InitAccounts == Init => AccountInv
BY DEF Init, AccountInv, OneAccountPerGoroutine, AccountsAreRecorded

\* Every step keeps the accounts recorded.
LEMMA StepAccounts == TypeOK /\ AccountInv /\ [Next]_vars => AccountInv'
<1> SUFFICES ASSUME TypeOK, AccountInv, [Next]_vars PROVE AccountInv'
  OBVIOUS
<1>1. CASE UNCHANGED vars
  BY <1>1 DEF vars, AccountInv, OneAccountPerGoroutine, AccountsAreRecorded, HasBuffer,
              HoldsAccount, FoundNoEntry
<1>2. CASE Next
  BY <1>2, LoopAccounts, ProcessSellerAccounts, CallbackAccounts, AppAccounts,
     PunchAccounts, EnvironmentAccounts
  DEF Next, Callers
<1> QED
  BY <1>1, <1>2

\* No goroutine opens a second funded account for a seller unless the seller's
\* entry was removed or the buyer restarted in between, for any number of
\* goroutines in processSeller at once.
THEOREM OneAccountForEachGoroutine == Spec => []OneAccountPerGoroutine
<1>1. AccountInv => OneAccountPerGoroutine
  BY DEF AccountInv
<1> QED
  BY <1>1, TypeCorrect, InitAccounts, StepAccounts, PTL DEF Spec

\* Why: no account a goroutine opened goes unrecorded in the table.
THEOREM OpenedAccountsAreRecorded == Spec => []AccountsAreRecorded
<1>1. AccountInv => AccountsAreRecorded
  BY DEF AccountInv
<1> QED
  BY <1>1, TypeCorrect, InitAccounts, StepAccounts, PTL DEF Spec

-----------------------------------------------------------------------------
(* Requests name accounts of the seller they are sent to.  The strengthen- *)
(* ing, RequestsInHand, follows an envelope from where it is made or read  *)
(* to where it is sent or stored.                                          *)

PayInv == RequestsArePayable /\ RequestsInHand

\* What RequestsArePayable says of a table.
EntriesPayable(b) ==
    \A s \in Peers : HasBuffer(b, s) /\ b[s].valid => b[s].msg \in 1..accounts[s]

\* A step of goroutine t that opens no account, delivers nothing, leaves a
\* payable table and does not pick up an envelope.
LEMMA MovePayable ==
    ASSUME PayInv, NEW t \in Callers, UNCHANGED <<accounts, delivered>>,
           EntriesPayable(buffers'), Others(t),
           CarriesRequest(t)' => CarriesRequest(t) /\ tgt'[t] = tgt[t] /\ msg'[t] = msg[t]
    PROVE  PayInv'
<1>1. RequestsArePayable'
  BY DEF PayInv, RequestsArePayable, EntriesPayable, HasBuffer
<1>2. RequestsInHand'
  <2> SUFFICES ASSUME NEW u \in Callers, CarriesRequest(u)'
               PROVE  msg'[u] \in 1..accounts[tgt'[u]]
    BY DEF RequestsInHand
  <2>1. CASE u = t
    BY <2>1 DEF PayInv, RequestsInHand
  <2>2. CASE u # t
    BY <2>2 DEF PayInv, RequestsInHand, CarriesRequest, Others
  <2> QED
    BY <2>1, <2>2
<1> QED
  BY <1>1, <1>2 DEF PayInv

\* A step that touches neither the requests nor the goroutines.
LEMMA FramePayable ==
    ASSUME PayInv, UNCHANGED <<accounts, delivered, pc, tgt, has, msg>>,
           EntriesPayable(buffers')
    PROVE  PayInv'
BY DEF PayInv, RequestsArePayable, RequestsInHand, CarriesRequest, EntriesPayable, HasBuffer

\* A table with the same requests is as payable.
LEMMA SamePayable ==
    ASSUME PayInv, NEW b, SameRequests(buffers, b)
    PROVE  EntriesPayable(b)
BY DEF PayInv, RequestsArePayable, EntriesPayable, SameRequests

\* The table that is there is payable.
LEMMA UnchangedPayable == PayInv => EntriesPayable(buffers)
BY DEF PayInv, RequestsArePayable, EntriesPayable

\* A table operation to a payable table; the goroutine keeps its envelope, or
\* ends up where it carries none.
LEMMA TableStepPayable ==
    ASSUME TypeOK, PayInv, NEW t \in Callers, NEW from, NEW b,
           NEW to, TableStep(t, from, b, to), EntriesPayable(b),
           \/ to \in {"incr1", "send", "addOK", "addFail", "resend"}
           \/ has[t] /\ to \in {"conns", "check", "incr2"}
           => CarriesRequest(t)
    PROVE  PayInv'
<1>1. UNCHANGED <<accounts, delivered>> /\ buffers' = b
  BY DEF TableStep, ledgerVars
<1>2. /\ Others(t)
      /\ \/ pc'[t] = "idle"
         \/ /\ to # "return" /\ pc'[t] = to
            /\ tgt'[t] = tgt[t] /\ has'[t] = has[t] /\ msg'[t] = msg[t]
  BY GotoMoves, ReturnMoves DEF TableStep
<1>3. CarriesRequest(t)' => CarriesRequest(t) /\ tgt'[t] = tgt[t] /\ msg'[t] = msg[t]
  BY <1>2 DEF CarriesRequest
<1> QED
  BY <1>1, <1>2, <1>3, MovePayable

\* An entry made with a payable request, or a blacklisted one.
LEMMA AddedPayable ==
    ASSUME PayInv, buffers \in Tables, NEW p \in Peers, NEW m \in 1..accounts[p], m \in Nat,
           NEW r \in RendezvousStates, NEW l \in ConnectionStates
    PROVE  EntriesPayable(AddBuffer2(buffers, p, m, TRUE, r, l))
<1> DEFINE b == AddBuffer2(buffers, p, m, TRUE, r, l)
<1>1. b[p].msg = m
  BY DEF AddBuffer2, Tables
<1>2. ASSUME NEW s \in Peers, s # p PROVE b[s] = buffers[s]
  BY <1>2, AddBuffer2Others
<1> HIDE DEF b
<1>3. EntriesPayable(b)
  BY <1>1, <1>2 DEF EntriesPayable, PayInv, RequestsArePayable, HasBuffer
<1> QED
  BY <1>3 DEF b

\* A blacklisted entry has no request, and need not have one.
LEMMA BlacklistedPayable ==
    ASSUME PayInv, buffers \in Tables, NEW p \in Peers,
           NEW r \in RendezvousStates, NEW l \in ConnectionStates
    PROVE  EntriesPayable(AddBuffer2(buffers, p, NoMessage, FALSE, r, l))
<1> DEFINE b == AddBuffer2(buffers, p, NoMessage, FALSE, r, l)
<1>1. ~b[p].valid
  BY DEF AddBuffer2, Tables
<1>2. ASSUME NEW s \in Peers, s # p PROVE b[s] = buffers[s]
  BY <1>2 DEF AddBuffer2, Tables
<1> HIDE DEF b
<1>3. EntriesPayable(b)
  BY <1>1, <1>2 DEF EntriesPayable, PayInv, RequestsArePayable, HasBuffer
<1> QED
  BY <1>3 DEF b

\* A request in hand is delivered, or not, to the seller it was made for.
LEMMA SendPayable ==
    ASSUME TypeOK, PayInv, NEW t \in Callers, NEW l \in CallPCs, SendTo(tgt[t], msg[t]),
           CarriesRequest(t), Goto(t, l), UNCHANGED buffers
    PROVE  PayInv'
<1>0. tgt[t] \in Peers /\ msg[t] \in 1..accounts[tgt[t]]
  BY DEF TypeOK, LocalsOK, PayInv, RequestsInHand
<1>1. UNCHANGED accounts
  BY DEF SendTo
<1>2. \A s \in Peers : delivered'[s] \subseteq 1..accounts[s]
  <2>1. CASE UNCHANGED delivered
    BY <2>1 DEF PayInv, RequestsArePayable
  <2>2. CASE delivered' = [delivered EXCEPT ![tgt[t]] = @ \cup {msg[t]}]
    BY <1>0, <2>2 DEF PayInv, RequestsArePayable, TypeOK, LedgerOK
  <2> QED
    BY <2>1, <2>2 DEF SendTo
<1>3. RequestsArePayable'
  BY <1>1, <1>2 DEF PayInv, RequestsArePayable, HasBuffer
<1>4. RequestsInHand'
  <2> SUFFICES ASSUME NEW u \in Callers, CarriesRequest(u)'
               PROVE  msg'[u] \in 1..accounts[tgt'[u]]
    BY <1>1 DEF RequestsInHand
  <2>1. CASE u = t
    BY <1>0, <2>1, GotoMoves
  <2>2. CASE u # t
    <3>1. Others(t)
      BY GotoMoves
    <3> QED
      BY <2>2, <3>1 DEF PayInv, RequestsInHand, CarriesRequest, Others
  <2> QED
    BY <2>1, <2>2
<1> QED
  BY <1>3, <1>4 DEF PayInv

\* processSeller makes, reads, sends and stores payable requests only.
LEMMA ProcessSellerPayable ==
    ASSUME TypeOK, PayInv, NEW t \in Callers, processSeller(t)
    PROVE  PayInv'
<1>0. tgt[t] \in Peers /\ msg[t] \in Nat /\ buffers \in Tables
  BY DEF TypeOK, LocalsOK
<1>e. EntriesPayable(buffers)
  BY UnchangedPayable
<1>n. /\ "NotInitiated" \in RendezvousStates /\ "SendOK" \in RendezvousStates
      /\ "SendFail" \in RendezvousStates
      /\ "ConnectionLost" \in ConnectionStates /\ "Connecting" \in ConnectionStates
      /\ "CanNotConnectUnknownReason" \in ConnectionStates /\ "Connected" \in ConnectionStates
  BY DEF RendezvousStates, ConnectionStates
<1>1. CASE Lookup(t)
  <2>1. UNCHANGED <<buffers, accounts, delivered>>
    BY <1>1 DEF Lookup, ledgerVars
  <2>2. CASE Return(t)
    BY <1>e, <2>1, <2>2, ReturnMoves, MovePayable DEF CarriesRequest
  <2>3. CASE ~Blacklisted(tgt[t]) /\ pc' = [pc EXCEPT ![t] = "conns"] /\ ReadBuffer(t)
    <3>1. Others(t) /\ tgt' = tgt /\ pc'[t] = "conns"
      BY <2>3 DEF ReadBuffer, Others, TypeOK, LocalsOK
    <3>2. has'[t] => HasBuffer(buffers, tgt[t]) /\ msg'[t] = buffers[tgt[t]].msg
      BY <2>3 DEF ReadBuffer, TypeOK, LocalsOK
    <3>3. has'[t] => msg'[t] \in 1..accounts[tgt[t]]
      BY <1>0, <1>e, <2>3, <3>2 DEF Blacklisted, EntriesPayable, HasBuffer
    <3>4. RequestsInHand'
      <4> SUFFICES ASSUME NEW u \in Callers, CarriesRequest(u)'
                   PROVE  msg'[u] \in 1..accounts[tgt[u]]
        BY <2>1, <3>1 DEF RequestsInHand
      <4>1. CASE u = t
        BY <3>1, <3>3, <4>1 DEF CarriesRequest
      <4>2. CASE u # t
        BY <3>1, <4>2 DEF PayInv, RequestsInHand, CarriesRequest, Others
      <4> QED
        BY <4>1, <4>2
    <3>5. RequestsArePayable'
      BY <2>1 DEF PayInv, RequestsArePayable, HasBuffer
    <3> QED
      BY <3>4, <3>5 DEF PayInv
  <2> QED
    BY <1>1, <2>2, <2>3 DEF Lookup
<1>2. CASE ConnsToPeer(t)
  <2>1. UNCHANGED <<buffers, accounts, delivered>> /\ pc[t] = "conns"
    BY <1>2 DEF ConnsToPeer, ledgerVars
  <2>2. CASE Goto(t, "prepare") \/ Goto(t, "rdvConn") \/ Return(t)
    BY <1>e, <2>1, <2>2, GotoMoves, ReturnMoves, MovePayable DEF CarriesRequest
  <2>3. CASE has[t] /\ Goto(t, "check")
    BY <1>e, <2>1, <2>3, GotoMoves, MovePayable DEF CarriesRequest
  <2> QED
    BY <1>2, <2>2, <2>3 DEF ConnsToPeer
<1>3. CASE CloseUnknownPeer(t)
  <2>1. UNCHANGED <<buffers, accounts, delivered>> /\ Return(t)
    BY <1>3 DEF CloseUnknownPeer, ledgerVars
  <2> QED
    BY <1>e, <2>1, ReturnMoves, MovePayable DEF CarriesRequest
<1>4. CASE PrepareServiceRequest(t)
  <2>1. /\ pc[t] = "prepare" /\ Others(t) /\ tgt' = tgt
        /\ UNCHANGED <<buffers, delivered>>
        /\ \/ pc'[t] = "blacklist"
           \/ msg'[t] = accounts'[tgt[t]]
    BY <1>0, <1>4, GotoMoves
    DEF PrepareServiceRequest, Goto, localVars, Others, TypeOK, LocalsOK, LedgerOK
  <2>2. \A s \in Peers : /\ accounts[s] \in Nat /\ accounts'[s] \in Nat
                         /\ accounts[s] <= accounts'[s]
    <3>1. CASE UNCHANGED accounts
      BY <3>1 DEF TypeOK, LedgerOK
    <3>2. CASE accounts' = [accounts EXCEPT ![tgt[t]] = @ + 1]
      BY <1>0, <3>2 DEF TypeOK, LedgerOK
    <3> QED
      BY <1>4, <3>1, <3>2 DEF PrepareServiceRequest
  <2>3. (msg'[t] = accounts'[tgt[t]] /\ accounts'[tgt[t]] > 0) \/ pc'[t] = "blacklist"
    BY <1>0, <1>4, <2>1, GotoMoves
    DEF PrepareServiceRequest, TypeOK, LocalsOK, LedgerOK
  <2>4. RequestsArePayable'
    BY <2>1, <2>2 DEF PayInv, RequestsArePayable, HasBuffer
  <2>5. RequestsInHand'
    <3> SUFFICES ASSUME NEW u \in Callers, CarriesRequest(u)'
                 PROVE  msg'[u] \in 1..accounts'[tgt[u]]
      BY <2>1 DEF RequestsInHand
    <3>1. CASE u = t
      BY <1>0, <2>2, <2>3, <3>1 DEF CarriesRequest
    <3>2. CASE u # t
      <4>1. msg[u] \in 1..accounts[tgt[u]] /\ tgt[u] \in Peers /\ msg'[u] = msg[u]
        BY <2>1, <3>2 DEF PayInv, RequestsInHand, CarriesRequest, Others, TypeOK, LocalsOK
      <4> QED
        BY <2>2, <4>1
    <3> QED
      BY <3>1, <3>2
  <2> QED
    BY <2>4, <2>5 DEF PayInv
<1>5. CASE Blacklist(t)
  <2> DEFINE b == AddBuffer2(buffers, tgt[t], NoMessage, FALSE, "NotInitiated", "ConnectionLost")
  <2>1. EntriesPayable(b)
    BY <1>0, <1>n, BlacklistedPayable
  <2>2. TableStep(t, "blacklist", b, "return")
    BY <1>5 DEF Blacklist
  <2> HIDE DEF b
  <2> QED
    BY <2>1, <2>2, TableStepPayable
<1>6. CASE CountFirstAttempt(t)
  <2> DEFINE b == IncrementReconnectAttempts(buffers, tgt[t])
  <2>1. EntriesPayable(b)
    BY <1>0, IncrementType, SamePayable
  <2>2. TableStep(t, "incr1", b, "send") /\ CarriesRequest(t)
    BY <1>6 DEF CountFirstAttempt, TableStep, CarriesRequest
  <2> HIDE DEF b
  <2> QED
    BY <2>1, <2>2, TableStepPayable
<1>7. CASE SendRequest(t)
  <2>1. /\ SendTo(tgt[t], msg[t]) /\ CarriesRequest(t) /\ UNCHANGED buffers
        /\ Goto(t, "addOK") \/ Goto(t, "addFail")
    BY <1>7 DEF SendRequest, CarriesRequest
  <2> QED
    BY <2>1, SendPayable DEF CallPCs
<1>8. CASE AddAfterFailedSend(t)
  <2> DEFINE b == AddBuffer2(buffers, tgt[t], msg[t], TRUE, "SendFail", "Connecting")
  <2>1. TableStep(t, "addFail", b, "return") /\ CarriesRequest(t)
    BY <1>8 DEF AddAfterFailedSend, TableStep, CarriesRequest
  <2>2. EntriesPayable(b)
    BY <1>0, <1>n, <2>1, AddedPayable DEF PayInv, RequestsInHand
  <2> HIDE DEF b
  <2> QED
    BY <2>1, <2>2, TableStepPayable
<1>9. CASE AddAfterSend(t)
  <2> DEFINE b == AddBuffer2(buffers, tgt[t], msg[t], TRUE, "SendOK", "Connecting")
  <2>1. TableStep(t, "addOK", b, "incr2") /\ CarriesRequest(t)
    BY <1>9 DEF AddAfterSend, TableStep, CarriesRequest
  <2>2. EntriesPayable(b)
    BY <1>0, <1>n, <2>1, AddedPayable DEF PayInv, RequestsInHand
  <2> HIDE DEF b
  <2> QED
    BY <2>1, <2>2, TableStepPayable
<1>10. CASE CheckTooEarly(t)
  <2>1. pc[t] = "check"
        /\ (TableStep(t, "check", buffers, "return") \/ TableStep(t, "check", buffers, "incr2"))
    BY <1>10 DEF CheckTooEarly, TableStep
  <2> QED
    BY <1>e, <2>1, TableStepPayable DEF CarriesRequest
<1>11. CASE CountAttempt(t)
  <2> DEFINE b == IncrementReconnectAttempts(buffers, tgt[t])
  <2>1. EntriesPayable(b)
    BY <1>0, IncrementType, SamePayable
  <2>2. /\ pc[t] = "incr2"
        /\ \/ has[t] /\ TableStep(t, "incr2", b, "resend")
           \/ TableStep(t, "incr2", b, "return")
    BY <1>11 DEF CountAttempt, TableStep
  <2> HIDE DEF b
  <2> QED
    BY <2>1, <2>2, TableStepPayable DEF CarriesRequest
<1>12. CASE ResendRequest(t)
  <2>1. /\ SendTo(tgt[t], msg[t]) /\ CarriesRequest(t) /\ UNCHANGED buffers
        /\ Goto(t, "rdvOK") \/ Goto(t, "rdvFail")
    BY <1>12 DEF ResendRequest, CarriesRequest
  <2> QED
    BY <2>1, SendPayable DEF CallPCs
<1>13. CASE MarkRendezvous(t)
  <2>1. ASSUME NEW r \in RendezvousStates
        PROVE  EntriesPayable(UpdateBufferRendezvousState(buffers, tgt[t], r))
    BY <1>0, UpdateRendezvousType, SamePayable
  <2> QED
    BY <1>n, <1>13, <2>1, TableStepPayable DEF MarkRendezvous
<1>14. CASE MarkResent(t)
  <2>1. ASSUME NEW l \in ConnectionStates
        PROVE  EntriesPayable(UpdateBufferLibP2PState(buffers, tgt[t], l))
    BY <1>0, UpdateLibType, SamePayable
  <2> QED
    BY <1>n, <1>14, <2>1, TableStepPayable DEF MarkResent
<1>15. CASE MarkConnected(t)
  <2>1. EntriesPayable(UpdateBufferLibP2PState(buffers, tgt[t], "Connected"))
    BY <1>0, <1>n, UpdateLibType, SamePayable
  <2>2. EntriesPayable(buffers') /\ UNCHANGED <<accounts, delivered>> /\ Goto(t, "addrConn")
    BY <1>15, <2>1 DEF MarkConnected, ledgerVars
  <2> QED
    BY <2>2, GotoMoves, MovePayable DEF CarriesRequest
<1>16. CASE SetRemoteAddress(t)
  <2> DEFINE b == SetLastOtherSideMultiAddress(buffers, tgt[t], "transport")
  <2>1. EntriesPayable(b)
    BY <1>0, SetAddressType, SamePayable DEF Addresses
  <2>2. TableStep(t, "addrConn", b, "return")
    BY <1>16 DEF SetRemoteAddress
  <2> HIDE DEF b
  <2> QED
    BY <2>1, <2>2, TableStepPayable
<1> QED
  BY <1>1, <1>2, <1>3, <1>4, <1>5, <1>6, <1>7, <1>8, <1>9, <1>10, <1>11,
     <1>12, <1>13, <1>14, <1>15, <1>16 DEF processSeller

\* A goroutine that enters processSeller carries no envelope.
LEMMA EnterPayable ==
    ASSUME TypeOK, PayInv, NEW t \in Callers, NEW s \in Peers,
           UNCHANGED <<buffers, accounts, delivered>>, EnterProcessSeller(t, s)
    PROVE  PayInv'
<1>0. EntriesPayable(buffers')
  BY UnchangedPayable
<1>1. CASE Call(t, s, "lookup")
  BY <1>0, <1>1, CallMoves, MovePayable DEF CarriesRequest
<1>2. CASE UNCHANGED <<pc, localVars>>
  BY <1>0, <1>2, FramePayable DEF localVars
<1> QED
  BY <1>1, <1>2 DEF EnterProcessSeller

\* The processing loop sends only what processSeller sends.
LEMMA LoopPayable ==
    ASSUME TypeOK, PayInv, TheLoop
    PROVE  PayInv'
<1>0. Loop \in Callers /\ EntriesPayable(buffers)
  BY UnchangedPayable DEF Callers
<1>1. CASE StartSecondLoop \/ CopySellers \/ LoopSleeps
  <2>1. UNCHANGED <<buffers, accounts, delivered, pc, tgt, has, msg>>
    BY <1>1 DEF StartSecondLoop, CopySellers, LoopSleeps, ledgerVars, localVars
  <2> QED
    BY <1>0, <2>1, FramePayable
<1>2. ASSUME NEW x \in Peers \X Locations, NextSeller(x)
      PROVE  PayInv'
  <2>1. /\ UNCHANGED <<buffers, accounts, delivered>>
        /\ x[1] \in Peers /\ EnterProcessSeller(Loop, x[1])
    BY <1>2 DEF NextSeller, ledgerVars
  <2> QED
    BY <1>0, <2>1, EnterPayable
<1> QED
  BY <1>0, <1>1, <1>2, ProcessSellerPayable DEF TheLoop

\* The topic callback, outside processSeller, writes no request.
LEMMA CallbackPayable ==
    ASSUME TypeOK, PayInv, NEW t \in Callbacks, Callback(t)
    PROVE  PayInv'
<1>0. t \in Callers /\ tgt[t] \in Peers /\ buffers \in Tables /\ EntriesPayable(buffers)
  BY UnchangedPayable DEF Callers, TypeOK, LocalsOK
<1>1. ASSUME NEW m \in inbox, TopicCallback(t, m)
      PROVE  PayInv'
  <2>1. UNCHANGED <<buffers, accounts, delivered>>
    BY <1>1 DEF TopicCallback, ledgerVars
  <2>2. m.seller \in Peers
    BY DEF TypeOK, EnvOK, Messages
  <2>3. CASE EnterProcessSeller(t, m.seller)
    BY <1>0, <2>1, <2>2, <2>3, EnterPayable
  <2>4. CASE Call(t, m.seller, "ack")
    BY <1>0, <2>1, <2>2, <2>4, CallMoves, MovePayable DEF CarriesRequest
  <2>5. CASE UNCHANGED <<pc, localVars>>
    BY <1>0, <2>1, <2>5, FramePayable DEF localVars
  <2> QED
    BY <1>1, <2>3, <2>4, <2>5 DEF TopicCallback
<1>2. CASE SendAcknowledgment(t)
  <2>1. UNCHANGED <<buffers, accounts, delivered>> /\ (Goto(t, "mark") \/ Return(t))
    BY <1>2 DEF SendAcknowledgment, ledgerVars
  <2> QED
    BY <1>0, <2>1, GotoMoves, ReturnMoves, MovePayable DEF CarriesRequest
<1>3. CASE MarkPunching(t)
  <2> DEFINE b == UpdateBufferLibP2PState(buffers, tgt[t], "HolePunchingInProgress")
  <2>1. EntriesPayable(b)
    BY <1>0, UpdateLibType, SamePayable DEF ConnectionStates
  <2>2. TableStep(t, "mark", b, "schedule")
    BY <1>3 DEF MarkPunching
  <2> HIDE DEF b
  <2> QED
    BY <1>0, <2>1, <2>2, TableStepPayable
<1>4. CASE ScheduleBuyerHolePunching(t)
  <2>1. UNCHANGED <<buffers, accounts, delivered>> /\ Return(t)
    BY <1>4 DEF ScheduleBuyerHolePunching, ledgerVars
  <2> QED
    BY <1>0, <2>1, ReturnMoves, MovePayable DEF CarriesRequest
<1> QED
  BY <1>1, <1>2, <1>3, <1>4 DEF Callback

\* Hole punching changes the state of an entry, never its request.
LEMMA PunchPayable ==
    ASSUME TypeOK, PayInv, NEW q \in Punchers, Puncher(q)
    PROVE  PayInv'
<1>0. ptgt[q] \in Peers /\ buffers \in Tables
  BY DEF TypeOK, PunchOK
<1>1. SameRequests(buffers, buffers')
  <2>1. CASE PunchConnect(q)
    BY <2>1, SameTable DEF PunchConnect
  <2>2. CASE PunchRecord(q)
    BY <1>0, <2>2, UpdateLibType, SetAddressType DEF PunchRecord, ConnectionStates, Addresses
  <2> QED
    BY <2>1, <2>2 DEF Puncher
<1>2. UNCHANGED <<accounts, delivered, pc, tgt, has, msg>>
  BY DEF Puncher, PunchConnect, PunchRecord, PunchGoto, localVars, ledgerVars
<1> QED
  BY <1>1, <1>2, SamePayable, FramePayable

\* ReplaceSellers removes entries and calls processSeller.
LEMMA AppPayable ==
    ASSUME TypeOK, PayInv, NEW t \in Apps, App(t)
    PROVE  PayInv'
<1>0. t \in Callers /\ tgt[t] \in Peers /\ EntriesPayable(buffers)
  BY UnchangedPayable DEF Callers, TypeOK, LocalsOK
<1>1. ASSUME NEW new \in SUBSET Peers, NEW current \in SUBSET Peers,
             ReplaceSellers(t, new, current) \/ ReplaceSellersSimple(t, new)
      PROVE  PayInv'
  <2>1. /\ UNCHANGED <<buffers, accounts, delivered>>
        /\ Goto(t, "verify") \/ Goto(t, "snapshot")
    BY <1>1 DEF ReplaceSellers, ReplaceSellersSimple, ledgerVars
  <2> QED
    BY <1>0, <2>1, GotoMoves, MovePayable DEF CarriesRequest
<1>2. CASE VerifySellers(t) \/ SnapshotPeers(t)
  <2>1. UNCHANGED <<buffers, accounts, delivered>> /\ Goto(t, "idle")
    BY <1>2 DEF VerifySellers, SnapshotPeers, ledgerVars
  <2> QED
    BY <1>0, <2>1, GotoMoves, MovePayable DEF CarriesRequest
<1>3. ASSUME NEW s \in Peers, AddSeller(t, s)
      PROVE  PayInv'
  <2>1. UNCHANGED <<buffers, accounts, delivered>>
    BY <1>3 DEF AddSeller, ledgerVars
  <2>2. CASE EnterProcessSeller(t, s)
    BY <1>0, <2>1, <2>2, EnterPayable
  <2>3. CASE UNCHANGED <<pc, localVars>>
    BY <1>0, <2>1, <2>3, FramePayable DEF localVars
  <2> QED
    BY <1>3, <2>2, <2>3 DEF AddSeller
<1>4. ASSUME NEW s \in Peers, DisconnectSeller(t, s)
      PROVE  PayInv'
  <2>1. UNCHANGED <<buffers, accounts, delivered>> /\ Call(t, s, "remove")
    BY <1>4 DEF DisconnectSeller, ledgerVars
  <2> QED
    BY <1>0, <2>1, CallMoves, MovePayable DEF CarriesRequest
<1>5. CASE RemoveSeller(t)
  <2>1. EntriesPayable(RemoveBuffer(buffers, tgt[t]))
    BY <1>0 DEF EntriesPayable, RemoveBuffer, HasBuffer, TypeOK, Tables
  <2>2. buffers' = RemoveBuffer(buffers, tgt[t]) /\ UNCHANGED <<accounts, delivered>> /\ Return(t)
    BY <1>5 DEF RemoveSeller, ledgerVars
  <2> QED
    BY <1>0, <2>1, <2>2, ReturnMoves, MovePayable DEF CarriesRequest
<1> QED
  BY <1>1, <1>2, <1>3, <1>4, <1>5 DEF App

\* The outside world writes no request; a restart drops them all.
LEMMA EnvironmentPayable ==
    ASSUME TypeOK, PayInv, Environment
    PROVE  PayInv'
<1>0. EntriesPayable(buffers)
  BY UnchangedPayable
<1>1. ASSUME World
      PROVE  PayInv'
  <2>1. UNCHANGED <<buffers, accounts, delivered, pc, tgt, has, msg>>
    BY <1>1 DEF World, localVars
  <2> QED
    BY <1>0, <2>1, FramePayable
<1>2. ASSUME NEW s \in Peers,
             \/ SellerConnects(s) \/ ConnectionDrops(s)
             \/ SellerReportsWriteError(s) \/ SellerAsksToPunch(s)
      PROVE  PayInv'
  BY <1>1, <1>2 DEF SellerConnects, ConnectionDrops, SellerReportsWriteError, SellerAsksToPunch
<1>3. ASSUME NEW m \in inbox, LoseMessage(m)
      PROVE  PayInv'
  BY <1>1, <1>3 DEF LoseMessage
<1>4. ASSUME NEW s \in Peers, NEW l \in Locations, Discover(s, l)
      PROVE  PayInv'
  <2>1. UNCHANGED <<buffers, accounts, delivered, pc, tgt, has, msg>>
    BY <1>4 DEF Discover, localVars, ledgerVars
  <2> QED
    BY <1>0, <2>1, FramePayable
<1>5. CASE Tick
  <2>1. SameRequests(buffers, buffers')
    BY <1>5, AgeType DEF Tick, TypeOK
  <2>2. UNCHANGED <<accounts, delivered, pc, tgt, has, msg>>
    BY <1>5 DEF Tick, localVars, ledgerVars
  <2> QED
    BY <2>1, <2>2, SamePayable, FramePayable
<1>6. CASE Restart
  <2>1. UNCHANGED <<accounts, delivered>>
    BY <1>6 DEF Restart, ledgerVars
  <2>2. RequestsArePayable'
    BY <1>6, <2>1 DEF Restart, NewNodeBuffers, PayInv, RequestsArePayable, HasBuffer
  <2>3. RequestsInHand'
    BY <1>6 DEF Restart, RequestsInHand, CarriesRequest
  <2> QED
    BY <2>2, <2>3 DEF PayInv
<1> QED
  BY <1>2, <1>3, <1>4, <1>5, <1>6 DEF Environment

\* At the start there is no request anywhere.
LEMMA InitPayable == Init => PayInv
BY DEF Init, NewNodeBuffers, PayInv, RequestsArePayable, RequestsInHand, CarriesRequest, HasBuffer

\* Every step keeps the requests payable.
LEMMA StepPayable == TypeOK /\ PayInv /\ [Next]_vars => PayInv'
<1> SUFFICES ASSUME TypeOK, PayInv, [Next]_vars PROVE PayInv'
  OBVIOUS
<1>1. CASE UNCHANGED vars
  BY <1>1 DEF vars, PayInv, RequestsArePayable, RequestsInHand, CarriesRequest, HasBuffer
<1>2. CASE Next
  BY <1>2, LoopPayable, ProcessSellerPayable, CallbackPayable, AppPayable,
     PunchPayable, EnvironmentPayable
  DEF Next, Callers
<1> QED
  BY <1>1, <1>2

\* Every request delivered to a seller, and every valid entry of the table,
\* names an account that was opened for that seller.
THEOREM DeliveredRequestsArePayable == Spec => []RequestsArePayable
<1>1. PayInv => RequestsArePayable
  BY DEF PayInv
<1> QED
  BY <1>1, TypeCorrect, InitPayable, StepPayable, PTL DEF Spec

-----------------------------------------------------------------------------
(* The buyer keeps the promise of SharedAccounts: its steps open an        *)
(* account, deliver a request, forget sellers or change nothing the ledger *)
(* could see.                                                              *)

\* A step the ledger does not see stutters in SharedAccounts.
LEMMA UnseenStep ==
    ASSUME UNCHANGED <<accounts, delivered, opened, removed, restarts>>
    PROVE  UNCHANGED Promise!vars
BY DEF Promise!vars

\* A caller that is about to open an account may, as AccountsAreRecorded says.
LEMMA PrepareRefines ==
    ASSUME TypeOK, AccountInv, NEW t \in Callers, PrepareServiceRequest(t)
    PROVE  [Promise!Next]_(Promise!vars)
<1>0. tgt[t] \in Peers /\ pc[t] = "prepare"
  BY DEF PrepareServiceRequest, TypeOK, LocalsOK
<1>1. UNCHANGED <<delivered, removed, restarts>>
  BY DEF PrepareServiceRequest, appVars, envVars
<1>2. CASE UNCHANGED <<accounts, opened>>
  BY <1>1, <1>2, UnseenStep
<1>3. CASE /\ accounts' = [accounts EXCEPT ![tgt[t]] = @ + 1]
           /\ opened' = [opened EXCEPT ![t][tgt[t]] = @ + 1]
  <2>1. FoundNoEntry(t, tgt[t])
    BY <1>0 DEF FoundNoEntry
  <2>2. opened[t][tgt[t]] <= removed[tgt[t]] + restarts
    BY <1>0, <2>1 DEF AccountInv, AccountsAreRecorded
  <2>3. Promise!Open(t, tgt[t])
    BY <1>0, <1>1, <1>3, <2>2 DEF Promise!Open
  <2> QED
    BY <1>0, <2>3 DEF Promise!Next
<1> QED
  BY <1>2, <1>3 DEF PrepareServiceRequest

\* A request that goes out names an account of its seller, as PayInv says.
LEMMA SendRefines ==
    ASSUME TypeOK, PayInv, NEW t \in Callers, SendRequest(t) \/ ResendRequest(t)
    PROVE  [Promise!Next]_(Promise!vars)
<1>0. tgt[t] \in Peers /\ CarriesRequest(t)
  BY DEF SendRequest, ResendRequest, CarriesRequest, TypeOK, LocalsOK
<1>1. UNCHANGED <<accounts, opened, removed, restarts>> /\ SendTo(tgt[t], msg[t])
  BY DEF SendRequest, ResendRequest, SendTo, appVars, envVars
<1>2. CASE UNCHANGED delivered
  BY <1>1, <1>2, UnseenStep
<1>3. CASE delivered' = [delivered EXCEPT ![tgt[t]] = @ \cup {msg[t]}]
  <2>1. msg[t] \in 1..accounts[tgt[t]]
    BY <1>0 DEF PayInv, RequestsInHand
  <2>2. Promise!Deliver(tgt[t])
    BY <1>1, <1>3, <2>1 DEF Promise!Deliver
  <2> QED
    BY <1>0, <2>2 DEF Promise!Next
<1> QED
  BY <1>1, <1>2, <1>3 DEF SendTo

\* The other steps of processSeller do not concern the ledger.
LEMMA ProcessSellerRefines ==
    ASSUME TypeOK, AccountInv, PayInv, NEW t \in Callers, processSeller(t)
    PROVE  [Promise!Next]_(Promise!vars)
<1>1. ASSUME NEW from, NEW b, NEW to, TableStep(t, from, b, to)
      PROVE  UNCHANGED Promise!vars
  BY <1>1, UnseenStep DEF TableStep, ledgerVars, appVars, envVars
<1>2. CASE \/ Blacklist(t) \/ CountFirstAttempt(t) \/ AddAfterFailedSend(t)
           \/ AddAfterSend(t) \/ CountAttempt(t) \/ SetRemoteAddress(t)
           \/ CheckTooEarly(t) \/ MarkRendezvous(t) \/ MarkResent(t)
  BY <1>1, <1>2 DEF Blacklist, CountFirstAttempt, AddAfterFailedSend, AddAfterSend,
                    CountAttempt, SetRemoteAddress, CheckTooEarly, MarkRendezvous, MarkResent
<1>3. CASE Lookup(t) \/ ConnsToPeer(t) \/ CloseUnknownPeer(t) \/ MarkConnected(t)
  BY <1>3, UnseenStep
     DEF Lookup, ConnsToPeer, CloseUnknownPeer, MarkConnected, ledgerVars, appVars, envVars
<1> QED
  BY <1>2, <1>3, PrepareRefines, SendRefines DEF processSeller

\* Removing a seller's entry forgets him; without an entry nothing changes.
LEMMA RemoveRefines ==
    ASSUME TypeOK, NEW t \in Callers, RemoveSeller(t)
    PROVE  [Promise!Next]_(Promise!vars)
<1>0. tgt[t] \in Peers /\ removed \in [Peers -> Nat] /\ restarts \in Nat
  BY DEF TypeOK, LocalsOK, AppOK, EnvOK
<1>1. /\ UNCHANGED <<accounts, delivered, opened, restarts>>
      /\ removed' = [removed EXCEPT ![tgt[t]] = IF HasBuffer(buffers, tgt[t]) THEN @ + 1 ELSE @]
  BY DEF RemoveSeller, ledgerVars, envVars
<1>2. CASE HasBuffer(buffers, tgt[t])
  <2>1. PICK x \in Peers : x = tgt[t]
    BY <1>0
  <2>2. \A s \in Peers : removed'[s] + restarts' =
          IF s \in {x} THEN removed[s] + restarts + 1 ELSE removed[s] + restarts
    BY <1>0, <1>1, <1>2, <2>1
  <2>3. Promise!Forget({x})
    BY <1>1, <2>2 DEF Promise!Forget
  <2> QED
    BY <2>3, Zenon DEF Promise!Next
<1>3. CASE ~HasBuffer(buffers, tgt[t])
  <2>1. removed' = removed
    BY <1>0, <1>1, <1>3
  <2> QED
    BY <1>1, <2>1, UnseenStep
<1> QED
  BY <1>2, <1>3

\* A restart forgets every seller.
LEMMA RestartRefines ==
    ASSUME TypeOK, Restart
    PROVE  Promise!Next
<1>0. removed \in [Peers -> Nat] /\ restarts \in Nat
  BY DEF TypeOK, AppOK, EnvOK
<1>1. UNCHANGED <<accounts, delivered, opened, removed>> /\ restarts' = restarts + 1
  BY DEF Restart, ledgerVars
<1>2. \A s \in Peers : removed'[s] + restarts' =
        IF s \in Peers THEN removed[s] + restarts + 1 ELSE removed[s] + restarts
  BY <1>0, <1>1
<1>3. Promise!Forget(Peers)
  BY <1>1, <1>2 DEF Promise!Forget
<1> QED
  BY <1>3 DEF Promise!Next

\* Every step of the buyer and its world is a step of SharedAccounts.
LEMMA StepRefines ==
    ASSUME TypeOK, AccountInv, PayInv, [Next]_vars
    PROVE  [Promise!Next]_(Promise!vars)
<1> USE DEF ledgerVars, appVars, envVars
<1>1. CASE UNCHANGED vars
  BY <1>1, UnseenStep DEF vars
<1>2. CASE TheLoop
  <2>1. CASE StartSecondLoop \/ CopySellers \/ LoopSleeps
    BY <2>1, UnseenStep DEF StartSecondLoop, CopySellers, LoopSleeps
  <2>2. ASSUME NEW x, NextSeller(x) PROVE UNCHANGED Promise!vars
    BY <2>2, UnseenStep DEF NextSeller
  <2>3. Loop \in Callers
    BY DEF Callers
  <2> QED
    BY <1>2, <2>1, <2>2, <2>3, ProcessSellerRefines DEF TheLoop
<1>3. ASSUME NEW t \in Callbacks, Callback(t)
      PROVE  UNCHANGED Promise!vars
  <2>1. ASSUME NEW m, TopicCallback(t, m) PROVE UNCHANGED Promise!vars
    BY <2>1, UnseenStep DEF TopicCallback
  <2>2. CASE SendAcknowledgment(t) \/ MarkPunching(t) \/ ScheduleBuyerHolePunching(t)
    BY <2>2, UnseenStep DEF SendAcknowledgment, MarkPunching, TableStep, ScheduleBuyerHolePunching
  <2> QED
    BY <1>3, <2>1, <2>2 DEF Callback
<1>4. ASSUME NEW t \in Apps, App(t)
      PROVE  [Promise!Next]_(Promise!vars)
  <2>1. ASSUME NEW new, NEW current,
               ReplaceSellers(t, new, current) \/ ReplaceSellersSimple(t, new)
        PROVE  UNCHANGED Promise!vars
    BY <2>1, UnseenStep DEF ReplaceSellers, ReplaceSellersSimple
  <2>2. CASE VerifySellers(t) \/ SnapshotPeers(t)
    BY <2>2, UnseenStep DEF VerifySellers, SnapshotPeers
  <2>3. ASSUME NEW s, AddSeller(t, s) \/ DisconnectSeller(t, s)
        PROVE  UNCHANGED Promise!vars
    BY <2>3, UnseenStep DEF AddSeller, DisconnectSeller
  <2>4. t \in Callers
    BY DEF Callers
  <2> QED
    BY <1>4, <2>1, <2>2, <2>3, <2>4, RemoveRefines DEF App
<1>5. ASSUME NEW q \in Punchers, Puncher(q)
      PROVE  UNCHANGED Promise!vars
  BY <1>5, UnseenStep DEF Puncher, PunchConnect, PunchRecord, PunchGoto
<1>6. CASE Environment
  <2>1. ASSUME World PROVE UNCHANGED Promise!vars
    BY <2>1, UnseenStep DEF World
  <2>2. ASSUME NEW s, \/ SellerConnects(s) \/ ConnectionDrops(s)
                      \/ SellerReportsWriteError(s) \/ SellerAsksToPunch(s)
        PROVE  UNCHANGED Promise!vars
    BY <2>1, <2>2 DEF SellerConnects, ConnectionDrops, SellerReportsWriteError, SellerAsksToPunch
  <2>3. ASSUME NEW m, LoseMessage(m) PROVE UNCHANGED Promise!vars
    BY <2>1, <2>3 DEF LoseMessage
  <2>4. ASSUME NEW s, NEW l, Discover(s, l) PROVE UNCHANGED Promise!vars
    BY <2>4, UnseenStep DEF Discover
  <2>5. CASE Tick
    BY <2>5, UnseenStep DEF Tick
  <2> QED
    BY <1>6, <2>2, <2>3, <2>4, <2>5, RestartRefines DEF Environment
<1> QED
  BY <1>1, <1>2, <1>3, <1>4, <1>5, <1>6, ProcessSellerRefines DEF Next, Callers

\* The buyer implements SharedAccounts: whatever its goroutines, its callers,
\* the topics and the crashes do, an account is opened only for a seller who
\* was forgotten since, and requests name accounts of their own seller.
THEOREM KeepsSharedAccounts == Spec => ImplementsSharedAccounts
<1>1. Init => Promise!Init
  <2> SUFFICES ASSUME Init PROVE Promise!Init
    OBVIOUS
  <2>1. /\ accounts = [s \in Peers |-> 0] /\ delivered = [s \in Peers |-> {}]
        /\ opened = [t \in Callers |-> [s \in Peers |-> 0]]
        /\ removed = [s \in Peers |-> 0] /\ restarts = 0
    BY DEF Init
  <2>2. ASSUME NEW s \in Peers PROVE removed[s] + restarts = 0
    <3>1. removed[s] = 0 /\ restarts = 0
      BY <2>1
    <3> QED
      BY <3>1
  <2> QED
    BY <2>1, <2>2 DEF Promise!Init
<1> QED
  BY <1>1, TypeCorrect, InitAccounts, StepAccounts, InitPayable, StepPayable, StepRefines, PTL
  DEF Spec, ImplementsSharedAccounts, Promise!Spec

-----------------------------------------------------------------------------
(* A buyer in which the processing loop alone calls processSeller: no      *)
(* application replaces sellers and no seller reports write errors.        *)
(* Sellers, positions, callbacks that handle punching, punching goroutines *)
(* and restarts are as many as one likes.                                  *)

\* Nobody else calls processSeller.
Alone == Apps = {} /\ Reporting = {}

PunchingPCs == {"idle", "ack", "mark", "schedule"}

\* No message asks the callback to call processSeller, and none is doing so.
OnlyLoopCalls ==
    /\ \A m \in inbox : m.type = "punchMeRequest"
    /\ \A t \in Callbacks : pc[t] \in PunchingPCs

\* Past its look at the table the loop works on a seller who is not banned.
LoopIsAllowed == pc[Loop] \notin {"idle", "lookup"} => ~Blacklisted(tgt[Loop])

AloneInv == OnlyLoopCalls /\ LoopIsAllowed

-----------------------------------------------------------------------------
(* What the table's operations do to the counters.                         *)

\* No entry of c allows a request sooner than that of b.
NoEarlier(b, c) ==
    \A q \in Peers :
        HasBuffer(b, q) => c[q].attempts >= b[q].attempts /\ c[q].since <= b[q].since

\* Nothing happens to the table.
LEMMA SameNoEarlier == ASSUME NEW b \in Tables PROVE NoEarlier(b, b)
<1>1. \A q \in Peers : HasBuffer(b, q) => b[q].attempts \in Nat /\ b[q].since \in Nat
  BY BoundsAreNaturals DEF Tables, HasBuffer, NodeBufferInfo
<1> QED
  BY <1>1 DEF NoEarlier

\* One entry is exchanged for one that is no earlier.
LEMMA EntryNoEarlier ==
    ASSUME NEW b \in Tables, NEW p \in Peers, NEW e,
           e.attempts >= b[p].attempts, e.since <= b[p].since
    PROVE  NoEarlier(b, [b EXCEPT ![p] = e])
BY SameNoEarlier DEF NoEarlier, Tables

\* The state setters, except for Connected.
LEMMA RendezvousNoEarlier ==
    ASSUME NEW b \in Tables, NEW p \in Peers, NEW r \in RendezvousStates
    PROVE  NoEarlier(b, UpdateBufferRendezvousState(b, p, r))
<1>1. CASE ~HasBuffer(b, p)
  BY <1>1, SameNoEarlier DEF UpdateBufferRendezvousState
<1>2. CASE HasBuffer(b, p)
  <2> DEFINE e == [b[p] EXCEPT !.rdv = r]
  <2>1. b[p] \in NodeBufferInfo
    BY <1>2 DEF Tables, HasBuffer
  <2>2. e.attempts >= b[p].attempts /\ e.since <= b[p].since
    BY <2>1, BoundsAreNaturals DEF NodeBufferInfo
  <2>3. UpdateBufferRendezvousState(b, p, r) = [b EXCEPT ![p] = e]
    BY <1>2 DEF UpdateBufferRendezvousState
  <2> HIDE DEF e
  <2> QED
    BY <2>2, <2>3, EntryNoEarlier
<1> QED
  BY <1>1, <1>2

\* UpdateBufferLibP2PState leaves the other peers alone, restarts the clock,
\* and takes attempts back only for Connected.
LEMMA LibEntry ==
    ASSUME NEW b \in Tables, NEW p \in Peers, NEW l \in ConnectionStates
    PROVE  /\ l # "Connected" => NoEarlier(b, UpdateBufferLibP2PState(b, p, l))
           /\ \A q \in Peers : q # p => UpdateBufferLibP2PState(b, p, l)[q] = b[q]
           /\ HasBuffer(b, p) =>
                 /\ UpdateBufferLibP2PState(b, p, l)[p].since = 0
                 /\ l = "Connected" => UpdateBufferLibP2PState(b, p, l)[p].attempts = 0
<1>1. CASE ~HasBuffer(b, p)
  BY <1>1, SameNoEarlier DEF UpdateBufferLibP2PState
<1>2. CASE HasBuffer(b, p)
  <2> DEFINE n == IF l = "Connected" THEN 0 ELSE b[p].attempts
             e == [[[b[p] EXCEPT !.lib = l] EXCEPT !.attempts = n] EXCEPT !.since = 0]
  <2>1. b[p] \in NodeBufferInfo
    BY <1>2 DEF Tables, HasBuffer
  <2>2. e.since = 0 /\ e.attempts = n
    BY <2>1 DEF NodeBufferInfo
  <2>3. b[p].attempts \in Nat /\ b[p].since \in Nat
    BY <2>1, BoundsAreNaturals DEF NodeBufferInfo
  <2>4. UpdateBufferLibP2PState(b, p, l) = [b EXCEPT ![p] = e]
    BY <1>2, <2>1 DEF UpdateBufferLibP2PState, Tables, NodeBufferInfo
  <2> HIDE DEF e
  <2>5. l # "Connected" => e.attempts >= b[p].attempts /\ e.since <= b[p].since
    BY <2>2, <2>3
  <2>6. l # "Connected" => NoEarlier(b, UpdateBufferLibP2PState(b, p, l))
    BY <2>4, <2>5, EntryNoEarlier
  <2> QED
    BY <2>2, <2>4, <2>6 DEF Tables
<1> QED
  BY <1>1, <1>2

\* IncrementReconnectAttempts counts one attempt more.
LEMMA IncrementEntry ==
    ASSUME NEW b \in Tables, NEW p \in Peers
    PROVE  /\ NoEarlier(b, IncrementReconnectAttempts(b, p))
           /\ HasBuffer(b, p) => IncrementReconnectAttempts(b, p)[p].attempts
                                     = CappedSucc(b[p].attempts, MaxAttempts)
<1>1. CASE ~HasBuffer(b, p)
  BY <1>1, SameNoEarlier DEF IncrementReconnectAttempts
<1>2. CASE HasBuffer(b, p)
  <2> DEFINE n == CappedSucc(b[p].attempts, MaxAttempts)
             e == [[b[p] EXCEPT !.attempts = n] EXCEPT !.since = 0]
  <2>1. b[p] \in NodeBufferInfo
    BY <1>2 DEF Tables, HasBuffer
  <2>2. b[p].attempts \in 0..MaxAttempts /\ b[p].since \in Nat
    BY <2>1, BoundsAreNaturals DEF NodeBufferInfo
  <2>3. n >= b[p].attempts
    BY <2>2, BoundsAreNaturals DEF CappedSucc
  <2>4. e.attempts = n /\ e.since = 0
    <3> HIDE DEF n
    <3> QED BY <2>1 DEF NodeBufferInfo
  <2>5. IncrementReconnectAttempts(b, p) = [b EXCEPT ![p] = e]
    BY <1>2, <2>1 DEF IncrementReconnectAttempts, Tables, NodeBufferInfo
  <2> HIDE DEF e, n
  <2>6. e.attempts >= b[p].attempts /\ e.since <= b[p].since
    BY <2>2, <2>3, <2>4
  <2>7. NoEarlier(b, IncrementReconnectAttempts(b, p))
    BY <2>5, <2>6, EntryNoEarlier
  <2> QED
    BY <2>4, <2>5, <2>7 DEF Tables, n
<1> QED
  BY <1>1, <1>2

\* SetLastOtherSideMultiAddress touches no counter.
LEMMA AddressNoEarlier ==
    ASSUME NEW b \in Tables, NEW p \in Peers, NEW a \in Addresses
    PROVE  NoEarlier(b, SetLastOtherSideMultiAddress(b, p, a))
<1>1. CASE ~HasBuffer(b, p)
  BY <1>1, SameNoEarlier DEF SetLastOtherSideMultiAddress
<1>2. CASE HasBuffer(b, p)
  <2> DEFINE e == [b[p] EXCEPT !.addr = a]
  <2>1. b[p] \in NodeBufferInfo
    BY <1>2 DEF Tables, HasBuffer
  <2>2. e.attempts >= b[p].attempts /\ e.since <= b[p].since
    BY <2>1, BoundsAreNaturals DEF NodeBufferInfo
  <2>3. SetLastOtherSideMultiAddress(b, p, a) = [b EXCEPT ![p] = e]
    BY <1>2 DEF SetLastOtherSideMultiAddress
  <2> HIDE DEF e
  <2> QED
    BY <2>2, <2>3, EntryNoEarlier
<1> QED
  BY <1>1, <1>2

\* What AddBuffer2 puts into the entry.
LEMMA AddBuffer2Fields ==
    ASSUME NEW b \in Tables, NEW p \in Peers, NEW m, NEW v, NEW r, NEW l
    PROVE  /\ AddBuffer2(b, p, m, v, r, l)[p].valid = v
           /\ AddBuffer2(b, p, m, v, r, l)[p].attempts = CappedSucc(0, MaxAttempts)
           /\ AddBuffer2(b, p, m, v, r, l)[p].since = 0
           /\ \A q \in Peers : q # p => AddBuffer2(b, p, m, v, r, l)[q] = b[q]
BY DEF AddBuffer2, Tables

\* One unit of time passes for an entry.
LEMMA AgeEntry ==
    ASSUME NEW b \in Tables, NEW p \in Peers, HasBuffer(b, p)
    PROVE  /\ AgeBuffers(b)[p].attempts = b[p].attempts
           /\ AgeBuffers(b)[p].since = CappedSucc(b[p].since, MaxBackoff)
<1>1. b[p] \in NodeBufferInfo
  BY DEF Tables, HasBuffer
<1> QED
  BY <1>1 DEF AgeBuffers, NodeBufferInfo

\* The backoff is a number of units, at most the cap.
LEMMA BackoffType == \A n \in 0..MaxAttempts : Backoff(n) \in 0..MaxBackoff
<1> SUFFICES ASSUME NEW n \in 0..MaxAttempts PROVE Backoff(n) \in 0..MaxBackoff
  OBVIOUS
<1>1. Doublings(n) \in 0..MaxDoublings
  BY BoundsAreNaturals DEF Doublings
<1>2. 2 ^ Doublings(n) \in Nat
  BY <1>1, PowersArePositive
<1> QED
  BY <1>2, BoundsAreNaturals DEF Backoff

\* What has not wrapped up to n has not wrapped up to less.
LEMMA DoublingBelow ==
    ASSUME NEW m \in Nat, NEW n \in Nat, m <= n, Doubling(n)
    PROVE  Doubling(m) /\ m \notin Wrapped
BY DEF Doubling

\* Until it wraps, a longer streak is followed by no shorter a backoff.
LEMMA BackoffGrows ==
    ASSUME NEW m \in 0..MaxAttempts, NEW n \in 0..MaxAttempts, m <= n, Doubling(n)
    PROVE  Backoff(m) <= Backoff(n)
<1>1. m \notin Wrapped /\ n \notin Wrapped
  BY DoublingBelow, BoundsAreNaturals
<1>2. /\ Doublings(m) \in 0..MaxDoublings /\ Doublings(n) \in 0..MaxDoublings
      /\ Doublings(m) <= Doublings(n)
  BY BoundsAreNaturals DEF Doublings
<1>3. /\ 2 ^ Doublings(m) \in Nat /\ 2 ^ Doublings(n) \in Nat
      /\ 2 ^ Doublings(m) <= 2 ^ Doublings(n)
  BY <1>2, PowersArePositive, PowersGrow
<1> QED
  BY <1>1, <1>3, BoundsAreNaturals DEF Backoff

-----------------------------------------------------------------------------
(* Steps that are not the loop's own work on a seller.                     *)

\* The loop is where it was, or starts on a seller.
LoopStays ==
    \/ pc'[Loop] = pc[Loop] /\ tgt'[Loop] = tgt[Loop] /\ has'[Loop] = has[Loop]
    \/ pc[Loop] = "idle" /\ pc'[Loop] = "lookup"

\* Nothing is sent and no account opened; entries keep their requests and
\* their bans, and none allows a request sooner.
QuietStep ==
    /\ SameRequests(buffers, buffers') /\ NoEarlier(buffers, buffers')
    /\ UNCHANGED sendVars /\ UNCHANGED <<accounts, delivered>>
    /\ LoopStays
    /\ OnlyLoopCalls'

\* The loop is a caller, and is no callback.
LEMMA LoopIsCaller == Loop \in Callers /\ Loop \notin Callbacks /\ Callbacks \subseteq Callers
BY BuyerAssumption DEF Callers

\* A callback that handles punching is nowhere in processSeller.
LEMMA NotProcessing ==
    ASSUME NEW t, pc[t] \in PunchingPCs
    PROVE  ~processSeller(t)
BY DEF processSeller, Lookup, ConnsToPeer, CloseUnknownPeer, PrepareServiceRequest, Blacklist,
       CountFirstAttempt, SendRequest, AddAfterFailedSend, AddAfterSend, CheckTooEarly,
       CountAttempt, ResendRequest, MarkRendezvous, MarkResent, MarkConnected,
       SetRemoteAddress, TableStep, PunchingPCs

\* A step that changes neither the table nor the goroutines.
LEMMA StillQuiet ==
    ASSUME TypeOK, OnlyLoopCalls, UNCHANGED <<buffers, pc, localVars, sendVars>>,
           UNCHANGED <<accounts, delivered>>,
           \A m \in inbox' : m \in inbox \/ m.type = "punchMeRequest"
    PROVE  QuietStep
<1>1. SameRequests(buffers, buffers') /\ NoEarlier(buffers, buffers')
  BY SameTable, SameNoEarlier DEF TypeOK
<1>2. OnlyLoopCalls'
  BY DEF OnlyLoopCalls
<1> QED
  BY <1>1, <1>2 DEF QuietStep, LoopStays, localVars, sendVars

\* The loop outside processSeller.
LEMMA LoopQuiet ==
    ASSUME TypeOK, OnlyLoopCalls,
           \/ StartSecondLoop \/ CopySellers \/ LoopSleeps
           \/ \E x \in Peers \X Locations : NextSeller(x)
    PROVE  QuietStep
<1>1. CASE StartSecondLoop \/ CopySellers \/ LoopSleeps
  BY <1>1, StillQuiet
     DEF StartSecondLoop, CopySellers, LoopSleeps, ledgerVars, envVars, localVars, sendVars
<1>2. ASSUME NEW x \in Peers \X Locations, NextSeller(x)
      PROVE  QuietStep
  <2>1. UNCHANGED <<buffers, sendVars, accounts, delivered, inbox>> /\ pc[Loop] = "idle"
    BY <1>2 DEF NextSeller, ledgerVars, envVars
  <2>2. CASE UNCHANGED <<pc, localVars>>
    BY <2>1, <2>2, StillQuiet DEF localVars, sendVars
  <2>3. CASE Call(Loop, x[1], "lookup")
    <3>1. Others(Loop) /\ pc'[Loop] = "lookup"
      BY <2>3, LoopIsCaller, CallMoves
    <3>2. OnlyLoopCalls'
      BY <2>1, <3>1, LoopIsCaller DEF OnlyLoopCalls, Others
    <3>3. SameRequests(buffers, buffers') /\ NoEarlier(buffers, buffers')
      BY <2>1, SameTable, SameNoEarlier DEF TypeOK
    <3> QED
      BY <2>1, <3>1, <3>2, <3>3 DEF QuietStep, LoopStays
  <2> QED
    BY <1>2, <2>2, <2>3 DEF NextSeller, EnterProcessSeller
<1> QED
  BY <1>1, <1>2

\* A callback's step moves the callback only.
LEMMA CallbackMoves ==
    ASSUME TypeOK, OnlyLoopCalls, NEW t \in Callbacks, Others(t), pc'[t] \in PunchingPCs,
           inbox' \subseteq inbox, buffers' \in Tables,
           SameRequests(buffers, buffers'), NoEarlier(buffers, buffers'),
           UNCHANGED sendVars, UNCHANGED <<accounts, delivered>>
    PROVE  QuietStep
<1>1. Loop \in Callers \ {t}
  BY LoopIsCaller
<1>2. LoopStays
  BY <1>1 DEF LoopStays, Others
<1>3. OnlyLoopCalls'
  BY LoopIsCaller DEF OnlyLoopCalls, Others
<1> QED
  BY <1>2, <1>3 DEF QuietStep

\* The callback, which has punching to handle and nothing else.
LEMMA CallbackQuiet ==
    ASSUME TypeOK, OnlyLoopCalls, NEW t \in Callbacks, Callback(t)
    PROVE  QuietStep
<1>0. t \in Callers /\ tgt[t] \in Peers /\ buffers \in Tables
  BY LoopIsCaller DEF TypeOK, LocalsOK
<1>1. SameRequests(buffers, buffers) /\ NoEarlier(buffers, buffers)
  BY <1>0, SameTable, SameNoEarlier
<1>2. ASSUME NEW m \in inbox, TopicCallback(t, m)
      PROVE  QuietStep
  <2>1. /\ UNCHANGED <<buffers, sendVars, accounts, delivered>> /\ inbox' \subseteq inbox
        /\ m.seller \in Peers
        /\ Call(t, m.seller, "ack") \/ UNCHANGED <<pc, localVars>>
    BY <1>2 DEF TopicCallback, ledgerVars, OnlyLoopCalls, TypeOK, EnvOK, Messages
  <2>2. CASE UNCHANGED <<pc, localVars>>
    BY <2>1, <2>2, StillQuiet DEF localVars, sendVars
  <2>3. CASE Call(t, m.seller, "ack")
    <3>1. Others(t) /\ pc'[t] = "ack"
      BY <1>0, <2>1, <2>3, CallMoves
    <3> QED
      BY <1>0, <1>1, <2>1, <3>1, CallbackMoves DEF PunchingPCs
  <2> QED
    BY <2>1, <2>2, <2>3
<1>3. CASE SendAcknowledgment(t)
  <2>1. Others(t) /\ pc'[t] \in PunchingPCs
    BY <1>0, <1>3, GotoMoves, ReturnMoves DEF SendAcknowledgment, PunchingPCs
  <2> QED
    BY <1>0, <1>1, <1>3, <2>1, CallbackMoves DEF SendAcknowledgment, ledgerVars, envVars
<1>4. CASE MarkPunching(t)
  <2>1. Others(t) /\ pc'[t] \in PunchingPCs
    BY <1>0, <1>4, GotoMoves DEF MarkPunching, TableStep, PunchingPCs
  <2>2. /\ buffers' \in Tables /\ SameRequests(buffers, buffers')
        /\ NoEarlier(buffers, buffers')
    BY <1>0, <1>4, UpdateLibType, LibEntry DEF MarkPunching, TableStep, ConnectionStates
  <2> QED
    BY <1>4, <2>1, <2>2, CallbackMoves DEF MarkPunching, TableStep, ledgerVars, envVars
<1>5. CASE ScheduleBuyerHolePunching(t)
  <2>1. Others(t) /\ pc'[t] \in PunchingPCs
    BY <1>0, <1>5, ReturnMoves DEF ScheduleBuyerHolePunching, PunchingPCs
  <2> QED
    BY <1>0, <1>1, <1>5, <2>1, CallbackMoves DEF ScheduleBuyerHolePunching, ledgerVars, envVars
<1> QED
  BY <1>2, <1>3, <1>4, <1>5 DEF Callback

\* The punching goroutines.
LEMMA PuncherQuiet ==
    ASSUME TypeOK, OnlyLoopCalls, NEW q \in Punchers, Puncher(q)
    PROVE  QuietStep
<1>0. ptgt[q] \in Peers /\ buffers \in Tables
  BY DEF TypeOK, PunchOK
<1>1. UNCHANGED <<pc, localVars, sendVars, accounts, delivered, inbox>>
  BY DEF Puncher, PunchConnect, PunchRecord, PunchGoto, ledgerVars
<1>2. SameRequests(buffers, buffers') /\ NoEarlier(buffers, buffers')
  <2>1. CASE PunchConnect(q)
    BY <1>0, <2>1, SameTable, SameNoEarlier DEF PunchConnect
  <2>2. CASE PunchRecord(q)
    <3>1. PICK l \in {"HolePunchingCompleted", "CanNotConnectUnknownReason"} :
              \/ buffers' = UpdateBufferLibP2PState(buffers, ptgt[q], l)
              \/ buffers' = SetLastOtherSideMultiAddress(buffers, ptgt[q], "transport")
      BY <2>2 DEF PunchRecord
    <3>2. l \in ConnectionStates /\ l # "Connected" /\ "transport" \in Addresses
      BY DEF ConnectionStates, Addresses
    <3> QED
      BY <1>0, <3>1, <3>2, UpdateLibType, SetAddressType, LibEntry, AddressNoEarlier
  <2> QED
    BY <2>1, <2>2 DEF Puncher
<1>3. LoopStays /\ OnlyLoopCalls'
  BY <1>1 DEF LoopStays, OnlyLoopCalls, localVars
<1> QED
  BY <1>1, <1>2, <1>3 DEF QuietStep

\* The surroundings, but for the clock and restarts.
LEMMA EnvironmentQuiet ==
    ASSUME TypeOK, OnlyLoopCalls, Alone, Environment, ~Tick, ~Restart
    PROVE  QuietStep
<1>1. ASSUME NEW s \in Peers, SellerConnects(s) \/ ConnectionDrops(s)
      PROVE  QuietStep
  BY <1>1, StillQuiet DEF SellerConnects, ConnectionDrops, World, localVars, sendVars
<1>2. ASSUME NEW s \in Peers, SellerReportsWriteError(s)
      PROVE  QuietStep
  BY <1>2 DEF SellerReportsWriteError, Alone
<1>3. ASSUME NEW s \in Peers, SellerAsksToPunch(s)
      PROVE  QuietStep
  BY <1>3, StillQuiet DEF SellerAsksToPunch, World, localVars, sendVars
<1>4. ASSUME NEW m \in inbox, LoseMessage(m)
      PROVE  QuietStep
  BY <1>4, StillQuiet DEF LoseMessage, World, localVars, sendVars
<1>5. ASSUME NEW s \in Peers, NEW l \in Locations, Discover(s, l)
      PROVE  QuietStep
  BY <1>5, StillQuiet DEF Discover, localVars, sendVars, ledgerVars, envVars
<1> QED
  BY <1>1, <1>2, <1>3, <1>4, <1>5 DEF Environment

\* Every step is the loop's work on a seller, a quiet one, a tick or a restart.
LEMMA KindsOfSteps ==
    ASSUME TypeOK, OnlyLoopCalls, Alone, [Next]_vars
    PROVE  processSeller(Loop) \/ QuietStep \/ Tick \/ Restart
<1>1. CASE UNCHANGED vars
  BY <1>1, StillQuiet DEF vars, localVars, sendVars
<1>2. CASE TheLoop
  BY <1>2, LoopQuiet DEF TheLoop
<1>3. ASSUME NEW t \in Callbacks, processSeller(t) \/ Callback(t)
      PROVE  QuietStep
  BY <1>3, CallbackQuiet, NotProcessing DEF OnlyLoopCalls
<1>4. CASE Environment
  BY <1>4, EnvironmentQuiet
<1> QED
  BY <1>1, <1>2, <1>3, <1>4, PuncherQuiet DEF Next, Alone

-----------------------------------------------------------------------------
(* The ban.                                                                *)

\* What a table operation of the loop does to the loop itself.
LEMMA LoopTable ==
    ASSUME TypeOK, NEW from, NEW b, NEW to, TableStep(Loop, from, b, to)
    PROVE  /\ pc[Loop] = from /\ buffers' = b /\ Others(Loop)
           /\ to = "return" => pc'[Loop] = "idle"
           /\ to # "return" => /\ pc'[Loop] = to /\ tgt'[Loop] = tgt[Loop]
                              /\ has'[Loop] = has[Loop]
           /\ UNCHANGED <<sinceTry, streak, accounts, delivered, inbox>>
BY LoopIsCaller, GotoMoves, ReturnMoves DEF TableStep, sendVars, ledgerVars, envVars

\* The loop's work on a seller leaves the callbacks and their messages alone.
LEMMA LoopLeavesOthers ==
    ASSUME TypeOK, processSeller(Loop)
    PROVE  Others(Loop) /\ UNCHANGED inbox
<1>1. CASE Lookup(Loop)
  BY <1>1, LoopIsCaller, ReturnMoves
     DEF Lookup, ReadBuffer, Others, envVars, TypeOK, LocalsOK
<1>2. CASE ConnsToPeer(Loop) \/ CloseUnknownPeer(Loop)
  BY <1>2, LoopIsCaller, ReturnMoves, GotoMoves DEF ConnsToPeer, CloseUnknownPeer, envVars
<1>3. CASE PrepareServiceRequest(Loop)
  BY <1>3, LoopIsCaller, GotoMoves
     DEF PrepareServiceRequest, Others, envVars, TypeOK, LocalsOK
<1>4. CASE SendRequest(Loop) \/ ResendRequest(Loop) \/ MarkConnected(Loop)
  BY <1>4, LoopIsCaller, GotoMoves DEF SendRequest, ResendRequest, MarkConnected, envVars
<1>5. CASE Blacklist(Loop) \/ CountFirstAttempt(Loop) \/ AddAfterFailedSend(Loop)
             \/ AddAfterSend(Loop) \/ CountAttempt(Loop) \/ SetRemoteAddress(Loop)
  BY <1>5, LoopTable DEF Blacklist, CountFirstAttempt, AddAfterFailedSend, AddAfterSend,
                         CountAttempt, SetRemoteAddress
<1>6. CASE CheckTooEarly(Loop) \/ MarkRendezvous(Loop) \/ MarkResent(Loop)
  BY <1>6, LoopTable DEF CheckTooEarly, MarkRendezvous, MarkResent
<1> QED
  BY <1>1, <1>2, <1>3, <1>4, <1>5, <1>6 DEF processSeller

\* Its work on a seller who is not banned, as it affects bans.
Unbanned ==
    \* the loop is done with the seller, or goes on with one who is not banned,
    /\ pc'[Loop] \notin {"idle", "lookup"} => ~Blacklisted(tgt[Loop])'
                                               /\ tgt'[Loop] = tgt[Loop]
    \* and no other seller is touched
    /\ \A s \in Peers : s # tgt[Loop] \/ pc[Loop] = "lookup" =>
          /\ HasBuffer(buffers', s) <=> HasBuffer(buffers, s)
          /\ HasBuffer(buffers, s) => buffers'[s].valid = buffers[s].valid
          /\ delivered'[s] = delivered[s] /\ accounts'[s] = accounts[s]

\* Setters of the loop.
LEMMA SetterUnbanned ==
    ASSUME TypeOK, LoopIsAllowed, SameRequests(buffers, buffers'),
           UNCHANGED <<accounts, delivered>>,
           pc'[Loop] # "idle" =>
               tgt'[Loop] = tgt[Loop] /\ pc[Loop] \notin {"idle", "lookup"}
    PROVE  Unbanned
<1>1. tgt[Loop] \in Peers
  BY LoopIsCaller DEF TypeOK, LocalsOK
<1> QED
  BY <1>1 DEF Unbanned, SameRequests, LoopIsAllowed, Blacklisted, HasBuffer

\* Every step of the loop's work.
LEMMA ProcessUnbanned ==
    ASSUME TypeOK, LoopIsAllowed, processSeller(Loop)
    PROVE  Unbanned
<1>0. /\ tgt[Loop] \in Peers /\ msg[Loop] \in Nat /\ buffers \in Tables /\ Loop \in Callers
      /\ accounts \in [Peers -> Nat] /\ delivered \in [Peers -> SUBSET Nat]
  BY LoopIsCaller DEF TypeOK, LocalsOK, LedgerOK
<1>1. SameRequests(buffers, buffers)
  BY SameTable
<1>2. CASE Lookup(Loop)
  <2>1. UNCHANGED <<buffers, accounts, delivered>>
    BY <1>2 DEF Lookup, ledgerVars
  <2>2. CASE Return(Loop)
    BY <1>0, <2>1, <2>2, ReturnMoves DEF Unbanned
  <2>3. CASE ~Blacklisted(tgt[Loop]) /\ ReadBuffer(Loop)
    BY <1>0, <2>1, <2>3 DEF ReadBuffer, Unbanned, Blacklisted
  <2> QED
    BY <1>2, <2>2, <2>3 DEF Lookup
<1>3. CASE ConnsToPeer(Loop) \/ CloseUnknownPeer(Loop)
  <2>1. /\ pc[Loop] = "conns" /\ UNCHANGED <<buffers, accounts, delivered>>
        /\ pc'[Loop] # "idle" => tgt'[Loop] = tgt[Loop]
    BY <1>0, <1>3, GotoMoves, ReturnMoves DEF ConnsToPeer, CloseUnknownPeer, ledgerVars
  <2> QED
    BY <1>1, <2>1, SetterUnbanned
<1>4. CASE PrepareServiceRequest(Loop)
  <2>1. /\ pc[Loop] = "prepare" /\ UNCHANGED <<buffers, delivered>> /\ tgt'[Loop] = tgt[Loop]
        /\ accounts' = accounts \/ accounts' = [accounts EXCEPT ![tgt[Loop]] = @ + 1]
    BY <1>4 DEF PrepareServiceRequest, Goto, localVars
  <2>2. \A s \in Peers : s # tgt[Loop] => accounts'[s] = accounts[s]
    BY <1>0, <2>1
  <2> QED
    BY <2>1, <2>2 DEF Unbanned, LoopIsAllowed, Blacklisted
<1>5. CASE SendRequest(Loop) \/ ResendRequest(Loop)
  <2>1. /\ pc[Loop] \in {"send", "resend"} /\ UNCHANGED <<buffers, accounts>>
        /\ tgt'[Loop] = tgt[Loop]
        /\ \/ UNCHANGED delivered
           \/ delivered' = [delivered EXCEPT ![tgt[Loop]] = @ \cup {msg[Loop]}]
    BY <1>5 DEF SendRequest, ResendRequest, SendTo, Goto, localVars
  <2>2. \A s \in Peers : s # tgt[Loop] => delivered'[s] = delivered[s]
    BY <1>0, <2>1
  <2> QED
    BY <2>1, <2>2 DEF Unbanned, LoopIsAllowed, Blacklisted
<1>6. ASSUME NEW m, NEW v, NEW r, NEW l, NEW from \in CallPCs \ {"lookup"}, NEW to,
             to = "return" \/ v = TRUE,
             TableStep(Loop, from, AddBuffer2(buffers, tgt[Loop], m, v, r, l), to)
      PROVE  Unbanned
  <2>1. /\ buffers'[tgt[Loop]].valid = v
        /\ \A q \in Peers : q # tgt[Loop] => buffers'[q] = buffers[q]
    BY <1>0, <1>6, LoopTable, AddBuffer2Fields
  <2>2. /\ pc[Loop] # "lookup" /\ UNCHANGED <<accounts, delivered>>
        /\ pc'[Loop] # "idle" => tgt'[Loop] = tgt[Loop] /\ v = TRUE
    BY <1>6, LoopTable
  <2> QED
    BY <2>1, <2>2 DEF Unbanned, Blacklisted, HasBuffer
<1>7. CASE Blacklist(Loop) \/ AddAfterFailedSend(Loop)
  BY <1>6, <1>7 DEF Blacklist, AddAfterFailedSend, CallPCs
<1>8. CASE AddAfterSend(Loop)
  BY <1>6, <1>8 DEF AddAfterSend, CallPCs
<1>9. ASSUME NEW from \in CallPCs \ {"idle", "lookup"}, NEW b, SameRequests(buffers, b), NEW to,
             TableStep(Loop, from, b, to)
      PROVE  Unbanned
  BY <1>9, LoopTable, SetterUnbanned
<1>10. CASE CountFirstAttempt(Loop) \/ CountAttempt(Loop)
  BY <1>0, <1>9, <1>10, IncrementType DEF CountFirstAttempt, CountAttempt, CallPCs
<1>11. CASE CheckTooEarly(Loop)
  BY <1>1, <1>9, <1>11 DEF CheckTooEarly, CallPCs
<1>12. CASE MarkRendezvous(Loop)
  BY <1>0, <1>9, <1>12, UpdateRendezvousType DEF MarkRendezvous, CallPCs, RendezvousStates
<1>13. CASE MarkResent(Loop)
  BY <1>0, <1>9, <1>13, UpdateLibType DEF MarkResent, CallPCs, ConnectionStates
<1>14. CASE MarkConnected(Loop)
  <2>1. SameRequests(buffers, buffers')
    BY <1>0, <1>14, UpdateLibType DEF MarkConnected, ConnectionStates
  <2>2. /\ pc[Loop] = "libConn" /\ UNCHANGED <<accounts, delivered>> /\ tgt'[Loop] = tgt[Loop]
    BY <1>14 DEF MarkConnected, Goto, localVars, ledgerVars
  <2> QED
    BY <2>1, <2>2, SetterUnbanned
<1>15. CASE SetRemoteAddress(Loop)
  BY <1>0, <1>9, <1>15, SetAddressType DEF SetRemoteAddress, CallPCs, Addresses
<1> QED
  BY <1>2, <1>3, <1>4, <1>5, <1>7, <1>8, <1>10, <1>11, <1>12, <1>13, <1>14, <1>15
     DEF processSeller

\* The invariant holds at the start ...
LEMMA AloneInit == Init => AloneInv
BY LoopIsCaller DEF Init, AloneInv, OnlyLoopCalls, LoopIsAllowed, PunchingPCs, Callers

\* ... and every step keeps it.
LEMMA AloneStep ==
    ASSUME Alone, TypeOK, AloneInv, [Next]_vars
    PROVE  AloneInv'
<1>0. tgt[Loop] \in Peers
  BY LoopIsCaller DEF TypeOK, LocalsOK
<1>1. CASE processSeller(Loop)
  <2>1. OnlyLoopCalls'
    BY <1>1, LoopLeavesOthers, LoopIsCaller DEF AloneInv, OnlyLoopCalls, Others
  <2>2. LoopIsAllowed'
    BY <1>1, ProcessUnbanned DEF AloneInv, Unbanned, LoopIsAllowed
  <2> QED
    BY <2>1, <2>2 DEF AloneInv
<1>2. CASE QuietStep
  <2>1. LoopIsAllowed'
    BY <1>0, <1>2 DEF AloneInv, LoopIsAllowed, QuietStep, LoopStays, SameRequests, Blacklisted,
                      HasBuffer
  <2> QED
    BY <1>2, <2>1 DEF AloneInv, QuietStep
<1>3. CASE Tick
  <2>1. SameRequests(buffers, buffers') /\ UNCHANGED <<pc, tgt, inbox>>
    BY <1>3, AgeType DEF Tick, TypeOK, localVars, envVars
  <2> QED
    BY <1>0, <2>1 DEF AloneInv, OnlyLoopCalls, LoopIsAllowed, SameRequests, Blacklisted, HasBuffer
<1>4. CASE Restart
  BY <1>4, LoopIsCaller DEF Restart, AloneInv, OnlyLoopCalls, LoopIsAllowed, PunchingPCs
<1> QED
  BY <1>1, <1>2, <1>3, <1>4, KindsOfSteps DEF AloneInv

\* A ban outlasts every step but a restart, and nothing is sent or opened
\* meanwhile.
LEMMA BanStep ==
    ASSUME Alone, TypeOK, AloneInv, [Next]_vars, NEW s \in Peers, Blacklisted(s)
    PROVE  /\ delivered'[s] = delivered[s] /\ accounts'[s] = accounts[s]
           /\ \/ Blacklisted(s)'
              \/ restarts' # restarts \/ removed'[s] # removed[s]
<1>1. CASE processSeller(Loop)
  <2>1. Unbanned
    BY <1>1, ProcessUnbanned DEF AloneInv
  <2>2. s # tgt[Loop] \/ pc[Loop] \in {"idle", "lookup"}
    BY DEF AloneInv, LoopIsAllowed
  <2>3. pc[Loop] # "idle"
    BY <1>1, NotProcessing DEF PunchingPCs
  <2> QED
    BY <2>1, <2>2, <2>3 DEF Unbanned, Blacklisted, HasBuffer
<1>2. CASE QuietStep
  BY <1>2 DEF QuietStep, SameRequests, Blacklisted, HasBuffer
<1>3. CASE Tick
  <2>1. SameRequests(buffers, buffers') /\ UNCHANGED <<delivered, accounts>>
    BY <1>3, AgeType DEF Tick, TypeOK, ledgerVars
  <2> QED
    BY <2>1 DEF SameRequests, Blacklisted, HasBuffer
<1>4. CASE Restart
  BY <1>4 DEF Restart, TypeOK, EnvOK, ledgerVars
<1> QED
  BY <1>1, <1>2, <1>3, <1>4, KindsOfSteps DEF AloneInv

\* While the loop alone calls processSeller, a banned seller gets no further
\* request and no further account, and only a restart lifts his ban: neither
\* punching nor the clock nor the loop's own work on other sellers does.
THEOREM BansStick ==
    ASSUME Alone
    PROVE  Spec => BlacklistSticks
<1>1. Init => TypeOK /\ AloneInv
  BY InitType, AloneInit
<1>2. TypeOK /\ AloneInv /\ [Next]_vars => TypeOK' /\ AloneInv'
  BY StepType, AloneStep
<1>3. TypeOK /\ AloneInv /\ [Next]_vars =>
        [\A s \in Peers : Blacklisted(s) =>
          /\ delivered'[s] = delivered[s] /\ accounts'[s] = accounts[s]
          /\ \/ Blacklisted(s)'
             \/ restarts' # restarts \/ removed'[s] # removed[s]]_vars
  BY BanStep
<1> QED
  BY <1>1, <1>2, <1>3, PTL DEF Spec, BlacklistSticks

-----------------------------------------------------------------------------
(* The pace of repetitions.  The table's counters start again and again:   *)
(* attempts with every entry and every Connected, since with every change  *)
(* of state.  The invariant relates them to what was really sent.          *)

Valid(s) == HasBuffer(buffers, s) /\ buffers[s].valid

\* The loop has sent a request again and not yet restarted the entry's clock.
Marking(s) == tgt[Loop] = s /\ pc[Loop] \in {"rdvOK", "rdvFail", "libOK", "libFail"}

\* The entry counts at least the requests of this streak ...
StreakCounted == \A s \in Peers : Valid(s) => streak[s] <= buffers[s].attempts

\* ... and is at most as old as the last of them.
AgesAgree == \A s \in Peers : Valid(s) /\ ~Marking(s) => buffers[s].since <= sinceTry[s]

EntriesSpaced == StreakCounted /\ AgesAgree

FirstPCs == {"prepare", "blacklist", "incr1", "send", "addOK", "addFail"}

\* On its way through a first request the loop is the one to make the entry.
FirstHasNoEntry ==
    pc[Loop] \in FirstPCs \/ (pc[Loop] = "conns" /\ ~has[Loop])
        => ~has[Loop] /\ ~HasBuffer(buffers, tgt[Loop])

FirstCounted ==
    pc[Loop] \in {"addOK", "addFail"} => streak[tgt[Loop]] <= CappedSucc(0, MaxAttempts)

\* Past the check the request is due, by what was sent, unless the check was
\* passed because the product had wrapped.
DueAgain ==
    (pc[Loop] = "incr2" /\ has[Loop]) \/ pc[Loop] = "resend"
        => /\ HasBuffer(buffers, tgt[Loop])
           /\ Doubling(buffers[tgt[Loop]].attempts)
                => sinceTry[tgt[Loop]] >= Backoff(streak[tgt[Loop]])

\* The request about to be repeated is counted.
RepeatCounted ==
    pc[Loop] = "resend" /\ HasBuffer(buffers, tgt[Loop])
        => CappedSucc(streak[tgt[Loop]], MaxAttempts) <= buffers[tgt[Loop]].attempts

LoopSpaced == FirstHasNoEntry /\ FirstCounted /\ DueAgain /\ RepeatCounted

SpacedInv == EntriesSpaced /\ LoopSpaced

\* The types of what these compare.
LEMMA CounterTypes ==
    ASSUME TypeOK, NEW s \in Peers
    PROVE  /\ streak[s] \in 0..MaxAttempts /\ sinceTry[s] \in 0..MaxBackoff
           /\ HasBuffer(buffers, s) => /\ buffers[s].attempts \in 0..MaxAttempts
                                       /\ buffers[s].since \in 0..MaxBackoff
BY DEF TypeOK, SentOK, Tables, HasBuffer, NodeBufferInfo

\* The same after a step.
LEMMA CounterTypesNext ==
    ASSUME TypeOK', NEW s \in Peers
    PROVE  /\ streak'[s] \in 0..MaxAttempts /\ sinceTry'[s] \in 0..MaxBackoff
           /\ HasBuffer(buffers', s) => /\ buffers'[s].attempts \in 0..MaxAttempts
                                        /\ buffers'[s].since \in 0..MaxBackoff
BY DEF TypeOK, SentOK, Tables, HasBuffer, NodeBufferInfo

\* An entry that allows nothing sooner, and nothing sent to its seller.
LEMMA EntryStays ==
    ASSUME TypeOK, TypeOK', EntriesSpaced, NEW s \in Peers, Valid(s),
           buffers'[s].attempts >= buffers[s].attempts,
           buffers'[s].since <= buffers[s].since, HasBuffer(buffers', s),
           streak'[s] = streak[s], sinceTry'[s] = sinceTry[s]
    PROVE  /\ streak'[s] <= buffers'[s].attempts
           /\ ~Marking(s) => buffers'[s].since <= sinceTry'[s]
<1>1. streak[s] <= buffers[s].attempts /\ (~Marking(s) => buffers[s].since <= sinceTry[s])
  BY DEF EntriesSpaced, StreakCounted, AgesAgree
<1> QED
  BY <1>1, CounterTypes, CounterTypesNext, BoundsAreNaturals DEF Valid

\* Setters keep the entries in step with what was sent.
LEMMA EntriesKept ==
    ASSUME TypeOK, TypeOK', EntriesSpaced,
           SameRequests(buffers, buffers'), NoEarlier(buffers, buffers'),
           UNCHANGED <<sinceTry, streak>>,
           \A s \in Peers : Marking(s) => Marking(s)'
    PROVE  EntriesSpaced'
<1> SUFFICES ASSUME NEW s \in Peers, Valid(s)'
             PROVE  /\ streak'[s] <= buffers'[s].attempts
                    /\ ~Marking(s)' => buffers'[s].since <= sinceTry'[s]
  BY DEF EntriesSpaced, StreakCounted, AgesAgree
<1>1. Valid(s) /\ HasBuffer(buffers', s)
  BY DEF Valid, SameRequests
<1>2. buffers'[s].attempts >= buffers[s].attempts /\ buffers'[s].since <= buffers[s].since
  BY <1>1 DEF Valid, NoEarlier
<1> QED
  BY <1>1, <1>2, EntryStays

\* Where the loop owes nothing.
LEMMA LoopOwesNothing ==
    ASSUME pc'[Loop] \notin FirstPCs \cup {"conns", "incr2", "resend"}
    PROVE  LoopSpaced'
BY DEF LoopSpaced, FirstHasNoEntry, FirstCounted, DueAgain, RepeatCounted, FirstPCs

\* A table that allows nothing sooner counts no fewer attempts: what is before
\* the wrap now was before it already.
LEMMA AttemptsGrow ==
    ASSUME TypeOK, TypeOK', NEW s \in Peers, HasBuffer(buffers, s), HasBuffer(buffers', s),
           NoEarlier(buffers, buffers')
    PROVE  Doubling(buffers'[s].attempts) => Doubling(buffers[s].attempts)
<1>1. buffers'[s].attempts >= buffers[s].attempts
  BY DEF NoEarlier
<1>2. buffers[s].attempts \in Nat /\ buffers'[s].attempts \in Nat
  BY CounterTypes, CounterTypesNext, BoundsAreNaturals
<1> QED
  BY <1>1, <1>2, DoublingBelow

\* Quiet steps keep the pace.
LEMMA QuietSpaced ==
    ASSUME TypeOK, TypeOK', SpacedInv, QuietStep
    PROVE  SpacedInv'
<1>0. tgt[Loop] \in Peers /\ UNCHANGED <<sinceTry, streak>>
  BY LoopIsCaller DEF TypeOK, LocalsOK, QuietStep, sendVars
<1>1. \A s \in Peers : Marking(s) => Marking(s)'
  BY DEF QuietStep, LoopStays, Marking
<1>2. EntriesSpaced'
  BY <1>0, <1>1, EntriesKept DEF SpacedInv, QuietStep
<1>3. CASE pc[Loop] = "idle" /\ pc'[Loop] = "lookup"
  BY <1>2, <1>3, LoopOwesNothing DEF SpacedInv, FirstPCs
<1>4. CASE pc'[Loop] = pc[Loop] /\ tgt'[Loop] = tgt[Loop] /\ has'[Loop] = has[Loop]
  <2>1. HasBuffer(buffers', tgt[Loop]) <=> HasBuffer(buffers, tgt[Loop])
    BY <1>0 DEF QuietStep, SameRequests
  <2>2. FirstHasNoEntry' /\ FirstCounted'
    BY <1>0, <1>4, <2>1
       DEF SpacedInv, LoopSpaced, FirstHasNoEntry, FirstCounted, HasBuffer
  <2>4. DueAgain'
    <3> SUFFICES ASSUME (pc[Loop] = "incr2" /\ has[Loop]) \/ pc[Loop] = "resend"
                 PROVE  /\ HasBuffer(buffers', tgt[Loop])
                        /\ Doubling(buffers'[tgt[Loop]].attempts)
                             => sinceTry[tgt[Loop]] >= Backoff(streak[tgt[Loop]])
      BY <1>0, <1>4 DEF DueAgain
    <3>1. /\ HasBuffer(buffers, tgt[Loop])
          /\ Doubling(buffers[tgt[Loop]].attempts)
               => sinceTry[tgt[Loop]] >= Backoff(streak[tgt[Loop]])
      BY DEF SpacedInv, LoopSpaced, DueAgain
    <3>2. Doubling(buffers'[tgt[Loop]].attempts) => Doubling(buffers[tgt[Loop]].attempts)
      BY <1>0, <2>1, <3>1, AttemptsGrow DEF QuietStep
    <3> QED
      BY <2>1, <3>1, <3>2
  <2>3. RepeatCounted'
    <3> SUFFICES ASSUME pc[Loop] = "resend", HasBuffer(buffers, tgt[Loop])
                 PROVE  CappedSucc(streak[tgt[Loop]], MaxAttempts)
                            <= buffers'[tgt[Loop]].attempts
      BY <1>0, <1>4, <2>1 DEF RepeatCounted
    <3>1. CappedSucc(streak[tgt[Loop]], MaxAttempts) <= buffers[tgt[Loop]].attempts
      BY DEF SpacedInv, LoopSpaced, RepeatCounted
    <3>2. buffers[tgt[Loop]].attempts <= buffers'[tgt[Loop]].attempts
      BY <1>0 DEF QuietStep, NoEarlier
    <3>3. CappedSucc(streak[tgt[Loop]], MaxAttempts) \in Nat
      BY <1>0, CounterTypes, CappedSuccType, BoundsAreNaturals
    <3> QED
      BY <1>0, <2>1, <3>1, <3>2, <3>3, CounterTypes, CounterTypesNext, BoundsAreNaturals
  <2> QED
    BY <1>2, <2>2, <2>3, <2>4 DEF SpacedInv, LoopSpaced
<1> QED
  BY <1>3, <1>4 DEF QuietStep, LoopStays

\* Time passes for the entry and for the last request alike.
LEMMA TickSpaced ==
    ASSUME TypeOK, TypeOK', SpacedInv, Tick
    PROVE  SpacedInv'
<1>0. tgt[Loop] \in Peers /\ buffers \in Tables /\ UNCHANGED <<pc, tgt, has, streak>>
  BY LoopIsCaller DEF TypeOK, LocalsOK, Tick, localVars
<1>1. SameRequests(buffers, buffers')
  BY <1>0, AgeType DEF Tick
<1>2. \A s \in Peers : HasBuffer(buffers, s) =>
          /\ buffers'[s].attempts = buffers[s].attempts
          /\ buffers'[s].since = CappedSucc(buffers[s].since, MaxBackoff)
  BY <1>0, AgeEntry DEF Tick
<1>3. \A s \in Peers : sinceTry'[s] = CappedSucc(sinceTry[s], MaxBackoff)
  BY DEF Tick
<1>4. EntriesSpaced'
  <2> SUFFICES ASSUME NEW s \in Peers, Valid(s)'
               PROVE  /\ streak'[s] <= buffers'[s].attempts
                      /\ ~Marking(s)' => buffers'[s].since <= sinceTry'[s]
    BY DEF EntriesSpaced, StreakCounted, AgesAgree
  <2>1. Valid(s)
    BY <1>1 DEF Valid, SameRequests
  <2>2. streak[s] <= buffers[s].attempts /\ (~Marking(s) => buffers[s].since <= sinceTry[s])
    BY <2>1 DEF SpacedInv, EntriesSpaced, StreakCounted, AgesAgree
  <2>3. Marking(s)' <=> Marking(s)
    BY <1>0 DEF Marking
  <2>4. CASE Marking(s)
    BY <1>0, <1>2, <2>1, <2>2, <2>3, <2>4 DEF Valid
  <2>5. CASE ~Marking(s)
    <3>1. CappedSucc(buffers[s].since, MaxBackoff) <= CappedSucc(sinceTry[s], MaxBackoff)
      BY <2>1, <2>2, <2>5, CounterTypes, BoundsAreNaturals DEF CappedSucc, Valid
    <3> QED
      BY <1>0, <1>2, <1>3, <2>1, <2>2, <3>1 DEF Valid
  <2> QED
    BY <2>4, <2>5
<1>5. FirstHasNoEntry' /\ FirstCounted' /\ RepeatCounted'
  BY <1>0, <1>1, <1>2 DEF SpacedInv, LoopSpaced, FirstHasNoEntry, FirstCounted, RepeatCounted,
                          SameRequests, HasBuffer
<1>6. DueAgain'
  <2>1. Backoff(streak[tgt[Loop]]) \in 0..MaxBackoff
    BY <1>0, CounterTypes, BackoffType
  <2>2. sinceTry[tgt[Loop]] >= Backoff(streak[tgt[Loop]])
            => sinceTry'[tgt[Loop]] >= Backoff(streak[tgt[Loop]])
    BY <1>0, <1>3, <2>1, CounterTypes, BoundsAreNaturals DEF CappedSucc
  <2> QED
    BY <1>0, <1>1, <1>2, <2>2 DEF SpacedInv, LoopSpaced, DueAgain, SameRequests
<1> QED
  BY <1>4, <1>5, <1>6 DEF SpacedInv, LoopSpaced

\* A setter of the loop that leads to where it owes nothing.
LEMMA SetterSpaced ==
    ASSUME TypeOK, TypeOK', SpacedInv, NEW from, NEW b, NEW to,
           TableStep(Loop, from, b, to),
           SameRequests(buffers, b), NoEarlier(buffers, b),
           to \notin FirstPCs \cup {"conns", "incr2", "resend"},
           \A s \in Peers : Marking(s) => Marking(s)'
    PROVE  SpacedInv'
<1>1. EntriesSpaced'
  BY LoopTable, EntriesKept DEF SpacedInv
<1>2. pc'[Loop] \notin FirstPCs \cup {"conns", "incr2", "resend"}
  BY LoopTable DEF FirstPCs
<1> QED
  BY <1>1, <1>2, LoopOwesNothing DEF SpacedInv

\* Entries that stay as they are, and a loop that is not marking one.
LEMMA SameEntriesSpaced ==
    ASSUME TypeOK, TypeOK', SpacedInv, UNCHANGED <<buffers, sinceTry, streak>>,
           pc[Loop] \notin {"rdvOK", "rdvFail", "libOK", "libFail"}
    PROVE  EntriesSpaced'
<1>1. SameRequests(buffers, buffers') /\ NoEarlier(buffers, buffers')
  BY SameTable, SameNoEarlier DEF TypeOK
<1> QED
  BY <1>1, EntriesKept DEF SpacedInv, Marking

\* An entry made by the loop after it sent the first request.
LEMMA AddedSpaced ==
    ASSUME TypeOK, TypeOK', SpacedInv, NEW m, NEW v, NEW r, NEW l, NEW to,
           NEW from \in {"blacklist", "addOK", "addFail"},
           from = "blacklist" => v = FALSE,
           TableStep(Loop, from, AddBuffer2(buffers, tgt[Loop], m, v, r, l), to)
    PROVE  EntriesSpaced'
<1>0. tgt[Loop] \in Peers /\ buffers \in Tables
  BY LoopIsCaller DEF TypeOK, LocalsOK
<1>1. pc[Loop] = from /\ UNCHANGED <<sinceTry, streak>>
  BY LoopTable
<1>2. /\ buffers'[tgt[Loop]].valid = v
      /\ buffers'[tgt[Loop]].attempts = CappedSucc(0, MaxAttempts)
      /\ buffers'[tgt[Loop]].since = 0
      /\ \A q \in Peers : q # tgt[Loop] => buffers'[q] = buffers[q]
  BY <1>0, LoopTable, AddBuffer2Fields
<1> SUFFICES ASSUME NEW s \in Peers, Valid(s)'
             PROVE  /\ streak'[s] <= buffers'[s].attempts
                    /\ ~Marking(s)' => buffers'[s].since <= sinceTry'[s]
  BY DEF EntriesSpaced, StreakCounted, AgesAgree
<1>3. CASE s # tgt[Loop]
  <2>1. Valid(s) /\ ~Marking(s)
    BY <1>1, <1>2, <1>3 DEF Valid, HasBuffer, Marking
  <2>2. streak[s] <= buffers[s].attempts /\ buffers[s].since <= sinceTry[s]
    BY <2>1 DEF SpacedInv, EntriesSpaced, StreakCounted, AgesAgree
  <2> QED
    BY <1>1, <1>2, <1>3, <2>2
<1>4. CASE s = tgt[Loop]
  <2>1. from \in {"addOK", "addFail"}
    BY <1>2, <1>4 DEF Valid
  <2>2. streak[s] <= CappedSucc(0, MaxAttempts)
    BY <1>1, <1>4, <2>1 DEF SpacedInv, LoopSpaced, FirstCounted
  <2>3. 0 <= sinceTry[s]
    BY CounterTypes, BoundsAreNaturals
  <2> QED
    BY <1>1, <1>2, <1>4, <2>2, <2>3
<1> QED
  BY <1>3, <1>4

\* The first request: nothing the table holds is about its seller.
LEMMA FirstSpaced ==
    ASSUME TypeOK, TypeOK', SpacedInv,
           \/ Lookup(Loop) \/ ConnsToPeer(Loop) \/ CloseUnknownPeer(Loop)
           \/ PrepareServiceRequest(Loop) \/ Blacklist(Loop) \/ CountFirstAttempt(Loop)
           \/ SendRequest(Loop) \/ AddAfterFailedSend(Loop) \/ AddAfterSend(Loop)
    PROVE  SpacedInv'
<1>0. /\ tgt[Loop] \in Peers /\ buffers \in Tables /\ Loop \in Callers
      /\ streak \in [Peers -> 0..MaxAttempts] /\ sinceTry \in [Peers -> 0..MaxBackoff]
  BY LoopIsCaller DEF TypeOK, LocalsOK, SentOK
<1>1. CASE Lookup(Loop)
  <2>1. EntriesSpaced'
    BY <1>1, SameEntriesSpaced DEF Lookup, sendVars
  <2>2. CASE Return(Loop)
    BY <1>0, <2>1, <2>2, ReturnMoves, LoopOwesNothing DEF SpacedInv, FirstPCs
  <2>3. CASE pc' = [pc EXCEPT ![Loop] = "conns"] /\ ReadBuffer(Loop)
    <3>1. /\ pc'[Loop] = "conns" /\ tgt'[Loop] = tgt[Loop] /\ UNCHANGED buffers
          /\ has' = [has EXCEPT ![Loop] = HasBuffer(buffers, tgt[Loop])]
      BY <1>0, <1>1, <2>3 DEF Lookup, ReadBuffer, TypeOK, LocalsOK
    <3>2. has'[Loop] = HasBuffer(buffers, tgt[Loop])
      BY <1>0, <3>1, Zenon DEF TypeOK, LocalsOK
    <3>3. ~has'[Loop] => ~HasBuffer(buffers', tgt'[Loop])
      BY <3>1, <3>2, Zenon
    <3>4. LoopSpaced'
      BY <3>1, <3>3 DEF LoopSpaced, FirstHasNoEntry, FirstCounted, DueAgain, RepeatCounted,
                        FirstPCs
    <3> QED
      BY <2>1, <3>4 DEF SpacedInv
  <2> QED
    BY <1>1, <2>2, <2>3 DEF Lookup
<1>2. CASE ConnsToPeer(Loop) \/ CloseUnknownPeer(Loop)
  <2>1. EntriesSpaced'
    BY <1>2, SameEntriesSpaced DEF ConnsToPeer, CloseUnknownPeer, sendVars
  <2>2. CASE pc'[Loop] # "prepare"
    <3>1. pc'[Loop] \in {"idle", "check", "rdvConn"}
      BY <1>0, <1>2, <2>2, GotoMoves, ReturnMoves DEF ConnsToPeer, CloseUnknownPeer
    <3> QED
      BY <2>1, <3>1, LoopOwesNothing DEF SpacedInv, FirstPCs
  <2>3. CASE pc'[Loop] = "prepare"
    <3>1. /\ pc[Loop] = "conns" /\ ~has[Loop] /\ UNCHANGED buffers
          /\ tgt'[Loop] = tgt[Loop] /\ has'[Loop] = has[Loop]
      BY <1>0, <1>2, <2>3, GotoMoves, ReturnMoves DEF ConnsToPeer, CloseUnknownPeer
    <3> QED
      BY <2>1, <2>3, <3>1 DEF SpacedInv, LoopSpaced, FirstHasNoEntry, FirstCounted, DueAgain,
                              RepeatCounted
  <2> QED
    BY <2>2, <2>3
<1>3. CASE PrepareServiceRequest(Loop)
  <2>1. EntriesSpaced'
    BY <1>3, SameEntriesSpaced DEF PrepareServiceRequest, sendVars
  <2>2. /\ pc[Loop] = "prepare" /\ pc'[Loop] \in {"blacklist", "incr1"} /\ UNCHANGED buffers
        /\ tgt'[Loop] = tgt[Loop] /\ has'[Loop] = has[Loop]
    BY <1>0, <1>3 DEF PrepareServiceRequest, Goto, localVars, TypeOK, LocalsOK
  <2> QED
    BY <2>1, <2>2 DEF SpacedInv, LoopSpaced, FirstHasNoEntry, FirstCounted, DueAgain,
                      RepeatCounted, FirstPCs
<1>4. CASE Blacklist(Loop)
  <2>1. EntriesSpaced' /\ pc'[Loop] = "idle"
    BY <1>4, AddedSpaced, LoopTable DEF Blacklist
  <2> QED
    BY <2>1, LoopOwesNothing DEF SpacedInv, FirstPCs
<1>5. CASE CountFirstAttempt(Loop)
  <2>1. SameRequests(buffers, buffers') /\ NoEarlier(buffers, buffers')
    BY <1>0, <1>5, LoopTable, IncrementType, IncrementEntry DEF CountFirstAttempt
  <2>2. /\ pc[Loop] = "incr1" /\ pc'[Loop] = "send" /\ UNCHANGED <<sinceTry, streak>>
        /\ tgt'[Loop] = tgt[Loop] /\ has'[Loop] = has[Loop]
    BY <1>5, LoopTable DEF CountFirstAttempt
  <2>3. EntriesSpaced'
    BY <2>1, <2>2, EntriesKept DEF SpacedInv, Marking
  <2> QED
    BY <1>0, <2>1, <2>2, <2>3 DEF SpacedInv, LoopSpaced, FirstHasNoEntry, FirstCounted, DueAgain,
                                  RepeatCounted, FirstPCs, SameRequests, HasBuffer
<1>6. CASE SendRequest(Loop)
  <2>1. /\ pc[Loop] = "send" /\ pc'[Loop] \in {"addOK", "addFail"} /\ UNCHANGED buffers
        /\ tgt'[Loop] = tgt[Loop] /\ has'[Loop] = has[Loop]
    BY <1>0, <1>6, GotoMoves DEF SendRequest
  <2>2. ~has[Loop] /\ ~HasBuffer(buffers, tgt[Loop])
    BY <2>1 DEF SpacedInv, LoopSpaced, FirstHasNoEntry, FirstPCs
  <2>3. /\ \A s \in Peers : s # tgt[Loop] => streak'[s] = streak[s] /\ sinceTry'[s] = sinceTry[s]
        /\ streak'[tgt[Loop]] = CappedSucc(0, MaxAttempts)
    BY <1>0, <1>6 DEF SendRequest, SendTo
  <2>4. EntriesSpaced'
    BY <2>1, <2>2, <2>3 DEF SpacedInv, EntriesSpaced, StreakCounted, AgesAgree, Valid, Marking,
                            HasBuffer
  <2>5. streak'[tgt'[Loop]] <= CappedSucc(0, MaxAttempts)
    BY <2>1, <2>3, CappedSuccType, BoundsAreNaturals
  <2> QED
    BY <2>1, <2>2, <2>4, <2>5 DEF SpacedInv, LoopSpaced, FirstHasNoEntry, FirstCounted, DueAgain,
                                  RepeatCounted, FirstPCs
<1>7. CASE AddAfterFailedSend(Loop)
  <2>1. EntriesSpaced' /\ pc'[Loop] = "idle"
    BY <1>7, AddedSpaced, LoopTable DEF AddAfterFailedSend
  <2> QED
    BY <2>1, LoopOwesNothing DEF SpacedInv, FirstPCs
<1>8. CASE AddAfterSend(Loop)
  <2>1. EntriesSpaced'
    BY <1>8, AddedSpaced DEF AddAfterSend
  <2>2. pc[Loop] = "addOK" /\ pc'[Loop] = "incr2" /\ has'[Loop] = has[Loop]
    <3>1. PICK b : TableStep(Loop, "addOK", b, "incr2")
      BY <1>8 DEF AddAfterSend
    <3> QED
      BY <3>1, LoopTable
  <2>3. ~has[Loop]
    BY <2>2 DEF SpacedInv, LoopSpaced, FirstHasNoEntry, FirstPCs
  <2> QED
    BY <2>1, <2>2, <2>3 DEF SpacedInv, LoopSpaced, FirstHasNoEntry, FirstCounted, DueAgain,
                      RepeatCounted, FirstPCs
<1> QED
  BY <1>1, <1>2, <1>3, <1>4, <1>5, <1>6, <1>7, <1>8

\* The check lets a request pass only when its time has come: the entry is no
\* older than the last request, and counts no fewer than were sent.
LEMMA CheckSpaced ==
    ASSUME TypeOK, TypeOK', SpacedInv, LoopIsAllowed, CheckTooEarly(Loop)
    PROVE  SpacedInv'
<1>0. tgt[Loop] \in Peers /\ buffers \in Tables
  BY LoopIsCaller DEF TypeOK, LocalsOK
<1>1. pc[Loop] = "check" /\ UNCHANGED <<buffers, sinceTry, streak>>
  BY LoopTable DEF CheckTooEarly
<1>2. EntriesSpaced'
  BY <1>1, SameEntriesSpaced
<1>3. CASE IsRequestTooEarly(buffers, tgt[Loop])
  <2>1. pc'[Loop] = "idle"
    BY <1>3, LoopTable DEF CheckTooEarly
  <2> QED
    BY <1>2, <2>1, LoopOwesNothing DEF SpacedInv, FirstPCs
<1>4. CASE ~IsRequestTooEarly(buffers, tgt[Loop])
  <2>1. pc'[Loop] = "incr2" /\ tgt'[Loop] = tgt[Loop]
    BY <1>4, LoopTable DEF CheckTooEarly
  <2>2. HasBuffer(buffers, tgt[Loop])
          /\ ~(buffers[tgt[Loop]].since < Backoff(buffers[tgt[Loop]].attempts))
    BY <1>4 DEF IsRequestTooEarly
  <2>3. Valid(tgt[Loop]) /\ ~Marking(tgt[Loop])
    BY <1>1, <2>2 DEF LoopIsAllowed, Blacklisted, HasBuffer, Valid, Marking
  <2>4. /\ streak[tgt[Loop]] <= buffers[tgt[Loop]].attempts
        /\ buffers[tgt[Loop]].since <= sinceTry[tgt[Loop]]
    BY <1>0, <2>3 DEF SpacedInv, EntriesSpaced, StreakCounted, AgesAgree
  <2>5. /\ Backoff(streak[tgt[Loop]]) \in 0..MaxBackoff
        /\ Backoff(buffers[tgt[Loop]].attempts) \in 0..MaxBackoff
        /\ Doubling(buffers[tgt[Loop]].attempts)
             => Backoff(streak[tgt[Loop]]) <= Backoff(buffers[tgt[Loop]].attempts)
    BY <1>0, <2>2, <2>4, CounterTypes, BackoffType, BackoffGrows
  <2>6. Doubling(buffers[tgt[Loop]].attempts)
          => sinceTry[tgt[Loop]] >= Backoff(streak[tgt[Loop]])
    BY <1>0, <2>2, <2>4, <2>5, CounterTypes, BoundsAreNaturals
  <2> QED
    BY <1>1, <1>2, <2>1, <2>2, <2>6 DEF SpacedInv, LoopSpaced, FirstHasNoEntry, FirstCounted, DueAgain,
                                  RepeatCounted, FirstPCs
<1> QED
  BY <1>3, <1>4

\* The repetition is counted before it is sent.
LEMMA CountSpaced ==
    ASSUME TypeOK, TypeOK', SpacedInv, LoopIsAllowed, CountAttempt(Loop)
    PROVE  SpacedInv'
<1>0. tgt[Loop] \in Peers /\ buffers \in Tables
  BY LoopIsCaller DEF TypeOK, LocalsOK
<1>1. /\ pc[Loop] = "incr2" /\ UNCHANGED <<sinceTry, streak>>
      /\ buffers' = IncrementReconnectAttempts(buffers, tgt[Loop])
      /\ \/ pc'[Loop] = "idle"
         \/ has[Loop] /\ pc'[Loop] = "resend" /\ tgt'[Loop] = tgt[Loop]
  BY LoopTable DEF CountAttempt
<1>2. /\ SameRequests(buffers, buffers') /\ NoEarlier(buffers, buffers')
      /\ HasBuffer(buffers, tgt[Loop]) =>
            buffers'[tgt[Loop]].attempts = CappedSucc(buffers[tgt[Loop]].attempts, MaxAttempts)
  BY <1>0, <1>1, IncrementType, IncrementEntry
<1>3. EntriesSpaced'
  BY <1>1, <1>2, EntriesKept DEF SpacedInv, Marking
<1>4. CASE pc'[Loop] = "idle"
  BY <1>3, <1>4, LoopOwesNothing DEF SpacedInv, FirstPCs
<1>5. CASE has[Loop] /\ pc'[Loop] = "resend" /\ tgt'[Loop] = tgt[Loop]
  <2>1. DueAgain'
    <3>1. /\ HasBuffer(buffers, tgt[Loop])
          /\ Doubling(buffers[tgt[Loop]].attempts)
               => sinceTry[tgt[Loop]] >= Backoff(streak[tgt[Loop]])
      BY <1>1, <1>5 DEF SpacedInv, LoopSpaced, DueAgain
    <3>2. HasBuffer(buffers', tgt[Loop])
      BY <1>0, <1>2, <3>1 DEF SameRequests
    <3>3. Doubling(buffers'[tgt[Loop]].attempts) => Doubling(buffers[tgt[Loop]].attempts)
      BY <1>0, <1>2, <3>1, <3>2, AttemptsGrow
    <3> QED
      BY <1>1, <1>5, <3>1, <3>2, <3>3 DEF DueAgain
  <2>2. RepeatCounted'
    <3> SUFFICES ASSUME HasBuffer(buffers', tgt[Loop])
                 PROVE  CappedSucc(streak[tgt[Loop]], MaxAttempts)
                            <= buffers'[tgt[Loop]].attempts
      BY <1>1, <1>5 DEF RepeatCounted
    <3>1. HasBuffer(buffers, tgt[Loop])
      BY <1>0, <1>2 DEF SameRequests
    <3>2. Valid(tgt[Loop])
      BY <1>1, <3>1 DEF LoopIsAllowed, Blacklisted, HasBuffer, Valid
    <3>3. streak[tgt[Loop]] <= buffers[tgt[Loop]].attempts
      BY <1>0, <3>2 DEF SpacedInv, EntriesSpaced, StreakCounted
    <3> QED
      BY <1>0, <1>2, <3>1, <3>3, CounterTypes, BoundsAreNaturals DEF CappedSucc
  <2> QED
    BY <1>3, <1>5, <2>1, <2>2 DEF SpacedInv, LoopSpaced, FirstHasNoEntry, FirstCounted, FirstPCs
<1> QED
  BY <1>1, <1>4, <1>5

\* It is sent, and the entry's clock is not restarted yet.
LEMMA ResendSpaced ==
    ASSUME TypeOK, TypeOK', SpacedInv, ResendRequest(Loop)
    PROVE  SpacedInv'
<1>0. /\ tgt[Loop] \in Peers /\ Loop \in Callers
      /\ streak \in [Peers -> 0..MaxAttempts] /\ sinceTry \in [Peers -> 0..MaxBackoff]
  BY LoopIsCaller DEF TypeOK, LocalsOK, SentOK
<1>1. /\ pc[Loop] = "resend" /\ pc'[Loop] \in {"rdvOK", "rdvFail"} /\ UNCHANGED buffers
      /\ tgt'[Loop] = tgt[Loop]
  BY <1>0, GotoMoves DEF ResendRequest
<1>2. /\ \A s \in Peers : s # tgt[Loop] => streak'[s] = streak[s] /\ sinceTry'[s] = sinceTry[s]
      /\ streak'[tgt[Loop]] = CappedSucc(streak[tgt[Loop]], MaxAttempts)
  BY <1>0 DEF ResendRequest, SendTo
<1>3. EntriesSpaced'
  <2> SUFFICES ASSUME NEW s \in Peers, Valid(s)'
               PROVE  /\ streak'[s] <= buffers'[s].attempts
                      /\ ~Marking(s)' => buffers'[s].since <= sinceTry'[s]
    BY DEF EntriesSpaced, StreakCounted, AgesAgree
  <2>1. Valid(s)
    BY <1>1 DEF Valid
  <2>2. CASE s = tgt[Loop]
    BY <1>1, <1>2, <2>1, <2>2 DEF SpacedInv, LoopSpaced, RepeatCounted, Valid, Marking
  <2>3. CASE s # tgt[Loop]
    BY <1>1, <1>2, <2>1, <2>3
       DEF SpacedInv, EntriesSpaced, StreakCounted, AgesAgree, Marking
  <2> QED
    BY <2>2, <2>3
<1> QED
  BY <1>1, <1>3, LoopOwesNothing DEF SpacedInv, FirstPCs

\* The states are recorded, which restarts the clock of the entry.
LEMMA MarkSpaced ==
    ASSUME TypeOK, TypeOK', SpacedInv,
           MarkRendezvous(Loop) \/ MarkResent(Loop) \/ MarkConnected(Loop)
               \/ SetRemoteAddress(Loop)
    PROVE  SpacedInv'
<1>0. /\ tgt[Loop] \in Peers /\ Loop \in Callers /\ buffers \in Tables
      /\ streak \in [Peers -> 0..MaxAttempts]
  BY LoopIsCaller DEF TypeOK, LocalsOK, SentOK
<1>1. ASSUME NEW r \in RendezvousStates, NEW from, NEW to,
             TableStep(Loop, from, UpdateBufferRendezvousState(buffers, tgt[Loop], r), to),
             <<from, to>> \in {<<"rdvOK", "libOK">>, <<"rdvFail", "libFail">>,
                              <<"rdvConn", "libConn">>}
      PROVE  SpacedInv'
  <2>1. /\ SameRequests(buffers, UpdateBufferRendezvousState(buffers, tgt[Loop], r))
        /\ NoEarlier(buffers, UpdateBufferRendezvousState(buffers, tgt[Loop], r))
    BY <1>0, UpdateRendezvousType, RendezvousNoEarlier
  <2>2. \A s \in Peers : Marking(s) => Marking(s)'
    BY <1>1, LoopTable DEF Marking
  <2>3. to \notin FirstPCs \cup {"conns", "incr2", "resend"}
    BY <1>1 DEF FirstPCs
  <2> QED
    BY <1>1, <2>1, <2>2, <2>3, SetterSpaced
<1>2. CASE MarkRendezvous(Loop)
  BY <1>1, <1>2 DEF MarkRendezvous, RendezvousStates
<1>3. ASSUME NEW l \in ConnectionStates, buffers' = UpdateBufferLibP2PState(buffers, tgt[Loop], l),
             \A s \in Peers : s # tgt[Loop] => streak'[s] = streak[s],
             IF l = "Connected" /\ HasBuffer(buffers, tgt[Loop])
               THEN streak'[tgt[Loop]] = 0 ELSE streak'[tgt[Loop]] = streak[tgt[Loop]],
             UNCHANGED sinceTry,
             pc'[Loop] \in {"idle", "addrConn"}
      PROVE  SpacedInv'
  <2>1. /\ SameRequests(buffers, buffers')
        /\ l # "Connected" => NoEarlier(buffers, buffers')
        /\ \A q \in Peers : q # tgt[Loop] => buffers'[q] = buffers[q]
        /\ HasBuffer(buffers, tgt[Loop]) =>
              /\ buffers'[tgt[Loop]].since = 0
              /\ l = "Connected" => buffers'[tgt[Loop]].attempts = 0
    BY <1>0, <1>3, UpdateLibType, LibEntry
  <2>2. EntriesSpaced'
    <3> SUFFICES ASSUME NEW s \in Peers, Valid(s)'
                 PROVE  /\ streak'[s] <= buffers'[s].attempts
                        /\ ~Marking(s)' => buffers'[s].since <= sinceTry'[s]
      BY DEF EntriesSpaced, StreakCounted, AgesAgree
    <3>1. Valid(s) /\ HasBuffer(buffers, s)
      BY <2>1 DEF Valid, SameRequests
    <3>2. streak[s] <= buffers[s].attempts
      BY <3>1 DEF SpacedInv, EntriesSpaced, StreakCounted
    <3>3. CASE s # tgt[Loop]
      <4>1. buffers[s].since <= sinceTry[s]
        BY <3>1, <3>3 DEF SpacedInv, EntriesSpaced, AgesAgree, Marking
      <4> QED
        BY <1>3, <2>1, <3>2, <3>3, <4>1
    <3>4. CASE s = tgt[Loop]
      <4>1. buffers'[s].since <= sinceTry'[s]
        BY <1>3, <2>1, <3>1, <3>4, CounterTypes, BoundsAreNaturals
      <4>2. CASE l = "Connected"
        BY <1>3, <2>1, <3>1, <3>4, <4>1, <4>2
      <4>3. CASE l # "Connected"
        <5>1. streak'[s] = streak[s] /\ buffers'[s].attempts >= buffers[s].attempts
          BY <1>3, <2>1, <3>1, <3>4, <4>3 DEF NoEarlier
        <5>2. HasBuffer(buffers', s)
          BY <2>1, <3>1 DEF SameRequests
        <5> QED
          BY <3>1, <3>2, <4>1, <5>1, <5>2, CounterTypes, CounterTypesNext, BoundsAreNaturals
      <4> QED
        BY <4>2, <4>3
    <3> QED
      BY <3>3, <3>4
  <2> QED
    BY <1>3, <2>2, LoopOwesNothing DEF SpacedInv, FirstPCs
<1>4. CASE MarkResent(Loop)
  <2>1. PICK l \in {"Connecting", "CanNotConnectUnknownReason"} :
            /\ buffers' = UpdateBufferLibP2PState(buffers, tgt[Loop], l)
            /\ pc'[Loop] = "idle" /\ UNCHANGED <<sinceTry, streak>>
    BY <1>4, LoopTable DEF MarkResent
  <2>2. l \in ConnectionStates /\ l # "Connected"
    BY DEF ConnectionStates
  <2> QED
    BY <1>3, <2>1, <2>2
<1>5. CASE MarkConnected(Loop)
  <2>1. /\ buffers' = UpdateBufferLibP2PState(buffers, tgt[Loop], "Connected")
        /\ pc'[Loop] = "addrConn" /\ UNCHANGED sinceTry
        /\ streak' = [streak EXCEPT ![tgt[Loop]] =
                         IF HasBuffer(buffers, tgt[Loop]) THEN 0 ELSE @]
    BY <1>0, <1>5, GotoMoves DEF MarkConnected
  <2>2. "Connected" \in ConnectionStates
    BY DEF ConnectionStates
  <2> QED
    BY <1>0, <1>3, <2>1, <2>2
<1>6. CASE SetRemoteAddress(Loop)
  <2>1. /\ SameRequests(buffers, SetLastOtherSideMultiAddress(buffers, tgt[Loop], "transport"))
        /\ NoEarlier(buffers, SetLastOtherSideMultiAddress(buffers, tgt[Loop], "transport"))
    BY <1>0, SetAddressType, AddressNoEarlier DEF Addresses
  <2>2. \A s \in Peers : Marking(s) => Marking(s)'
    BY <1>6, LoopTable DEF SetRemoteAddress, Marking
  <2> QED
    BY <1>6, <2>1, <2>2, SetterSpaced DEF SetRemoteAddress, FirstPCs
<1> QED
  BY <1>2, <1>4, <1>5, <1>6

\* The invariant holds at the start ...
LEMMA SpacedInit == Init => SpacedInv
BY LoopIsCaller DEF Init, SpacedInv, EntriesSpaced, LoopSpaced, StreakCounted, AgesAgree, Valid,
    FirstHasNoEntry, FirstCounted, DueAgain, RepeatCounted, FirstPCs, NewNodeBuffers, HasBuffer

\* ... and every step keeps it.
LEMMA SpacedStep ==
    ASSUME Alone, TypeOK, AloneInv, SpacedInv, [Next]_vars
    PROVE  SpacedInv'
<1>1. TypeOK'
  BY StepType
<1>2. CASE processSeller(Loop)
  BY <1>1, <1>2, FirstSpaced, CheckSpaced, CountSpaced, ResendSpaced, MarkSpaced
     DEF processSeller, AloneInv
<1>3. CASE Restart
  BY <1>3, LoopIsCaller
     DEF Restart, SpacedInv, EntriesSpaced, LoopSpaced, StreakCounted, AgesAgree, Valid,
         FirstHasNoEntry, FirstCounted, DueAgain, RepeatCounted, FirstPCs, NewNodeBuffers,
         HasBuffer
<1> QED
  BY <1>1, <1>2, <1>3, QuietSpaced, TickSpaced, KindsOfSteps DEF AloneInv

\* Where a repetition leaves, it is due.
LEMMA ResendIsDue ==
    ASSUME AloneInv, SpacedInv, NEW t \in Callers, Apps = {}, pc[t] = "resend",
           Doubling(buffers[tgt[t]].attempts)
    PROVE  sinceTry[tgt[t]] >= Backoff(streak[tgt[t]])
<1>1. t = Loop
  BY DEF Callers, AloneInv, OnlyLoopCalls, PunchingPCs
<1> QED
  BY <1>1 DEF SpacedInv, LoopSpaced, DueAgain

\* While the loop alone calls processSeller, and as long as the entry has not
\* counted up to an attempt at which the product wraps (the 29th in the code),
\* the n-th repetition of a request leaves no sooner than 30 s * 2^n, or the
\* cap, after the one before it, whatever hole punching wrote into the entry.
THEOREM RepetitionsAreSpaced ==
    ASSUME Alone
    PROVE  Spec => RepeatsAreSpaced
<1>1. Init => TypeOK /\ AloneInv /\ SpacedInv
  BY InitType, AloneInit, SpacedInit
<1>2. TypeOK /\ AloneInv /\ SpacedInv /\ [Next]_vars => TypeOK' /\ AloneInv' /\ SpacedInv'
  BY StepType, AloneStep, SpacedStep
<1>3. TypeOK /\ AloneInv /\ SpacedInv /\ [Next]_vars =>
        [\A t \in Callers :
          /\ pc[t] = "resend" /\ pc'[t] \in {"rdvOK", "rdvFail"}
          /\ HasBuffer(buffers, tgt[t]) /\ Doubling(buffers[tgt[t]].attempts)
          => sinceTry[tgt[t]] >= Backoff(streak[tgt[t]])]_vars
  BY ResendIsDue DEF Alone
<1> QED
  BY <1>1, <1>2, <1>3, PTL DEF Spec, RepeatsAreSpaced
=============================================================================
