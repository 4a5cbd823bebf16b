------------------------------ MODULE L2capCoc ------------------------------
(***************************************************************************)
(* One L2CAP connection-oriented channel of lib/ble-manager.js and the peer*)
(* at its other end: LE credit based flow control in both directions,      *)
(* pause and resume, and the ways in which the channel ends.               *)
(*                                                                         *)
(* A frame stands for a fragment of an SDU; payloads are left out.  The    *)
(* sentCallback of a frame may be called from inside sendData, and the     *)
(* application may call the channel again from its callbacks, so callStack *)
(* holds the activations on the JavaScript stack, the innermost last: the  *)
(* loop of handleCocIncomingPackets, the listeners of 'data' or 'credits', *)
(* a sentCallback.                                                         *)
(*                                                                         *)
(* The definitions between a comment and the operator it is about are slips*)
(* of that operator; the properties tell each of them from the code.       *)
(***************************************************************************)
EXTENDS Integers, Sequences, FiniteSets

CONSTANTS
  Initiators,       (* who may have asked for the channel: "local", "peer"     *)
  RxGrant,          (* credits given to the peer at a time (500)               *)
  LowWater,         (* balance at which the peer is given more (70)            *)
  InitialTxCredits, (* credits the peer gives when the channel is established  *)
  CreditLimit,      (* balance above which the peer broke the rules (65535)    *)
  MaxSdus,          (* bound: SDUs in each direction                           *)
  MaxExchanged,     (* bound: SDUs in both directions together                 *)
  MaxFrames,        (* bound: frames of an SDU                                 *)
  MaxGrants,        (* bound: credit packets from the peer, one credit each    *)
  MaxViolations     (* bound: frames the peer sends without a credit           *)

ASSUME CocAssumption ==
  /\ Initiators \subseteq {"local", "peer"}
  /\ RxGrant \in Nat /\ LowWater \in Nat /\ LowWater < RxGrant
  /\ InitialTxCredits \in Nat /\ CreditLimit \in Nat
  /\ MaxSdus \in Nat /\ MaxExchanged \in Nat /\ MaxFrames \in Nat \ {0}
  /\ MaxGrants \in Nat /\ MaxViolations \in Nat

VARIABLES
  obj,             \* the channel object
  inCocMap,        \* cocMap has the channel's rxCid
  inTxCidToRxCid,  \* txCidToRxCid has the channel's txCid
  numCoc,
  requestPending,  \* the disconnection request is in activeIdentifiers
  disconnected,    \* the BLE connection is gone
  crashed,         \* an exception left the data handler
  callStack,       \* activations, innermost last
  toPeer, toLocal, \* packets under way, in order
  peer,            \* the other end of the channel
  submitted,       \* history: number of SDUs given to send
  sent,            \* history: SDUs whose sentCallback was called, in order
  received         \* history: SDUs given to the 'data' listeners, in order

registry == <<inCocMap, inTxCidToRxCid, numCoc, requestPending>>
failures == <<disconnected, crashed>>
hostVars == <<obj, registry, failures, callStack>>
wires == <<toPeer, toLocal>>
historyVars == <<submitted, sent, received>>
vars == <<hostVars, wires, peer, historyVars>>

Sdus == 1 .. MaxSdus
Frame == [sdu : Sdus, index : 1 .. MaxFrames, total : 1 .. MaxFrames]
NoFrame == [sdu |-> 0, index |-> 0, total |-> 0]
IsLast(frame) == frame.index = frame.total
Frames(s, n) == [i \in 1 .. n |-> [sdu |-> s, index |-> i, total |-> n]]

Packet ==
  [type : {"frame"}, frame : Frame]
    \cup [type : {"credits"}, credits : Nat]
    \cup [type : {"disconnectionRequest", "disconnectionResponse", "reject"}]
FramePacket(f) == [type |-> "frame", frame |-> f]
Credits(n) == [type |-> "credits", credits |-> n]
Signal(type) == [type |-> type]

\* The fields of the channel object; pending is the frame that is with the adapter
\* while hasPendingOutgoingPacket, and sduFramesLeft stands for rxSduBytesLeft.
Channel ==
  [txCredits : Nat, rxCredits : 0 .. LowWater + RxGrant,
   incomingPackets : Seq([sdu : Sdus, frames : 1 .. MaxFrames, total : 1 .. MaxFrames]),
   sduFramesLeft : 0 .. MaxFrames, isPaused : BOOLEAN, isInDataCallback : BOOLEAN,
   outgoingPackets : Seq(Frame), pending : Frame \cup {NoFrame},
   hasPendingOutgoingPacket : BOOLEAN, isActive : BOOLEAN,
   isWaitingForDisconnectResponse : BOOLEAN]

\* The peer: the credits it may still use, those it has given that were not used yet,
\* the SDUs it has begun, the frames left of the last one, its grants and violations.
Peer ==
  [txCredits : Nat, rxCredits : Nat, sdu : 0 .. MaxSdus, total : 0 .. MaxFrames,
   framesLeft : 0 .. MaxFrames, grants : 0 .. MaxGrants, violations : 0 .. MaxViolations,
   state : {"none", "open", "closing", "closed"}]

\* Host, wires and peer are well formed; no credit balance is negative.
TypeOK ==
  /\ obj \in Channel
  /\ inCocMap \in BOOLEAN /\ inTxCidToRxCid \in BOOLEAN
  /\ numCoc \in {0, 1}
  /\ requestPending \in BOOLEAN /\ disconnected \in BOOLEAN /\ crashed \in BOOLEAN
  /\ callStack \in Seq({"loop", "data", "sent", "credits"})
  /\ toPeer \in Seq(Packet) /\ toLocal \in Seq(Packet)
  /\ peer \in Peer
  /\ submitted \in 0 .. MaxSdus
  /\ sent \in Seq(Sdus)
  /\ received \in Seq([sdu : Sdus, frames : 1 .. MaxFrames, total : 1 .. MaxFrames])

Init ==
  /\ obj = [txCredits |-> 0, rxCredits |-> 0, incomingPackets |-> <<>>, sduFramesLeft |-> 0,
            isPaused |-> FALSE, isInDataCallback |-> FALSE, outgoingPackets |-> <<>>,
            pending |-> NoFrame, hasPendingOutgoingPacket |-> FALSE, isActive |-> FALSE,
            isWaitingForDisconnectResponse |-> FALSE]
  /\ inCocMap = FALSE /\ inTxCidToRxCid = FALSE
  /\ numCoc = 0
  /\ requestPending = FALSE /\ disconnected = FALSE /\ crashed = FALSE
  /\ callStack = <<>>
  /\ toPeer = <<>> /\ toLocal = <<>>
  /\ peer = [txCredits |-> 0, rxCredits |-> 0, sdu |-> 0, total |-> 0, framesLeft |-> 0,
             grants |-> 0, violations |-> 0, state |-> "none"]
  /\ submitted = 0 /\ sent = <<>> /\ received = <<>>


-----------------------------------------------------------------------------
(* The JavaScript stack. *)

Top == callStack[Len(callStack)]
Pop == SubSeq(callStack, 1, Len(callStack) - 1)
EventLoop == ~crashed /\ callStack = <<>>
ApplicationRuns == ~crashed /\ (callStack # <<>> => Top # "loop")

SendPacket(packet) == IF disconnected THEN toPeer ELSE Append(toPeer, packet)

\* disconnectCoc, for a channel object o that is active.
DisconnectCoc(o) ==
  /\ obj' = [o EXCEPT !.isActive = FALSE, !.isWaitingForDisconnectResponse = TRUE]
  /\ requestPending' = TRUE
  /\ toPeer' = SendPacket(Signal("disconnectionRequest"))

-----------------------------------------------------------------------------
(* The channel is established. *)

\* By a response to l2capCoCManager.connect, or by the callback of a registered PSM.
\* Only the latter enters the peer's channel identifier in txCidToRxCid.
EntersTxCid(initiator) == initiator = "peer"

Establish(initiator, initiallyPaused) ==
  /\ EventLoop
  /\ ~disconnected
  /\ peer.state = "none"
  /\ inCocMap' = TRUE
  /\ inTxCidToRxCid' = EntersTxCid(initiator)
  /\ numCoc' = numCoc + 1
  /\ LET credits == IF initiallyPaused THEN 0 ELSE RxGrant IN
     /\ obj' = [obj EXCEPT !.isActive = TRUE, !.txCredits = InitialTxCredits,
                           !.rxCredits = credits]
     /\ peer' = [peer EXCEPT !.state = "open", !.txCredits = credits,
                             !.rxCredits = InitialTxCredits]
  /\ UNCHANGED <<requestPending, failures, callStack, wires, historyVars>>

-----------------------------------------------------------------------------
(* Sending. *)

CanSend(o) ==
  /\ ~o.hasPendingOutgoingPacket
  /\ o.outgoingPackets # <<>>
  /\ o.txCredits > 0
  /\ ~disconnected
  /\ o.isActive

\* triggerCocSend, for a channel object o: at most one frame is with the adapter.
TriggerCocSend(o) ==
  IF CanSend(o)
  THEN /\ obj' = [o EXCEPT !.txCredits = @ - 1, !.hasPendingOutgoingPacket = TRUE,
                           !.pending = Head(o.outgoingPackets), !.outgoingPackets = Tail(@)]
       /\ toPeer' = SendPacket(FramePacket(Head(o.outgoingPackets)))
  ELSE obj' = o /\ UNCHANGED toPeer

\* send(sdu), an SDU of n frames.
Send(n) ==
  /\ ApplicationRuns
  /\ submitted < MaxSdus /\ submitted + peer.sdu < MaxExchanged
  /\ ~disconnected /\ obj.isActive
  /\ submitted' = submitted + 1
  /\ TriggerCocSend([obj EXCEPT !.outgoingPackets = @ \o Frames(submitted + 1, n)])
  /\ UNCHANGED <<registry, failures, callStack, toLocal, peer, sent, received>>

\* The adapter has written the frame: its sentCallback calls that of the user, if the
\* SDU is complete, and sends the next frame when that has returned.
FrameWritten ==
  /\ ApplicationRuns
  /\ obj.hasPendingOutgoingPacket
  /\ ~disconnected
  /\ LET o == [obj EXCEPT !.hasPendingOutgoingPacket = FALSE, !.pending = NoFrame] IN
     IF IsLast(obj.pending)
     THEN /\ sent' = Append(sent, obj.pending.sdu)
          /\ callStack' = Append(callStack, "sent")
          /\ obj' = o /\ UNCHANGED toPeer
     ELSE TriggerCocSend(o) /\ UNCHANGED <<sent, callStack>>
  /\ UNCHANGED <<registry, failures, toLocal, peer, submitted, received>>

\* A sentCallback, or the 'credits' listeners, return to code that tries to send.
SenderResumesOnly ==
  /\ ApplicationRuns
  /\ callStack # <<>> /\ Top \in {"sent", "credits"}
  /\ callStack' = Pop
  /\ UNCHANGED <<obj, registry, failures, wires, peer, historyVars>>

SenderResumes ==
  /\ ApplicationRuns
  /\ callStack # <<>> /\ Top \in {"sent", "credits"}
  /\ callStack' = Pop
  /\ TriggerCocSend(obj)
  /\ UNCHANGED <<registry, failures, toLocal, peer, historyVars>>

\* The 'credits' listeners run before anything is sent.
HandleCredits ==
  /\ EventLoop
  /\ toLocal # <<>> /\ Head(toLocal).type = "credits"
  /\ toLocal' = Tail(toLocal)
  /\ IF ~inTxCidToRxCid \/ ~obj.isActive
     THEN UNCHANGED <<obj, requestPending, toPeer, callStack>>
     ELSE LET o == [obj EXCEPT !.txCredits = @ + Head(toLocal).credits] IN
          IF o.txCredits > CreditLimit
          THEN DisconnectCoc(o) /\ UNCHANGED callStack
          ELSE obj' = o /\ callStack' = <<"credits">> /\ UNCHANGED <<requestPending, toPeer>>
  /\ UNCHANGED <<inCocMap, inTxCidToRxCid, numCoc, failures, peer, historyVars>>

-----------------------------------------------------------------------------
(* Receiving. *)

\* A frame for the channel: the first of an SDU announces its length.
AddFrame(o, frame) ==
  LET first == o.sduFramesLeft = 0
      sdus == o.incomingPackets
      begun == [sdus EXCEPT ![Len(sdus)].frames = @ + 1]
  IN [o EXCEPT
       !.rxCredits = @ - 1,
       !.sduFramesLeft = (IF first THEN frame.total ELSE @) - 1,
       !.incomingPackets =
         IF first THEN Append(sdus, [sdu |-> frame.sdu, frames |-> 1, total |-> frame.total])
                  ELSE begun]

\* Without a credit the handler calls a function that does not exist.
HandleFrame ==
  /\ EventLoop
  /\ toLocal # <<>> /\ Head(toLocal).type = "frame"
  /\ toLocal' = Tail(toLocal)
  /\ IF ~obj.isActive
     THEN UNCHANGED <<obj, crashed, callStack>>
     ELSE IF obj.rxCredits = 0
     THEN crashed' = TRUE /\ UNCHANGED <<obj, callStack>>
     ELSE /\ obj' = AddFrame(obj, Head(toLocal).frame)
          /\ callStack' = <<"loop">>
          /\ UNCHANGED crashed
  /\ UNCHANGED <<registry, disconnected, toPeer, peer, historyVars>>

\* The number of SDUs that are complete and were not given to the listeners.
NumCompleteAll == Len(obj.incomingPackets)
NumComplete == Len(obj.incomingPackets) - (IF obj.sduFramesLeft # 0 THEN 1 ELSE 0)

InLoop == ~crashed /\ callStack # <<>> /\ Top = "loop"
MayDeliver == ~obj.isPaused /\ ~obj.isInDataCallback /\ NumComplete > 0

\* One round of the loop of handleCocIncomingPackets.
LoopDelivers ==
  /\ InLoop
  /\ MayDeliver
  /\ received' = Append(received, Head(obj.incomingPackets))
  /\ obj' = [obj EXCEPT !.incomingPackets = Tail(@), !.isInDataCallback = TRUE]
  /\ callStack' = Append(callStack, "data")
  /\ UNCHANGED <<registry, failures, wires, peer, submitted, sent>>

DataCallbackReturns ==
  /\ ApplicationRuns
  /\ callStack # <<>> /\ Top = "data"
  /\ callStack' = Pop
  /\ obj' = [obj EXCEPT !.isInDataCallback = FALSE]
  /\ UNCHANGED <<registry, failures, wires, peer, historyVars>>

NeedsCreditsWhenEmpty == obj.rxCredits = 0 /\ ~obj.isPaused /\ obj.isActive /\ ~disconnected
NeedsCredits == obj.rxCredits <= LowWater /\ ~obj.isPaused /\ obj.isActive /\ ~disconnected

LoopEnds ==
  /\ InLoop
  /\ ~MayDeliver
  /\ callStack' = Pop
  /\ IF NeedsCredits
     THEN /\ obj' = [obj EXCEPT !.rxCredits = @ + RxGrant]
          /\ toPeer' = SendPacket(Credits(RxGrant))
     ELSE UNCHANGED <<obj, toPeer>>
  /\ UNCHANGED <<registry, failures, toLocal, peer, historyVars>>

Pause ==
  /\ ApplicationRuns
  /\ peer.state # "none" /\ ~obj.isPaused
  /\ obj' = [obj EXCEPT !.isPaused = TRUE]
  /\ UNCHANGED <<registry, failures, callStack, wires, peer, historyVars>>

Resume ==
  /\ ApplicationRuns
  /\ peer.state # "none"
  /\ obj' = [obj EXCEPT !.isPaused = FALSE]
  /\ callStack' = Append(callStack, "loop")
  /\ UNCHANGED <<registry, failures, wires, peer, historyVars>>

-----------------------------------------------------------------------------
(* The end of the channel. *)

Disconnect ==
  /\ ApplicationRuns
  /\ obj.isActive /\ ~disconnected
  /\ DisconnectCoc(obj)
  /\ UNCHANGED <<inCocMap, inTxCidToRxCid, numCoc, failures, callStack, toLocal, peer, historyVars>>

\* The channel is given up when the request is answered, or not answered in time,
\* unless that was already done because the peer sent a request of its own.
IsNotReleasedUnchecked == TRUE
IsNotReleased == obj.isWaitingForDisconnectResponse

Release ==
  /\ requestPending' = FALSE
  /\ IF IsNotReleased
     THEN /\ numCoc' = numCoc - 1
          /\ inCocMap' = FALSE /\ inTxCidToRxCid' = FALSE
          /\ obj' = [obj EXCEPT !.isWaitingForDisconnectResponse = FALSE]
     ELSE UNCHANGED <<numCoc, inCocMap, inTxCidToRxCid, obj>>

HandleDisconnectionResponse ==
  /\ EventLoop
  /\ toLocal # <<>> /\ Head(toLocal).type \in {"disconnectionResponse", "reject"}
  /\ toLocal' = Tail(toLocal)
  /\ IF requestPending
     THEN Release
     ELSE UNCHANGED <<requestPending, numCoc, inCocMap, inTxCidToRxCid, obj>>
  /\ UNCHANGED <<failures, callStack, toPeer, peer, historyVars>>

DisconnectTimesOut ==
  /\ EventLoop
  /\ requestPending /\ ~disconnected
  /\ Release
  /\ UNCHANGED <<failures, callStack, wires, peer, historyVars>>

HandleDisconnectionRequest ==
  /\ EventLoop
  /\ toLocal # <<>> /\ Head(toLocal).type = "disconnectionRequest"
  /\ toLocal' = Tail(toLocal)
  /\ IF ~inCocMap \/ (~obj.isActive /\ ~obj.isWaitingForDisconnectResponse)
     THEN /\ toPeer' = SendPacket(Signal("reject"))
          /\ UNCHANGED <<numCoc, inCocMap, inTxCidToRxCid, obj>>
     ELSE /\ toPeer' = SendPacket(Signal("disconnectionResponse"))
          /\ numCoc' = numCoc - 1
          /\ inCocMap' = FALSE /\ inTxCidToRxCid' = FALSE
          /\ obj' = [obj EXCEPT !.isActive = FALSE, !.isWaitingForDisconnectResponse = FALSE]
  /\ UNCHANGED <<requestPending, failures, callStack, peer, historyVars>>

\* The BLE connection is lost, with everything under way.
LinkDown ==
  /\ EventLoop
  /\ ~disconnected
  /\ disconnected' = TRUE
  /\ toPeer' = <<>> /\ toLocal' = <<>>
  /\ requestPending' = FALSE
  /\ UNCHANGED <<obj, inCocMap, inTxCidToRxCid, numCoc, crashed, callStack, peer, historyVars>>

-----------------------------------------------------------------------------
(* The peer, which follows the specification but for its violations. *)

PeerSends(type, p) ==
  /\ ~disconnected
  /\ peer' = p
  /\ toLocal' = Append(toLocal, type)
  /\ UNCHANGED <<hostVars, toPeer, historyVars>>

\* The next frame of the peer, the first one of an SDU of n frames or a later one.
NextFrame(n) ==
  IF peer.framesLeft = 0
  THEN [sdu |-> peer.sdu + 1, index |-> 1, total |-> n]
  ELSE [sdu |-> peer.sdu, index |-> peer.total - peer.framesLeft + 1, total |-> peer.total]

PeerSendsFrame(n) ==
  /\ peer.state = "open"
  /\ peer.framesLeft = 0 => peer.sdu < MaxSdus /\ submitted + peer.sdu < MaxExchanged
  /\ peer.framesLeft # 0 => n = peer.total
  /\ peer.txCredits > 0 \/ peer.violations < MaxViolations
  /\ LET frame == NextFrame(n) IN
     PeerSends(FramePacket(frame),
               [peer EXCEPT !.sdu = frame.sdu, !.total = n, !.framesLeft = n - frame.index,
                            !.txCredits = IF @ = 0 THEN 0 ELSE @ - 1,
                            !.violations = IF peer.txCredits = 0 THEN @ + 1 ELSE @])

PeerGrants ==
  /\ peer.state = "open" /\ peer.grants < MaxGrants
  /\ PeerSends(Credits(1), [peer EXCEPT !.grants = @ + 1, !.rxCredits = @ + 1])

PeerDisconnects ==
  /\ peer.state = "open"
  /\ PeerSends(Signal("disconnectionRequest"), [peer EXCEPT !.state = "closing"])

\* A frame that is still with the local adapter has not arrived.
PeerReceives ==
  /\ ~disconnected
  /\ toPeer # <<>>
  /\ Head(toPeer) # FramePacket(obj.pending)
  /\ toPeer' = Tail(toPeer)
  /\ LET packet == Head(toPeer) IN
     CASE packet.type = "frame" ->
            peer' = [peer EXCEPT !.rxCredits = @ - 1] /\ UNCHANGED toLocal
       [] packet.type = "credits" ->
            peer' = [peer EXCEPT !.txCredits = @ + packet.credits] /\ UNCHANGED toLocal
       [] packet.type = "disconnectionRequest" ->
            /\ peer' = [peer EXCEPT !.state = "closed"]
            /\ toLocal' = Append(toLocal, Signal(IF peer.state = "closed"
                                                 THEN "reject" ELSE "disconnectionResponse"))
       [] packet.type \in {"disconnectionResponse", "reject"} ->
            peer' = [peer EXCEPT !.state = "closed"] /\ UNCHANGED toLocal
  /\ UNCHANGED <<hostVars, historyVars>>

-----------------------------------------------------------------------------

\* What the event loop starts, or the adapter calls back, and what then runs to its end.
HostEvent ==
  \/ FrameWritten
  \/ HandleCredits
  \/ HandleFrame
  \/ HandleDisconnectionRequest
  \/ HandleDisconnectionResponse

HostContinues ==
  \/ SenderResumes
  \/ LoopDelivers
  \/ DataCallbackReturns
  \/ LoopEnds

Application ==
  \/ \E initiator \in Initiators, paused \in BOOLEAN : Establish(initiator, paused)
  \/ \E n \in 1 .. MaxFrames : Send(n)
  \/ Pause
  \/ Resume
  \/ Disconnect

PeerStep ==
  \/ \E n \in 1 .. MaxFrames : PeerSendsFrame(n)
  \/ PeerGrants
  \/ PeerDisconnects
  \/ PeerReceives

Next == HostEvent \/ HostContinues \/ Application \/ PeerStep \/ DisconnectTimesOut \/ LinkDown

Spec == Init /\ [][Next]_vars

\* JavaScript runs to completion: callbacks return, and the event loop gets to what has
\* arrived, although the application may call pause and resume in between for ever.  The
\* peer reads what it gets, gives new credits and finishes the SDUs it has begun.
FairSpec ==
  /\ Spec
  /\ WF_vars(LoopDelivers \/ LoopEnds)
  /\ SF_vars(SenderResumes \/ DataCallbackReturns)
  /\ SF_vars(HostEvent)
  /\ WF_vars(PeerReceives)
  /\ WF_vars(PeerGrants)
  /\ WF_vars(\E n \in 1 .. MaxFrames : peer.framesLeft # 0 /\ PeerSendsFrame(n))

-----------------------------------------------------------------------------
(* Properties. *)

\* What a packet has of a kind, and the units of that kind on a wire, each with its packet.
UnitsOf(packet, type) ==
  IF packet.type # type THEN 0 ELSE IF type = "credits" THEN packet.credits ELSE 1
Units(wire, type) == UNION {{i} \X (1 .. UnitsOf(wire[i], type)) : i \in DOMAIN wire}

FramesIn(wire) == Cardinality(Units(wire, "frame"))
CreditsIn(wire) == Cardinality(Units(wire, "credits"))

InUse == obj.isActive /\ ~disconnected /\ peer.state = "open"

\* The channel never uses a credit the peer has not given: what it believes to have, with
\* what is under way, is covered by what the peer expects, although frames wait in the
\* adapter and credits come from inside callbacks.
TxCreditsWithinGrant ==
  InUse =>
    /\ FramesIn(toPeer) <= peer.rxCredits
    /\ obj.txCredits + FramesIn(toPeer) + CreditsIn(toLocal) <= peer.rxCredits

\* Both ends agree on the credits of the peer, so that a peer that keeps the rules is never
\* found to break them.
RxCreditsAgree ==
  InUse /\ peer.violations = 0 =>
    obj.rxCredits = peer.txCredits + FramesIn(toLocal) + CreditsIn(toPeer)

\* Whenever the host is back in its event loop a peer that keeps the rules has credits left,
\* unless the channel is paused (or started paused and was not used yet): nothing else would
\* give it more.
PeerNotStarved ==
  InUse /\ peer.violations = 0 /\ callStack = <<>> /\ ~obj.isPaused /\ peer.sdu # 0 =>
    obj.rxCredits > LowWater

\* SDUs reach the 'data' listeners whole, once and in order, although listeners may pause,
\* resume or disconnect the channel while buffered SDUs are being delivered.
SdusReceivedInOrder ==
  \A i \in DOMAIN received :
    received[i].sdu = i /\ received[i].frames = received[i].total

\* The sentCallbacks are called in the order of the SDUs (the comment in triggerCocSend),
\* although the adapter calls them from inside sendData.
SentCallbacksInOrder == \A i \in DOMAIN sent : sent[i] = i

\* However requests, responses and timeouts of both ends cross, the channel is counted in
\* numCoc exactly while it is in cocMap, and no identifier of it outlives that.
ReleasedOnce ==
  /\ numCoc = IF inCocMap THEN 1 ELSE 0
  /\ inTxCidToRxCid \/ obj.isActive => inCocMap

Released == ~obj.isActive \/ disconnected
NoMoreCredits == peer.grants = MaxGrants /\ obj.txCredits = 0 /\ CreditsIn(toLocal) = 0

\* Every SDU handed in is sent in the end while the peer gives credits: it waits for ever
\* only when the peer has given all it ever gives and the host has none left.  Every SDU
\* the peer has begun is received in the end unless the application leaves the channel
\* paused; that it pauses and resumes it again and again is no excuse.  (The SDUs are
\* bounded, so all of them have been handed in or begun at some time.)
EverySduArrives ==
  /\ []<>(Len(sent) = submitted \/ NoMoreCredits \/ Released)
  /\ <>[]obj.isPaused \/ []<>(Len(received) >= peer.sdu \/ Released)

\* No balance is negative, and the two ends agree on the credits of both directions, as far
\* as each can know.
CreditsAgree == TypeOK /\ TxCreditsWithinGrant /\ RxCreditsAgree /\ PeerNotStarved

\* SDUs and acknowledgements reach the application whole, once and in order.
SdusInOrder == SdusReceivedInOrder /\ SentCallbacksInOrder

\* docs/api/l2cap-coc.md:84, the 'credits' event: "Emitted when the remote device gives
\* new credits": both ends agree on the credits of the channel.
TxCreditsAgree ==
  InUse => obj.txCredits + FramesIn(toPeer) + CreditsIn(toLocal) = peer.rxCredits

\* docs/api/l2cap-coc.md:79, the 'disconnect' event: emitted "when the remote device
\* misbehaves (per specification)", rather than that the handler throws.
MisbehaviourIsHandled == ~crashed
=============================================================================
