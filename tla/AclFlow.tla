------------------------------ MODULE AclFlow ------------------------------
(***************************************************************************)
(* The outgoing ACL data path of the HCI adapter (lib/internal/adapter.js):*)
(* sendData fragments an L2CAP packet, triggerSendPackets writes fragments *)
(* while the controller has free buffers, Number Of Completed Packets and  *)
(* Disconnection Complete events give buffers back.                        *)
(*                                                                         *)
(* The JavaScript is single threaded, but triggerSendPackets calls the     *)
(* sender's sentCallback from the middle of its loop, and that callback    *)
(* may call sendData again.  callStack therefore holds the activations     *)
(* that are on the JavaScript stack, the innermost last: a loop that       *)
(* serves one connection, a loop that serves any, or application code.     *)
(*                                                                         *)
(* The definitions between a comment and the operator it is about are slips*)
(* of that operator; the properties tell each of them from the code.       *)
(***************************************************************************)
EXTENDS Naturals, Sequences, FiniteSets

CONSTANTS
  Handle,         (* connection handles the controller may give out         *)
  NumPackets,     (* buffers announced by LE Read Buffer Size               *)
  MaxSdus,        (* bound: L2CAP packets handed to sendData in a behaviour *)
  MaxFragments,   (* bound: ACL fragments of one L2CAP packet               *)
  MaxLinks,       (* bound: connections established in a behaviour          *)
  MaxOverreport   (* packets a buggy controller reports beyond those it     *)
                  (* completed; 0 for a controller that follows the HCI     *)

ASSUME AclAssumption ==
  /\ NumPackets \in Nat \ {0}
  /\ MaxSdus \in Nat
  /\ MaxFragments \in Nat \ {0}
  /\ MaxLinks \in Nat
  /\ MaxOverreport \in Nat
  /\ {"any", "callback", "none"} \cap Handle = {}

VARIABLES
  isStopped,
  activeConnections,                \* handles the host has an AclConnection for
  numFreeBuffers,
  outgoingL2CAPBuffer,              \* per handle, fragments not yet written
  outgoingL2CAPPacketsInController, \* per handle, completeCallbacks of written ones
  callStack,                        \* activations, innermost last
  links,                            \* handles that are connected on the air
  controllerPackets,                \* per handle, fragments held by the controller
  hciEvents,                        \* events on their way to the host, in order
  linksMade,                        \* connections established so far
  sduState,                         \* history: what became of each L2CAP packet
  sduHandle,                        \* history: the handle it was sent on
  delivered                         \* history: packets transmitted in full

hostVars == <<isStopped, activeConnections, numFreeBuffers, outgoingL2CAPBuffer,
              outgoingL2CAPPacketsInController, callStack>>
controllerVars == <<links, controllerPackets, hciEvents, linksMade>>
historyVars == <<sduState, sduHandle, delivered>>
vars == <<hostVars, controllerVars, historyVars>>

Sdus == 1 .. MaxSdus
NoCallback == 0                 \* the completeCallback of a fragment that is not the last
Fragment == [sdu : Sdus, isFirst : BOOLEAN, isLast : BOOLEAN]
Frame == Handle \cup {"any", "callback"}

Event == [type : {"connected", "disconnected"}, handle : Handle]
           \cup [type : {"completed"}, count : [Handle -> Nat]]

\* The state of the adapter, the controller and the history is well formed; in particular
\* the counter of free buffers stays within what the controller announced.
TypeOK ==
  /\ isStopped \in BOOLEAN
  /\ activeConnections \in SUBSET Handle
  /\ numFreeBuffers \in 0 .. NumPackets
  /\ outgoingL2CAPBuffer \in [Handle -> Seq(Fragment)]
  /\ outgoingL2CAPPacketsInController \in [Handle -> Seq(Sdus \cup {NoCallback})]
  /\ callStack \in Seq(Frame)
  /\ links \in SUBSET Handle
  /\ controllerPackets \in [Handle -> Seq(Fragment)]
  /\ hciEvents \in Seq(Event)
  /\ linksMade \in 0 .. MaxLinks
  /\ sduState \in [Sdus -> {"new", "queued", "sent", "complete", "gone"}]
  /\ sduHandle \in [Sdus -> Handle \cup {"none"}]
  /\ delivered \in SUBSET Sdus

Init ==
  /\ isStopped = FALSE
  /\ activeConnections = {}
  /\ numFreeBuffers = NumPackets
  /\ outgoingL2CAPBuffer = [h \in Handle |-> <<>>]
  /\ outgoingL2CAPPacketsInController = [h \in Handle |-> <<>>]
  /\ callStack = <<>>
  /\ links = {}
  /\ controllerPackets = [h \in Handle |-> <<>>]
  /\ hciEvents = <<>>
  /\ linksMade = 0
  /\ sduState = [s \in Sdus |-> "new"]
  /\ sduHandle = [s \in Sdus |-> "none"]
  /\ delivered = {}

-----------------------------------------------------------------------------
(* The JavaScript call stack. *)

Top == callStack[Len(callStack)]
Pop == SubSeq(callStack, 1, Len(callStack) - 1)

\* Application code runs from the event loop or inside a callback.
ApplicationRuns == callStack # <<>> => Top = "callback"

CallbackReturns ==
  /\ callStack # <<>> /\ Top = "callback"
  /\ callStack' = Pop
  /\ UNCHANGED <<isStopped, activeConnections, numFreeBuffers, outgoingL2CAPBuffer,
                 outgoingL2CAPPacketsInController, controllerVars, historyVars>>

-----------------------------------------------------------------------------
(* sendData and the loop of triggerSendPackets. *)

Fragments(s, n) ==
  [i \in 1 .. n |-> [sdu |-> s, isFirst |-> i = 1, isLast |-> i = n]]

EnqueueFirst(queue, fragments) == fragments \o queue
Enqueue(queue, fragments) == queue \o fragments

\* SDU s, cut in n fragments, is appended to the queue of h; a loop for h starts.
\* Packets are numbered in the order of the calls.
SendData(h, s, n) ==
  /\ ApplicationRuns
  /\ ~isStopped
  /\ h \in activeConnections
  /\ sduState[s] = "new"
  /\ \A t \in 1 .. s - 1 : sduState[t] # "new"
  /\ outgoingL2CAPBuffer' = [outgoingL2CAPBuffer EXCEPT ![h] = Enqueue(@, Fragments(s, n))]
  /\ callStack' = Append(callStack, h)
  /\ sduState' = [sduState EXCEPT ![s] = "queued"]
  /\ sduHandle' = [sduHandle EXCEPT ![s] = h]
  /\ UNCHANGED <<isStopped, activeConnections, numFreeBuffers,
                 outgoingL2CAPPacketsInController, controllerVars, delivered>>

\* The connections a loop may serve now: its own, or any with data queued.
Candidates(frame) ==
  {h \in IF frame = "any" THEN activeConnections ELSE {frame} \cap Handle :
     outgoingL2CAPBuffer[h] # <<>>}

InLoop == callStack # <<>> /\ Top # "callback"

\* One round of the loop: the oldest fragment of h is written to the controller,
\* and the sentCallback that the last fragment of an SDU carries is called.
LoopSends(h) ==
  /\ InLoop
  /\ numFreeBuffers # 0
  /\ ~isStopped
  /\ h \in Candidates(Top)
  /\ LET item == Head(outgoingL2CAPBuffer[h]) IN
     /\ outgoingL2CAPBuffer' = [outgoingL2CAPBuffer EXCEPT ![h] = Tail(@)]
     /\ numFreeBuffers' = numFreeBuffers - 1
     /\ outgoingL2CAPPacketsInController' =
          [outgoingL2CAPPacketsInController EXCEPT
             ![h] = Append(@, IF item.isLast THEN item.sdu ELSE NoCallback)]
     /\ controllerPackets' =   \* data for a link that is already lost is dropped
          IF h \in links THEN [controllerPackets EXCEPT ![h] = Append(@, item)]
                         ELSE controllerPackets
     /\ callStack' = IF item.isLast THEN Append(callStack, "callback") ELSE callStack
     /\ sduState' = IF item.isLast THEN [sduState EXCEPT ![item.sdu] = "sent"] ELSE sduState
  /\ UNCHANGED <<isStopped, activeConnections, links, hciEvents, linksMade,
                 sduHandle, delivered>>

LoopEnds ==
  /\ InLoop
  /\ numFreeBuffers = 0 \/ isStopped \/ Candidates(Top) = {}
  /\ callStack' = Pop
  /\ UNCHANGED <<isStopped, activeConnections, numFreeBuffers, outgoingL2CAPBuffer,
                 outgoingL2CAPPacketsInController, controllerVars, historyVars>>

Stop ==
  /\ ApplicationRuns
  /\ ~isStopped
  /\ isStopped' = TRUE
  /\ UNCHANGED <<activeConnections, numFreeBuffers, outgoingL2CAPBuffer,
                 outgoingL2CAPPacketsInController, callStack, controllerVars, historyVars>>

-----------------------------------------------------------------------------
(* Events from the controller; each runs from the event loop. *)

Receive(type) ==
  /\ callStack = <<>>
  /\ ~isStopped
  /\ hciEvents # <<>>
  /\ Head(hciEvents).type = type
  /\ hciEvents' = Tail(hciEvents)

\* A new AclConnection; its connection callback is application code.  (A handle that
\* is connected already makes the handler throw.)
HandleLeConnectionComplete ==
  /\ Receive("connected")
  /\ LET h == Head(hciEvents).handle IN
     /\ h \notin activeConnections
     /\ activeConnections' = activeConnections \cup {h}
     /\ outgoingL2CAPBuffer' = [outgoingL2CAPBuffer EXCEPT ![h] = <<>>]
     /\ outgoingL2CAPPacketsInController' =
          [outgoingL2CAPPacketsInController EXCEPT ![h] = <<>>]
  /\ callStack' = <<"callback">>
  /\ UNCHANGED <<isStopped, numFreeBuffers, links, controllerPackets, linksMade, historyVars>>

\* How many packets of h an event that names count[h] completes: never more than
\* the host has outstanding, and none for a handle that is not connected.
NumCompleted(h, count) ==
  LET outstanding == Len(outgoingL2CAPPacketsInController[h])
  IN  IF h \notin activeConnections THEN 0
      ELSE IF count[h] > outstanding THEN outstanding ELSE count[h]

\* One pair for each fragment in the queues q.
Slots(q) == UNION {{h} \X (1 .. Len(q[h])) : h \in Handle}

\* One pair for each fragment the event completes.
SlotsFreed(count) == UNION {{h} \X (1 .. NumCompleted(h, count)) : h \in Handle}

CallbacksOf(h, n) ==
  {outgoingL2CAPPacketsInController[h][i] : i \in 1 .. n} \ {NoCallback}

\* The activations an event leaves to run: application code, then the loop.
AfterCompletion(completed) ==
  IF completed = {} THEN <<"any">> ELSE <<"any", "callback">>

\* All counters are updated before the first completeCallback is called, and the
\* sending loop runs after the last.
HandleNumberOfCompletePackets ==
  /\ Receive("completed")
  /\ LET count == Head(hciEvents).count
         completed == UNION {CallbacksOf(h, NumCompleted(h, count)) : h \in Handle}
     IN
     /\ numFreeBuffers' = numFreeBuffers + Cardinality(SlotsFreed(count))
     /\ outgoingL2CAPPacketsInController' =
          [h \in Handle |-> SubSeq(outgoingL2CAPPacketsInController[h],
                                   NumCompleted(h, count) + 1,
                                   Len(outgoingL2CAPPacketsInController[h]))]
     /\ sduState' = [s \in Sdus |-> IF s \in completed THEN "complete" ELSE sduState[s]]
     /\ callStack' = AfterCompletion(completed)
  /\ UNCHANGED <<isStopped, activeConnections, outgoingL2CAPBuffer, links,
                 controllerPackets, linksMade, sduHandle, delivered>>

BuffersReturnedNone(h) == 0
BuffersReturned(h) == Len(outgoingL2CAPPacketsInController[h])
AfterDisconnectionNoLoop == <<"callback">>
AfterDisconnection == <<"any", "callback">>

\* The AclConnection is dropped with its queues, its buffers become free, the
\* 'disconnect' listeners run, then the loop serves the other connections.
HandleDisconnectionComplete ==
  /\ Receive("disconnected")
  /\ LET h == Head(hciEvents).handle IN
     /\ activeConnections' = activeConnections \ {h}
     /\ numFreeBuffers' = numFreeBuffers + BuffersReturned(h)
     /\ outgoingL2CAPBuffer' = [outgoingL2CAPBuffer EXCEPT ![h] = <<>>]
     /\ outgoingL2CAPPacketsInController' =
          [outgoingL2CAPPacketsInController EXCEPT ![h] = <<>>]
     /\ sduState' = [s \in Sdus |-> IF sduHandle[s] = h /\ sduState[s] \in {"queued", "sent"}
                                    THEN "gone" ELSE sduState[s]]
  /\ callStack' = AfterDisconnection
  /\ UNCHANGED <<isStopped, links, controllerPackets, linksMade, sduHandle, delivered>>

-----------------------------------------------------------------------------
(* The controller. *)

\* A controller gives a handle out again only when the host is done with it.
HandleIsFree(h) ==
  /\ h \notin links \cup activeConnections
  /\ \A i \in DOMAIN hciEvents :
       hciEvents[i].type \in {"connected", "disconnected"} => hciEvents[i].handle # h

LinkUp(h) ==
  /\ linksMade < MaxLinks
  /\ HandleIsFree(h)
  /\ links' = links \cup {h}
  /\ linksMade' = linksMade + 1
  /\ hciEvents' = Append(hciEvents, [type |-> "connected", handle |-> h])
  /\ UNCHANGED <<hostVars, controllerPackets, historyVars>>

\* The link is lost, or was terminated: its packets are flushed.
LinkDown(h) ==
  /\ h \in links
  /\ links' = links \ {h}
  /\ controllerPackets' = [controllerPackets EXCEPT ![h] = <<>>]
  /\ hciEvents' = Append(hciEvents, [type |-> "disconnected", handle |-> h])
  /\ UNCHANGED <<hostVars, linksMade, historyVars>>

\* Some packets were acknowledged by the peers; one event reports them all.
CompletePackets(n) ==
  /\ \E h \in Handle : n[h] > 0
  /\ \A h \in Handle : n[h] <= Len(controllerPackets[h])
  /\ controllerPackets' =
       [h \in Handle |-> SubSeq(controllerPackets[h], n[h] + 1, Len(controllerPackets[h]))]
  /\ delivered' = delivered \cup
       {s \in Sdus : \E h \in Handle : \E i \in 1 .. n[h] :
          controllerPackets[h][i].isLast /\ controllerPackets[h][i].sdu = s}
  /\ \E extra \in 0 .. MaxOverreport :
       hciEvents' = Append(hciEvents,
                      [type |-> "completed", count |-> [h \in Handle |-> n[h] + extra]])
  /\ UNCHANGED <<hostVars, links, linksMade, sduState, sduHandle>>

-----------------------------------------------------------------------------

HostStep ==
  \/ CallbackReturns
  \/ \E h \in Handle : LoopSends(h)
  \/ LoopEnds
  \/ HandleLeConnectionComplete
  \/ HandleNumberOfCompletePackets
  \/ HandleDisconnectionComplete

Controller ==
  \/ \E h \in Handle : LinkUp(h) \/ LinkDown(h)
  \/ \E n \in [Handle -> 0 .. NumPackets] : CompletePackets(n)

Application ==
  \/ \E h \in Handle, s \in Sdus, n \in 1 .. MaxFragments : SendData(h, s, n)
  \/ Stop

Next == HostStep \/ Controller \/ Application

\* JavaScript runs to completion and its event loop delivers what arrives; the
\* controller transmits what it was given.  Nothing makes the application act or
\* a link come or go.
Fairness ==
  /\ WF_vars(HostStep)
  /\ WF_vars(\E n \in [Handle -> 0 .. NumPackets] : CompletePackets(n))

Spec == Init /\ [][Next]_vars
FairSpec == Spec /\ Fairness

-----------------------------------------------------------------------------
(* Properties. *)

\* No buffer is lost and none is invented, whatever connections come and go and
\* whatever counts the controller reports: free ones and ones holding a fragment
\* the host still waits for add up to what the controller announced.
BufferAccounting ==
  numFreeBuffers + Cardinality(Slots(outgoingL2CAPPacketsInController)) = NumPackets

\* The host never writes a packet the controller has no room for, although it
\* learns late of completions and of lost links.
ControllerNeverOverrun ==
  Cardinality(Slots(controllerPackets)) <= NumPackets

\* No lost wake-up: when the host returns to its event loop, data waits in a
\* queue only if every buffer is taken; nothing else would ever send it.
NoIdleBuffers ==
  callStack = <<>> /\ numFreeBuffers # 0 /\ ~isStopped =>
    \A h \in activeConnections : outgoingL2CAPBuffer[h] = <<>>

\* NoIdleBuffers at every point of the execution: whatever still waits although a
\* buffer is free is served by a loop that is on the stack.
WakeupPending ==
  numFreeBuffers # 0 /\ ~isStopped =>
    \A h \in activeConnections : outgoingL2CAPBuffer[h] # <<>> =>
      \E i \in 1 .. Len(callStack) : callStack[i] \in {h, "any"}

\* A handle that is not connected has nothing queued and no loop serves it.
DeadHandlesAreEmpty ==
  /\ \A h \in Handle \ activeConnections :
       outgoingL2CAPBuffer[h] = <<>> /\ outgoingL2CAPPacketsInController[h] = <<>>
  /\ \A i \in 1 .. Len(callStack) :
       callStack[i] \in activeConnections \cup {"any", "callback"}

\* The inductive invariant behind BufferAccounting and NoIdleBuffers.
IInv ==
  /\ TypeOK
  /\ IsFiniteSet(Slots(outgoingL2CAPPacketsInController))
  /\ BufferAccounting
  /\ WakeupPending
  /\ DeadHandlesAreEmpty

\* The fragments of a connection reach the controller in the order of the calls
\* of sendData and those of two SDUs never interleave, although a sentCallback
\* may hand in the next SDU from inside the loop.
FragmentsInOrder ==
  \A h \in links \cap activeConnections :
    LET pipeline == controllerPackets[h] \o outgoingL2CAPBuffer[h] IN
    \A i \in 1 .. Len(pipeline) - 1 :
      LET this == pipeline[i]
          next == pipeline[i + 1]
      IN  IF this.isLast THEN next.isFirst /\ this.sdu < next.sdu
                         ELSE ~next.isFirst /\ this.sdu = next.sdu

\* With a controller that counts right, completeCallback of an SDU is called only
\* when its last fragment has been transmitted.
CompletionIsTruthful == \A s \in Sdus : sduState[s] = "complete" => s \in delivered

\* The controller gets no more than it has room for and gets it in order, and the
\* application is told the truth about what became of it.
PacketsInOrder == ControllerNeverOverrun /\ FragmentsInOrder /\ CompletionIsTruthful

\* Every SDU is acknowledged in the end unless its connection goes away first.  (The SDUs
\* are bounded, so all of them have been handed in at some time.)
EverySduSettles == []<>(isStopped \/ \A s \in Sdus : sduState[s] \notin {"queued", "sent"})
=============================================================================
