-------------------------- MODULE HciCommandQueue --------------------------
(***************************************************************************)
(* The command side of the HCI adapter (lib/internal/adapter.js): commands *)
(* are sent one at a time, responses are matched by opcode, commands that  *)
(* start a procedure on a connection leave a callback in its AclConnection *)
(* for the event that completes it, and a disconnection drops everything   *)
(* that belongs to the connection, while its handle may be used again.     *)
(* The definitions between a comment and the operator it is about are slips*)
(* of that operator; the properties tell each of them from the code.       *)
(***************************************************************************)
EXTENDS Naturals, Sequences, FiniteSets, Subsequences

CONSTANTS
  Handle,       (* connection handles the controller may give out     *)
  Procedure,    (* commands with an event that ends what they start   *)
  MaxCommands,  (* bound: commands issued in a behaviour              *)
  MaxLinks,     (* bound: connections established in a behaviour      *)
  MaxFaults     (* bound: Hardware Error events in a behaviour        *)

ASSUME CommandAssumption ==
  /\ MaxCommands \in Nat
  /\ MaxLinks \in Nat
  /\ MaxFaults \in Nat
  /\ "none" \notin Handle
  /\ Procedure \cap {"disconnect", "setScanEnable", "foreign", "none"} = {}

VARIABLES
  isStopped,
  crashed,            \* "no", or why an exception left onData
  pendingCommand,
  commandQueue,
  activeConnections,  \* handles the host has an AclConnection for
  eventCallback,      \* per handle and procedure, the callback in the AclConnection
  executing,          \* the command the controller has received and not answered
  procedures,         \* procedures under way in the controller, <<opcode, handle>>
  links,              \* handles that are connected on the air
  hciEvents,          \* events on their way to the host, in order
  linkCount,          \* connections established so far
  faults,             \* hardware errors so far
  linkOf,             \* history: the number of a handle's latest connection in the host
  issuedOn,           \* history: the number of the connection a command is for
  outcome,            \* history: what became of each command
  responseTo          \* history: the command whose response a callback was given

hostVars == <<isStopped, crashed, pendingCommand, commandQueue, activeConnections,
              eventCallback>>
controllerVars == <<executing, procedures, links, hciEvents, linkCount, faults>>
historyVars == <<linkOf, issuedOn, outcome, responseTo>>
vars == <<hostVars, controllerVars, historyVars>>

Ids == 1 .. MaxCommands
None == 0                                   \* no callback, no response

\* One representative of each kind of method of the adapter: without a handle; with
\* one; and with one and an event that ends the procedure the command starts.
HandleOpcode == {"disconnect"} \cup Procedure
Opcode == {"setScanEnable"} \cup HandleOpcode

Command == [id : Ids, opcode : Opcode, handle : Handle \cup {"none"}]
NoCommand == [id |-> None, opcode |-> "none", handle |-> "none"]
\* Only the response to a command of a connection is ever ignored.
Pending ==
  {p \in [cmd : Command \cup {NoCommand}, ignoreResponse : BOOLEAN] :
     p.ignoreResponse => p.cmd.handle \in Handle}
Idle == [cmd |-> NoCommand, ignoreResponse |-> FALSE]

Status == {"ok", "error"}
Event ==
  [type : {"response"}, opcode : Opcode \cup {"foreign"}, status : Status, to : Ids \cup {None}]
    \cup [type : {"procedureComplete"}, opcode : Procedure, handle : Handle]
    \cup [type : {"connected"}, handle : Handle, number : 1 .. MaxLinks]
    \cup [type : {"disconnected"}, handle : Handle]
    \cup [type : {"hardwareError"}]

\* The state of the adapter, the controller and the history is well formed.
TypeOK ==
  /\ isStopped \in BOOLEAN
  /\ crashed \in {"no", "TypeError", "alreadyConnected", "hardwareError"}
  /\ pendingCommand \in Pending
  /\ commandQueue \in Seq(Command)
  /\ activeConnections \in SUBSET Handle
  /\ eventCallback \in [Handle -> [Procedure -> Ids \cup {None}]]
  /\ executing \in Command \cup {NoCommand}
  /\ procedures \in SUBSET (Procedure \X Handle)
  /\ links \in SUBSET Handle
  /\ hciEvents \in Seq(Event)
  /\ linkCount \in 0 .. MaxLinks
  /\ faults \in 0 .. MaxFaults
  /\ linkOf \in [Handle -> 0 .. MaxLinks]
  /\ issuedOn \in [Ids -> 0 .. MaxLinks]
  /\ outcome \in [Ids -> {"new", "waiting", "started", "answered", "gone"}]
  /\ responseTo \in [Ids -> Ids \cup {None}]

Init ==
  /\ isStopped = FALSE
  /\ crashed = "no"
  /\ pendingCommand = Idle
  /\ commandQueue = <<>>
  /\ activeConnections = {}
  /\ eventCallback = [h \in Handle |-> [p \in Procedure |-> None]]
  /\ executing = NoCommand
  /\ procedures = {}
  /\ links = {}
  /\ hciEvents = <<>>
  /\ linkCount = 0
  /\ faults = 0
  /\ linkOf = [h \in Handle |-> 0]
  /\ issuedOn = [c \in Ids |-> 0]
  /\ outcome = [c \in Ids |-> "new"]
  /\ responseTo = [c \in Ids |-> None]

Running == ~isStopped /\ crashed = "no"

-----------------------------------------------------------------------------
(* sendCommand. *)

ReallySendCommand(cmd) ==
  /\ pendingCommand' = [cmd |-> cmd, ignoreResponse |-> FALSE]
  /\ executing' = cmd

MustWait == pendingCommand # Idle

SendCommand(cmd) ==
  IF MustWait
  THEN commandQueue' = Append(commandQueue, cmd) /\ UNCHANGED <<pendingCommand, executing>>
  ELSE ReallySendCommand(cmd) /\ UNCHANGED commandQueue

\* Commands are numbered in the order of the calls.
IsNext(c) == outcome[c] = "new" /\ \A b \in 1 .. c - 1 : outcome[b] # "new"

\* Commands whose caller still waits for a response.
Unanswered ==
  {commandQueue[i] : i \in DOMAIN commandQueue}
    \cup (IF pendingCommand.ignoreResponse THEN {} ELSE {pendingCommand.cmd})

\* The callers: they use a handle only while its connection exists and run one procedure
\* of a kind at a time on a connection (connUpdateQueue of the manager, the states of
\* the security manager).
MayIssue(opcode, h) ==
  IF opcode \in HandleOpcode
  THEN /\ h \in activeConnections
       /\ opcode \in Procedure =>
            /\ eventCallback[h][opcode] = None
            /\ \A cmd \in Unanswered : cmd.opcode = opcode => cmd.handle # h
  ELSE h = "none"

Issue(c, opcode, h) ==
  /\ Running
  /\ IsNext(c)
  /\ MayIssue(opcode, h)
  /\ SendCommand([id |-> c, opcode |-> opcode, handle |-> h])
  /\ outcome' = [outcome EXCEPT ![c] = "waiting"]
  /\ issuedOn' = [issuedOn EXCEPT ![c] = IF h \in Handle THEN linkOf[h] ELSE 0]
  /\ UNCHANGED <<isStopped, crashed, activeConnections, eventCallback, procedures, links,
                 hciEvents, linkCount, faults, linkOf, responseTo>>

Stop ==
  /\ Running
  /\ isStopped' = TRUE
  /\ UNCHANGED <<crashed, pendingCommand, commandQueue, activeConnections, eventCallback,
                 controllerVars, historyVars>>

-----------------------------------------------------------------------------
(* Events from the controller. *)

Receive(type) ==
  /\ Running
  /\ hciEvents # <<>>
  /\ Head(hciEvents).type = type
  /\ hciEvents' = Tail(hciEvents)

IsExpected(event) == MustWait /\ pendingCommand.cmd.opcode = event.opcode

\* A response to a command another process sent, or that the adapter did not send.
HandleForeignResponse ==
  /\ Receive("response")
  /\ ~IsExpected(Head(hciEvents))
  /\ UNCHANGED <<hostVars, executing, procedures, links, linkCount, faults, historyVars>>

SendNextCommandNever == pendingCommand' = Idle /\ UNCHANGED <<commandQueue, executing>>

SendNextCommand ==
  IF commandQueue = <<>>
  THEN pendingCommand' = Idle /\ UNCHANGED <<commandQueue, executing>>
  ELSE commandQueue' = Tail(commandQueue) /\ ReallySendCommand(Head(commandQueue))

\* The callback a method of the adapter gave to sendCommand: on success that of a
\* procedure leaves the user's callback in the connection, which has to exist; every
\* other outcome is handed to the user at once.
RunCallback(cmd, status) ==
  IF cmd.opcode \in Procedure /\ status = "ok"
  THEN IF cmd.handle \in activeConnections
       THEN /\ eventCallback' = [eventCallback EXCEPT ![cmd.handle][cmd.opcode] = cmd.id]
            /\ outcome' = [outcome EXCEPT ![cmd.id] = "started"]
            /\ UNCHANGED crashed
       ELSE crashed' = "TypeError" /\ UNCHANGED <<eventCallback, outcome>>
  ELSE /\ outcome' = [outcome EXCEPT ![cmd.id] = "answered"]
       /\ UNCHANGED <<eventCallback, crashed>>

\* The next command is sent before the callback of the finished one runs.
HandleCommandResponse ==
  /\ Receive("response")
  /\ LET event == Head(hciEvents)
         cmd == pendingCommand.cmd
     IN
     /\ IsExpected(event)
     /\ SendNextCommand
     /\ IF pendingCommand.ignoreResponse
        THEN UNCHANGED <<eventCallback, crashed, outcome, responseTo>>
        ELSE /\ RunCallback(cmd, event.status)
             /\ responseTo' = [responseTo EXCEPT ![cmd.id] = event.to]
  /\ UNCHANGED <<isStopped, activeConnections, procedures, links, linkCount, faults, linkOf,
                 issuedOn>>

HandleProcedureComplete ==
  /\ Receive("procedureComplete")
  /\ LET h == Head(hciEvents).handle
         p == Head(hciEvents).opcode
     IN IF h \in activeConnections /\ eventCallback[h][p] # None
        THEN /\ outcome' = [outcome EXCEPT ![eventCallback[h][p]] = "answered"]
             /\ eventCallback' = [eventCallback EXCEPT ![h][p] = None]
        ELSE UNCHANGED <<outcome, eventCallback>>
  /\ UNCHANGED <<isStopped, crashed, pendingCommand, commandQueue, activeConnections, executing,
                 procedures, links, linkCount, faults, linkOf, issuedOn, responseTo>>

\* A connection nobody asked for (a peripheral's without an advertising callback) is
\* disconnected at once; MaxCommands bounds that command too.
HandleLeConnectionComplete ==
  /\ Receive("connected")
  /\ LET event == Head(hciEvents)
         h == event.handle
     IN IF h \in activeConnections
        THEN /\ crashed' = "alreadyConnected"
             /\ UNCHANGED <<activeConnections, eventCallback, pendingCommand, commandQueue,
                            executing, linkOf, issuedOn, outcome>>
        ELSE /\ activeConnections' = activeConnections \cup {h}
             /\ eventCallback' = [eventCallback EXCEPT ![h] = [p \in Procedure |-> None]]
             /\ linkOf' = [linkOf EXCEPT ![h] = event.number]
             /\ \/ UNCHANGED <<pendingCommand, commandQueue, executing, issuedOn, outcome>>
                \/ \E c \in Ids :
                     /\ IsNext(c)
                     /\ SendCommand([id |-> c, opcode |-> "disconnect", handle |-> h])
                     /\ outcome' = [outcome EXCEPT ![c] = "waiting"]
                     /\ issuedOn' = [issuedOn EXCEPT ![c] = event.number]
             /\ UNCHANGED crashed
  /\ UNCHANGED <<isStopped, procedures, links, linkCount, faults, responseTo>>

\* Commands of the connection that were not sent are dropped ...
SurvivorsAll(h) == commandQueue

Survivors(h) == Pick(commandQueue, {i \in DOMAIN commandQueue : commandQueue[i].handle # h})

\* ... and the response to one that was sent will be ignored.
AfterDisconnectNothing(h) == pendingCommand

AfterDisconnect(h) ==
  IF MustWait /\ pendingCommand.cmd.handle = h
  THEN [pendingCommand EXCEPT !.ignoreResponse = TRUE]
  ELSE pendingCommand

HandleDisconnectionComplete ==
  /\ Receive("disconnected")
  /\ LET h == Head(hciEvents).handle
         orphans == {cmd.id : cmd \in {c \in Unanswered : c.handle = h}}
                      \cup {eventCallback[h][p] : p \in Procedure}
     IN
     /\ activeConnections' = activeConnections \ {h}
     /\ commandQueue' = Survivors(h)
     /\ pendingCommand' = AfterDisconnect(h)
     /\ eventCallback' = [eventCallback EXCEPT ![h] = [p \in Procedure |-> None]]
     /\ outcome' = [c \in Ids |-> IF c \in orphans THEN "gone" ELSE outcome[c]]
  /\ UNCHANGED <<isStopped, crashed, executing, procedures, links, linkCount, faults, linkOf,
                 issuedOn, responseTo>>

\* The adapter is built without the callback it calls here (module.exports passes only
\* the transport on), so that the call throws.
HandleHardwareError ==
  /\ Receive("hardwareError")
  /\ pendingCommand' = Idle
  /\ commandQueue' = <<>>
  /\ crashed' = "hardwareError"
  /\ UNCHANGED <<isStopped, activeConnections, eventCallback, executing, procedures, links,
                 linkCount, faults, historyVars>>

-----------------------------------------------------------------------------
(* The controller. *)

\* It answers the command it has; one for a connection that is gone fails.
Respond(status) ==
  /\ executing # NoCommand
  /\ executing.opcode \in HandleOpcode /\ executing.handle \notin links => status = "error"
  /\ executing' = NoCommand
  /\ procedures' = IF executing.opcode \in Procedure /\ status = "ok"
                   THEN procedures \cup {<<executing.opcode, executing.handle>>}
                   ELSE procedures
  /\ hciEvents' = Append(hciEvents, [type |-> "response", opcode |-> executing.opcode,
                                     status |-> status, to |-> executing.id])
  /\ UNCHANGED <<hostVars, links, linkCount, faults, historyVars>>

\* Another process on this machine had a command answered, with another opcode than
\* any of the adapter's.
RespondForeign ==
  /\ hciEvents = <<>>
  /\ hciEvents' = <<[type |-> "response", opcode |-> "foreign", status |-> "ok", to |-> None]>>
  /\ UNCHANGED <<hostVars, executing, procedures, links, linkCount, faults, historyVars>>

CompleteProcedure(p, h) ==
  /\ <<p, h>> \in procedures
  /\ procedures' = procedures \ {<<p, h>>}
  /\ hciEvents' = Append(hciEvents,
                         [type |-> "procedureComplete", opcode |-> p, handle |-> h])
  /\ UNCHANGED <<hostVars, executing, links, linkCount, faults, historyVars>>

\* A handle may be given out again while the host has yet to learn that its previous
\* connection is gone.
LinkUp(h) ==
  /\ linkCount < MaxLinks
  /\ h \notin links
  /\ links' = links \cup {h}
  /\ linkCount' = linkCount + 1
  /\ hciEvents' = Append(hciEvents, [type |-> "connected", handle |-> h,
                                     number |-> linkCount + 1])
  /\ UNCHANGED <<hostVars, executing, procedures, faults, historyVars>>

LinkDown(h) ==
  /\ h \in links
  /\ links' = links \ {h}
  /\ procedures' = {run \in procedures : run[2] # h}
  /\ hciEvents' = Append(hciEvents, [type |-> "disconnected", handle |-> h])
  /\ UNCHANGED <<hostVars, executing, linkCount, faults, historyVars>>

Malfunction ==
  /\ faults < MaxFaults
  /\ faults' = faults + 1
  /\ hciEvents' = Append(hciEvents, [type |-> "hardwareError"])
  /\ UNCHANGED <<hostVars, executing, procedures, links, linkCount, historyVars>>

-----------------------------------------------------------------------------

HostStep ==
  \/ HandleForeignResponse
  \/ HandleCommandResponse
  \/ HandleProcedureComplete
  \/ HandleLeConnectionComplete
  \/ HandleDisconnectionComplete
  \/ HandleHardwareError

ControllerWorks ==
  \/ \E status \in Status : Respond(status)
  \/ \E p \in Procedure, h \in Handle : CompleteProcedure(p, h)

Next ==
  \/ HostStep
  \/ ControllerWorks
  \/ RespondForeign
  \/ Malfunction
  \/ \E h \in Handle : LinkUp(h) \/ LinkDown(h)
  \/ \E c \in Ids, opcode \in Opcode, h \in Handle \cup {"none"} : Issue(c, opcode, h)
  \/ Stop

\* The event loop delivers what arrives, and the controller answers and completes what
\* it accepted; nothing else has to happen.
Spec == Init /\ [][Next]_vars
FairSpec ==
  /\ Spec
  /\ WF_vars(HostStep)
  /\ WF_vars(\E status \in Status : Respond(status))
  /\ \A p \in Procedure, h \in Handle : WF_vars(CompleteProcedure(p, h))

-----------------------------------------------------------------------------
(* Properties. *)

ResponsesInFlight ==
  {i \in DOMAIN hciEvents : hciEvents[i].type = "response" /\ hciEvents[i].to # None}

\* Every command the controller has not answered, and every response the host has not
\* read, is that of pendingCommand: exactly one while a command is pending, none
\* otherwise.  Responses carry an opcode only, so this is what makes matching them by
\* opcode sound, whatever the order of disconnections and new connections.
OneOutstanding ==
  Running =>
    IF pendingCommand = Idle
    THEN executing = NoCommand /\ ResponsesInFlight = {}
    ELSE \/ executing = pendingCommand.cmd /\ ResponsesInFlight = {}
         \/ /\ executing = NoCommand
            /\ \E i \in DOMAIN hciEvents :
                 ResponsesInFlight = {i} /\ hciEvents[i].to = pendingCommand.cmd.id

\* A callback is given the response to its own command, never to that of an earlier
\* command with the same opcode.
OwnResponse == \A c \in Ids : responseTo[c] \in {None, c}

\* The callbacks and commands the host keeps for a handle were issued for the connection
\* that has the handle now, although the handle may be given to another connection
\* while a command is under way.
RightLink ==
  /\ \A cmd \in Unanswered : cmd.handle \in Handle =>
       cmd.handle \in activeConnections /\ issuedOn[cmd.id] = linkOf[cmd.handle]
  /\ \A h \in Handle, p \in Procedure : eventCallback[h][p] # None =>
       h \in activeConnections /\ issuedOn[eventCallback[h][p]] = linkOf[h]

\* The state is well formed, and a response, and what the host keeps of a procedure, go to
\* the command they belong to.
ResponsesAreOwn == TypeOK /\ OneOutstanding /\ OwnResponse /\ RightLink

\* Every command is answered and every procedure completed in the end, unless its
\* connection goes away, the adapter is stopped or an exception ends it.  (The commands are
\* bounded, so all of them have been issued at some time.)
EveryCommandSettles ==
  []<>(Running => \A c \in Ids : outcome[c] \notin {"waiting", "started"})

\* The adapter is a server of requests one at a time, first come first served.
Requests == INSTANCE SerialRequests WITH
  Request <- Ids,
  queue <- (IF pendingCommand = Idle THEN <<>> ELSE <<pendingCommand.cmd.id>>)
             \o [i \in DOMAIN commandQueue |-> commandQueue[i].id],
  abandoned <- {c \in Ids : outcome[c] = "gone" /\ responseTo[c] = None},
  answered <- {c \in Ids : responseTo[c] # None},
  broken <- crashed = "hardwareError"

\* HciCommandQueue implements SerialRequests.  In particular a command that was given up
\* because its connection was terminated is never answered: README.md:87 and
\* docs/api/ble-manager.md:309 say that such callbacks "will not be called".
ServesInOrder == Requests!Spec
=============================================================================
