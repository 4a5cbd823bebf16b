------------------------- MODULE ConnectionManager -------------------------
(***************************************************************************)
(* The scanner and the initiator of the manager (lib/ble-manager.js): any  *)
(* number of scanners share one scan of the controller, any number of      *)
(* connect() calls share one connection attempt, and both want the white   *)
(* list.  Every change of either goes through triggerScannerChange or      *)
(* triggerConnectionChange, which compare what the callers want with what  *)
(* the controller was last told and issue the commands for the difference. *)
(* An operator on host is a synchronous piece of the program: the state it *)
(* is called in gives the state it returns in, with the commands it sent.  *)
(***************************************************************************)
EXTENDS Naturals, Sequences, FiniteSets

CONSTANTS
  Device,         (* addresses, as numbers: sort() orders them                       *)
  Connect,        (* connect() calls, 1 .. n: idGenerator numbers them in order       *)
  Scan,           (* places for scanners, 1 .. n                                      *)
  WhiteListSize,
  Budgets,        (* what may happen in a behaviour: see TypeOfBudget                 *)
  None

VARIABLES
  host,           \* the state of the manager
  commands,       \* the adapter's queue of commands; the controller has the first
  controller,
  events,         \* answers and events on their way to the host
  budget          \* what may still happen

vars == <<host, commands, controller, events, budget>>

\* A scan filter by address is the set of devices it lets through; {} is no filter.
Kind == [active : BOOLEAN, filters : SUBSET Device, filterDuplicates : BOOLEAN]

TypeOfBudget ==
  [kinds : SUBSET Kind, scans : Nat, connects : Nat, peers : SUBSET Device, drops : Nat,
   rejects : Nat]

CreateCommand == [op : {"create"}, useWhiteList : BOOLEAN, device : Device \cup {None}]

ASSUME ManagerAssumption ==
  /\ Device \subseteq Nat /\ IsFiniteSet(Device)   \* addresses have 48 bits
  /\ Connect \subseteq Nat
  /\ Scan \subseteq Nat
  /\ WhiteListSize \in Nat
  /\ Budgets \subseteq TypeOfBudget
  /\ None \notin Device /\ None \notin Kind /\ None \notin CreateCommand

-----------------------------------------------------------------------------
(* The state of the manager. *)

Live(h) == {s \in Scan : h.scanners[s] # None}
Wanted(h) == {h.device[c] : c \in h.pending}

Send(h, command) == [h EXCEPT !.out = Append(@, command)]
Crash(h, why) == [h EXCEPT !.crashed = why]

HostInit ==
  [out |-> <<>>, crashed |-> "no",
   scanners |-> [s \in Scan |-> None],
   scanEnabled |-> FALSE, scannerCommandInProgress |-> FALSE, scanningNeedsRestart |-> FALSE,
   active |-> FALSE, policy |-> FALSE, currentScanFilterDuplicates |-> FALSE,
   scanChange |-> None, stopScanCallback |-> FALSE,
   device |-> [c \in Connect |-> None],
   pending |-> {}, connecting |-> {}, cancelled |-> {},
   connectCommandInProgress |-> FALSE, cancelCommandInProgress |-> FALSE,
   createConnectionIsOutstanding |-> FALSE, attempt |-> None,
   connections |-> {},
   outcome |-> [c \in Connect |-> "none"],
   whiteListUsage |-> "none", currentWhiteList |-> {},
   update |-> [who \in {"scanner", "initiator"} |-> [ops |-> <<>>, newList |-> {}]]]

-----------------------------------------------------------------------------
(* The white list. *)

InOrder ==
  [S \in SUBSET Device |->
     CHOOSE s \in [1 .. Cardinality(S) -> S] : \A i, j \in DOMAIN s : i < j => s[i] < s[j]]

\* The commands that turn one list into another: removals and additions, or, when there
\* is more to remove than to keep, a clear and everything anew.
Edits(current, new, who, again) ==
  LET Op(op, S) == [i \in DOMAIN InOrder[S] |->
                      [op |-> op, device |-> InOrder[S][i], who |-> who, last |-> FALSE]]
      removals == current \ new
  IN IF 1 + Cardinality(current \cap new) <= Cardinality(removals)
     THEN <<[op |-> "clear", device |-> None, who |-> who, last |-> FALSE]>>
            \o Op("add", again) \o Op("add", new \ current)
     ELSE Op("remove", removals) \o Op("add", new \ current)

\* Slip: what the two lists share is not added again after a clear.
ListCommandsForgetful(current, new, who) == Edits(current, new, who, {})

ListCommands(current, new, who) == Edits(current, new, who, current \cap new)

\* contAfterWhiteList
EnableScan(h) ==
  Send([h EXCEPT !.currentScanFilterDuplicates = h.scanChange.filterDuplicates,
                 !.scannerCommandInProgress = TRUE],
       [op |-> "scanOn", filterDuplicates |-> h.scanChange.filterDuplicates])

\* cont2 of a connection attempt
CreateConnection(h) ==
  Send(h, [op |-> "create", useWhiteList |-> h.attempt.useWhiteList,
           device |-> IF h.attempt.useWhiteList THEN None
                      ELSE InOrder[h.attempt.devices][1]])

ListUpdated(h, who) ==
  IF who = "scanner" THEN EnableScan(h) ELSE CreateConnection(h)

\* cont(i) of updateWhiteList
NextListCommand(h, who) ==
  LET u == h.update[who]
  IN IF u.ops = <<>>
     THEN ListUpdated([h EXCEPT !.currentWhiteList = u.newList], who)
     ELSE Send([h EXCEPT !.update[who].ops = Tail(@)], Head(u.ops))

UpdateWhiteList(h, newList, who) ==
  NextListCommand(
    [h EXCEPT !.update[who] = [ops |-> ListCommands(h.currentWhiteList, newList, who),
                               newList |-> newList]], who)

ListAnswer(h, command, ok) ==
  CASE command.last ->   \* the list is cleared after a failure
         LET g == [h EXCEPT !.currentWhiteList = {}]
         IN IF command.who = "scanner" THEN Crash(g, "scanningFailed") ELSE CreateConnection(g)
    [] ~command.last /\ ~ok ->
         Send(h, [op |-> "clear", device |-> None, who |-> command.who, last |-> TRUE])
    [] OTHER -> NextListCommand(h, command.who)

-----------------------------------------------------------------------------
(* triggerScannerChange *)

DisableScan(h) == Send([h EXCEPT !.scannerCommandInProgress = TRUE], [op |-> "scanOff"])

\* cont of triggerConnectionChange
StartAttempt(h) ==
  IF h.attempt.useWhiteList
  THEN UpdateWhiteList([h EXCEPT !.whiteListUsage = "initiator"], h.attempt.devices, "initiator")
  ELSE CreateConnection(h)

ContWhiteList(h) ==
  IF h.scanChange.updateList
  THEN UpdateWhiteList([h EXCEPT !.scannerCommandInProgress = TRUE], h.scanChange.devices, "scanner")
  ELSE EnableScan(h)

\* What the live scanners ask of the controller. scanChange is what the callbacks of the
\* commands close over. (That the list may be too long is compared with a number at 638,
\* which is never so: the list is used whatever its length.)
ScanFor(h) ==
  LET live == {h.scanners[s] : s \in Live(h)}
      useList == h.whiteListUsage = "none" /\ \A k \in live : k.filters # {}
      devices == IF useList THEN UNION {k.filters : k \in live} ELSE {}
  IN [active |-> \E k \in live : k.active, policy |-> useList, devices |-> devices,
      updateList |-> useList /\ h.currentWhiteList # devices,
      filterDuplicates |-> \A k \in live : ~k.active /\ k.filterDuplicates]

ApplyScan(h) ==
  LET change == ScanFor(h)
      parametersChanged == h.active # change.active \/ h.policy # change.policy
      g == [h EXCEPT !.scanChange = change]
      used == [g EXCEPT !.whiteListUsage = IF change.policy THEN "scanner" ELSE @]
  IN CASE (parametersChanged \/ change.updateList) /\ h.scanEnabled ->
            DisableScan([h EXCEPT !.scanningNeedsRestart = TRUE])
       [] parametersChanged /\ ~h.scanEnabled ->
            Send([used EXCEPT !.scannerCommandInProgress = TRUE],
                 [op |-> "scanParameters", active |-> change.active, policy |-> change.policy])
       [] ~parametersChanged /\ change.updateList /\ ~h.scanEnabled -> ContWhiteList(used)
       [] ~parametersChanged /\ ~change.updateList /\ ~h.scanEnabled -> EnableScan(g)
       [] OTHER -> h

TriggerScannerChange(h) ==
  LET g == [h EXCEPT !.scanningNeedsRestart = FALSE]
  IN CASE h.scannerCommandInProgress -> h
       [] ~h.scannerCommandInProgress /\ h.scanEnabled
            /\ (Live(h) = {} \/ h.scanningNeedsRestart \/ h.stopScanCallback) -> DisableScan(h)
       [] OTHER -> IF h.stopScanCallback THEN StartAttempt([g EXCEPT !.stopScanCallback = FALSE])
                   ELSE IF Live(h) # {} THEN ApplyScan(g) ELSE g

\* Slip: what changed while the scan was being enabled is not looked at.
NoRecheck(h) == h
Recheck(h) == TriggerScannerChange(h)

ScanIsOff(h) == TriggerScannerChange(h)

ScanAnswer(h, command, ok) ==
  LET g == [h EXCEPT !.scannerCommandInProgress = FALSE]
  IN CASE command.op = "scanOff" ->
            ScanIsOff([g EXCEPT !.scanEnabled = FALSE,
                                !.whiteListUsage = IF @ = "scanner" THEN "none" ELSE @])
       [] command.op # "scanOff" /\ ~ok -> Crash(g, "scanningFailed")
       [] command.op = "scanParameters" /\ ok ->
            ContWhiteList([g EXCEPT !.active = command.active, !.policy = command.policy])
       [] command.op = "scanOn" /\ ok -> Recheck([g EXCEPT !.scanEnabled = TRUE])

-----------------------------------------------------------------------------
(* triggerConnectionChange. What it calls when the white list is too small for the       *)
(* pending connections, this.startScan, is no method of the `this` of a plain call.      *)

SendCancel(h) == Send([h EXCEPT !.cancelCommandInProgress = TRUE], [op |-> "cancel"])

TriggerConnectionChange(h) ==
  LET useList == Cardinality(h.pending) \in 2 .. WhiteListSize
      attempt == [conns |-> h.pending, devices |-> Wanted(h), useWhiteList |-> useList]
      g == [h EXCEPT !.connecting = @ \cup h.pending, !.connectCommandInProgress = TRUE,
                     !.attempt = attempt]
  IN CASE h.connectCommandInProgress \/ h.cancelCommandInProgress -> h
       [] OTHER ->
            IF Cardinality(h.pending) > WhiteListSize THEN Crash(h, "startScan")
            ELSE IF h.stopScanCallback THEN h
            ELSE IF h.createConnectionIsOutstanding
                 THEN IF h.attempt.devices = Wanted(h) THEN h ELSE SendCancel(h)
            ELSE IF h.pending = {} THEN h
            ELSE IF useList /\ h.whiteListUsage = "scanner"
                 THEN [g EXCEPT !.stopScanCallback = TRUE]
                 ELSE StartAttempt(g)

Cancelled(h, conns) ==
  [h EXCEPT !.pending = @ \ conns,
            !.outcome = [c \in Connect |-> IF c \in conns THEN "cancelled" ELSE @[c]]]

\* Slip: a cancel that came while the create command was under way is forgotten.
AttemptStartedUncancelled(h, gone) == TriggerConnectionChange(h)

AttemptStarted(h, gone) ==
  IF gone # {} THEN SendCancel(h) ELSE TriggerConnectionChange(h)

\* The command status of the create command.
CreateAnswer(h, command, ok) ==
  LET g == [h EXCEPT !.connectCommandInProgress = FALSE]
      gone == h.attempt.conns \cap h.cancelled
  IN IF ok
     THEN AttemptStarted([g EXCEPT !.createConnectionIsOutstanding = TRUE], gone)
     ELSE TriggerConnectionChange(
            [Cancelled(g, gone) EXCEPT !.whiteListUsage = "none", !.attempt = None,
                                       !.connecting = @ \ h.attempt.conns])

\* Slip: when an attempt ends, what is still pending is not attempted again.
NoNextAttempt(h) == h
NextAttempt(h) == TriggerConnectionChange(h)

\* The LE Connection Complete event: device is None when the attempt was cancelled.
ConnectionComplete(h, device) ==
  LET found == {c \in h.attempt.conns : device # None /\ h.device[c] = device}
      conn == {c \in found : \A o \in found : c <= o}
      gone == (h.attempt.conns \cap h.cancelled) \ conn
      g == [Cancelled(h, gone) EXCEPT !.whiteListUsage = "none", !.attempt = None,
              !.cancelCommandInProgress = FALSE, !.createConnectionIsOutstanding = FALSE,
              !.connecting = @ \ h.attempt.conns]
  IN IF device # None /\ conn = {} THEN Crash(g, "connection complete but failed conn")
     ELSE NextAttempt(
            [g EXCEPT !.pending = @ \ conn,
                      !.outcome = [c \in Connect |-> IF c \in conn THEN "connected" ELSE @[c]],
                      !.connections = @ \cup ({device} \ {None})])

-----------------------------------------------------------------------------
(* The controller, as the manager sees it through the adapter. *)

WhiteListInUse ==
  \/ controller.scanning /\ controller.policy
  \/ controller.initiating # None /\ controller.initiating.useWhiteList

Refuses(command) ==
  CASE command.op \in {"clear", "add", "remove"} ->
         \/ WhiteListInUse
         \/ /\ command.op = "add"
            /\ Cardinality(controller.list \cup {command.device}) > WhiteListSize
    [] command.op = "scanParameters" -> controller.scanning
    [] command.op = "create" -> controller.initiating # None \/ command.device \in controller.links
    [] command.op = "cancel" -> controller.initiating = None
    [] OTHER -> FALSE

Executed(command) ==
  CASE command.op = "clear" -> [controller EXCEPT !.list = {}]
    [] command.op = "add" -> [controller EXCEPT !.list = @ \cup {command.device}]
    [] command.op = "remove" -> [controller EXCEPT !.list = @ \ {command.device}]
    [] command.op = "scanParameters" ->
         [controller EXCEPT !.active = command.active, !.policy = command.policy]
    [] command.op = "scanOn" ->
         [controller EXCEPT !.scanning = TRUE, !.filterDuplicates = command.filterDuplicates]
    [] command.op = "scanOff" -> [controller EXCEPT !.scanning = FALSE]
    [] command.op = "create" -> [controller EXCEPT !.initiating = command]
    [] command.op = "cancel" -> [controller EXCEPT !.initiating = None]

Answer(ok) == [type |-> "answer", ok |-> ok]
Complete(device) == [type |-> "complete", device |-> device]

Unanswered == commands # <<>> /\ \A i \in DOMAIN events : events[i].type # "answer"

Execute ==
  /\ Unanswered
  /\ IF Refuses(Head(commands))
     THEN events' = Append(events, Answer(FALSE)) /\ UNCHANGED controller
     ELSE /\ controller' = Executed(Head(commands))
          /\ events' = events \o <<Answer(TRUE)>>
                         \o (IF Head(commands).op = "cancel" THEN <<Complete(None)>> ELSE <<>>)
  /\ UNCHANGED <<host, commands, budget>>

\* The controller has no room for another connection, or cannot initiate just now.
Reject ==
  /\ Unanswered /\ Head(commands).op = "create" /\ budget.rejects > 0
  /\ events' = Append(events, Answer(FALSE))
  /\ budget' = [budget EXCEPT !.rejects = @ - 1]
  /\ UNCHANGED <<host, commands, controller>>

Targets ==
  IF controller.initiating = None THEN {}
  ELSE IF controller.initiating.useWhiteList THEN controller.list ELSE {controller.initiating.device}

Establish(d) ==
  /\ d \in Targets \ controller.links
  /\ controller' = [controller EXCEPT !.initiating = None, !.links = @ \cup {d}]
  /\ events' = Append(events, Complete(d))
  /\ UNCHANGED <<host, commands, budget>>

Drop(d) ==
  /\ d \in controller.links /\ budget.drops > 0
  /\ controller' = [controller EXCEPT !.links = @ \ {d}]
  /\ events' = Append(events, [type |-> "gone", device |-> d])
  /\ budget' = [budget EXCEPT !.drops = @ - 1]
  /\ UNCHANGED <<host, commands>>

-----------------------------------------------------------------------------
(* The steps of the host. *)

\* A synchronous piece of the program ends: what it sent goes into the adapter's queue.
Returns(h, rest) ==
  /\ host' = [h EXCEPT !.out = <<>>]
  /\ commands' = rest \o h.out

HandleAnswer ==
  /\ host.crashed = "no" /\ events # <<>> /\ Head(events).type = "answer"
  /\ LET c == Head(commands)
         ok == Head(events).ok
     IN Returns(CASE c.op \in {"scanOff", "scanOn", "scanParameters"} -> ScanAnswer(host, c, ok)
                  [] c.op = "create" -> CreateAnswer(host, c, ok)
                  [] c.op = "cancel" -> host
                  [] OTHER -> ListAnswer(host, c, ok),
                Tail(commands))
  /\ events' = Tail(events)
  /\ UNCHANGED <<controller, budget>>

HandleComplete ==
  /\ host.crashed = "no" /\ events # <<>> /\ Head(events).type = "complete"
  /\ Returns(ConnectionComplete(host, Head(events).device), commands)
  /\ events' = Tail(events)
  /\ UNCHANGED <<controller, budget>>

HandleDisconnect ==
  /\ host.crashed = "no" /\ events # <<>> /\ Head(events).type = "gone"
  /\ host' = [host EXCEPT !.connections = @ \ {Head(events).device}]
  /\ events' = Tail(events)
  /\ UNCHANGED <<commands, controller, budget>>

\* The application. A scanner that was stopped leaves its place to a later one.
StartScan(s, kind) ==
  /\ host.crashed = "no" /\ budget.scans > 0 /\ kind \in budget.kinds
  /\ budget' = [budget EXCEPT !.scans = @ - 1]
  /\ host.scanners[s] = None /\ \A t \in Scan : t < s => host.scanners[t] # None
  /\ Returns(TriggerScannerChange(
               [host EXCEPT !.scanners[s] = kind,
                            !.scanningNeedsRestart = @ \/ host.currentScanFilterDuplicates]),
             commands)
  /\ UNCHANGED <<controller, events>>

StopScan(s) ==
  /\ host.crashed = "no" /\ host.scanners[s] # None
  /\ Returns(TriggerScannerChange([host EXCEPT !.scanners[s] = None]), commands)
  /\ UNCHANGED <<controller, events, budget>>

\* That no other connect() is pending for the device is checked in a field (2157) that
\* pending connections do not have.
DoConnect(c, d) ==
  /\ host.crashed = "no" /\ budget.connects > 0 /\ d \in budget.peers \ host.connections
  /\ budget' = [budget EXCEPT !.connects = @ - 1]
  /\ host.device[c] = None /\ \A o \in Connect : o < c => host.device[o] # None
  /\ Returns(TriggerConnectionChange(
               [host EXCEPT !.device[c] = d, !.pending = @ \cup {c}]), commands)
  /\ UNCHANGED <<controller, events>>

\* Slip: a cancelled call is taken away at once even while the controller works on it.
CancelOfAtOnce(h, c) ==
  TriggerConnectionChange(Cancelled([h EXCEPT !.cancelled = @ \cup {c}], {c}))

CancelOf(h, c) ==
  LET g == [h EXCEPT !.cancelled = @ \cup {c}]
  IN IF c \in h.connecting
     THEN IF h.createConnectionIsOutstanding /\ ~h.cancelCommandInProgress THEN SendCancel(g) ELSE g
     ELSE TriggerConnectionChange(Cancelled(g, {c}))

DoCancel(c) ==
  /\ host.crashed = "no" /\ c \in host.pending \ host.cancelled
  /\ Returns(CancelOf(host, c), commands)
  /\ UNCHANGED <<controller, events, budget>>

Init ==
  /\ host = HostInit /\ commands = <<>> /\ events = <<>>
  /\ controller = [scanning |-> FALSE, active |-> FALSE, policy |-> FALSE,
                   filterDuplicates |-> FALSE, list |-> {}, initiating |-> None, links |-> {}]
  /\ budget \in Budgets

Next ==
  \/ Execute \/ Reject
  \/ \E d \in Device : Establish(d) \/ Drop(d)
  \/ HandleAnswer \/ HandleComplete \/ HandleDisconnect
  \/ \E s \in Scan : StopScan(s) \/ \E k \in budget.kinds : StartScan(s, k)
  \/ \E c \in Connect : DoCancel(c) \/ \E d \in Device : DoConnect(c, d)

Spec == Init /\ [][Next]_vars

\* The controller answers a command (Execute and Reject), and the host's event loop runs
\* (the three handlers): said of events alone, which only those steps change in this way.
Answers ==
  /\ Unanswered
  /\ \E answer \in {<<Answer(TRUE)>>, <<Answer(FALSE)>>, <<Answer(TRUE), Complete(None)>>} :
       events' = events \o answer
Handles == host.crashed = "no" /\ events # <<>> /\ events' = Tail(events)
Fairness == WF_events(Answers) /\ WF_events(Handles)
FairSpec == Spec /\ Fairness

-----------------------------------------------------------------------------
(* Properties. *)

ListCommand(c) == c.op \in {"clear", "add", "remove"}

\* Once no change of it is under way, the white list the manager believes in is the one
\* the controller has: the differences it computes later start from the truth.
ListsAgree ==
  (\A i \in DOMAIN commands : ~ListCommand(commands[i])) =>
    host.currentWhiteList = controller.list

\* What the controller scans for reaches a scanner of this kind.
Serves(kind) ==
  /\ controller.scanning
  /\ kind.active => controller.active
  /\ controller.policy => kind.filters # {} /\ kind.filters \subseteq controller.list

\* Whenever no scan command is under way, the scan of the controller serves every live
\* scanner, and is off when there is none, however starts and stops crossed the commands.
ScanServesEveryScanner ==
  host.crashed = "no" /\ ~host.scannerCommandInProgress =>
    /\ controller.scanning <=> Live(host) # {}
    /\ \A s \in Live(host) : Serves(host.scanners[s])

\* The controller holds back repeated reports only when every live scanner wants that.
RepeatsReachScanners ==
  host.crashed = "no" /\ ~host.scannerCommandInProgress /\ controller.scanning =>
    (controller.filterDuplicates => \A s \in Live(host) : host.scanners[s].filterDuplicates)

\* Whenever the initiator is at rest, the controller looks for exactly the devices that
\* are pending: no connect is overlooked and no device is connected to behind the caller.
InitiatorServesEveryConnect ==
  host.crashed = "no" /\ ~host.connectCommandInProgress /\ ~host.cancelCommandInProgress
    /\ (\A i \in DOMAIN events : events[i].type # "complete") =>
      Targets = Wanted(host)

\* A device the controller connects to is one somebody waits for: the exception that
\* ends the process when it is not (2073) is never thrown.
NoForeignConnection == host.crashed # "connection complete but failed conn"

\* A connect ends once: it is never connected after its cancellation was reported, nor
\* the other way round, whichever of the cancel and the connection was first on the air.
OutcomeIsFinal ==
  [][\A c \in Connect : host.outcome[c] # "none" => host'.outcome[c] = host.outcome[c]]_vars

\* cancel() has an end: the callback, or the connection that came first.
EveryCancelEnds ==
  \A c \in Connect : c \in host.cancelled ~> host.outcome[c] # "none"

\* A scanner that is left alone is served in the end.
EveryScannerServed ==
  \A s \in Scan :
    s \in Live(host) ~> (s \notin Live(host) \/ Serves(host.scanners[s]) \/ host.crashed # "no")

\* Whoever waits for the manager is served: no cancel() and no scanner waits for ever.
EveryCallerServed == EveryCancelEnds /\ EveryScannerServed
=============================================================================
