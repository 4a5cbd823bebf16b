---------------------------- MODULE Advertising ----------------------------
(***************************************************************************)
(* Advertising: startAdvertising and stopAdvertising of the manager        *)
(* (lib/ble-manager.js) with the flag that says whether it runs, the one   *)
(* callback for connections in the adapter (lib/internal/adapter.js), the  *)
(* queue in which the commands wait for one another, and the controller,   *)
(* which stops advertising by itself when a master connects or directed    *)
(* advertising times out.                                                  *)
(*                                                                         *)
(* The answer to a command is handled by sending the next one first, and   *)
(* calling the callback then: what the callback sends goes to the end of   *)
(* the queue.                                                              *)
(***************************************************************************)
EXTENDS Naturals, Sequences

CONSTANTS
  MaxStarts,     (* how often advertising is started                         *)
  Refusals,      (* how many commands the controller may refuse              *)
  StopsEarly     (* applications stop advertising before it was started      *)

ASSUME AdvertisingAssumption ==
  MaxStarts \in Nat /\ Refusals \in Nat /\ StopsEarly \in BOOLEAN

Start == 1 .. MaxStarts   \* the calls of startAdvertising

VARIABLES
  isAdvertisingUserSet,
  startAdvQueueSize,   \* starts that are not answered
  advCommands,         \* the command that was sent, and those that wait
  executed,            \* the controller has executed the first of them
  advCallback,         \* of the adapter: the start whose callback a connection gets; 0 is none
  advertising,         \* of the controller
  parameters,          \* of the controller: the start they are of
  advEvents,           \* to the host
  calls,               \* history: what the callback of each start was called with
  killed,              \* history: connections nobody was there for
  made,                \* history: starts whose advertising led to a connection
  starts,              \* calls of startAdvertising, or all of them when there is to be none
  refusals

advController == <<advertising, parameters, made, refusals>>
advHost == <<isAdvertisingUserSet, startAdvQueueSize, advCallback, calls, killed, starts>>
advVars == <<advController, advHost, advCommands, executed, advEvents>>

AdvInit ==
  /\ isAdvertisingUserSet = FALSE /\ startAdvQueueSize = 0
  /\ advCommands = <<>> /\ executed = FALSE
  /\ advCallback = 0
  /\ advertising = FALSE /\ parameters = 0
  /\ advEvents = <<>>
  /\ calls = [s \in Start |-> <<>>] /\ killed = 0 /\ made = {}
  /\ starts \in {0, MaxStarts} /\ refusals = Refusals

-----------------------------------------------------------------------------
(* The application. *)

StartAdvertising ==
  /\ ~isAdvertisingUserSet /\ starts + 1 \in Start
  /\ starts' = starts + 1
  /\ isAdvertisingUserSet' = TRUE
  /\ startAdvQueueSize' = startAdvQueueSize + 1
  /\ advCommands' = Append(advCommands, [op |-> "parameters", start |-> starts + 1])
  /\ UNCHANGED <<executed, advCallback, advController, advEvents, calls, killed>>

\* A start whose parameters were not answered is the one that stopping comes too early for.
IsStarted ==
  \A i \in DOMAIN advCommands : advCommands[i].op # "parameters"

StopAdvertising ==
  /\ isAdvertisingUserSet /\ (IsStarted \/ StopsEarly)
  /\ isAdvertisingUserSet' = FALSE
  /\ advCommands' = Append(advCommands, [op |-> "disable", start |-> starts])
  /\ UNCHANGED <<startAdvQueueSize, executed, advCallback, advController, advEvents, calls, killed,
                 starts>>

-----------------------------------------------------------------------------
(* The host. *)

Answered(status) ==
  /\ advEvents # <<>> /\ Head(advEvents).what = "answer" /\ Head(advEvents).status = status
  /\ advEvents' = Tail(advEvents)
  /\ executed' = FALSE

\* The flag after a start that came to nothing, or to a connection, and left n of them
\* unanswered. (Slip: a later start is not thought of.)
FlagAfterAtOnce(n) == FALSE
FlagAfter(n) == IF n = 0 THEN FALSE ELSE isAdvertisingUserSet

Fails(start) ==
  /\ startAdvQueueSize' = startAdvQueueSize - 1
  /\ isAdvertisingUserSet' = FlagAfter(startAdvQueueSize - 1)
  /\ calls' = [calls EXCEPT ![start] = Append(@, "failed")]

ParametersAnswered ==
  /\ advCommands # <<>> /\ Head(advCommands).op = "parameters"
  /\ \/ /\ Answered("ok")
        /\ advCommands' = Append(Tail(advCommands), [Head(advCommands) EXCEPT !.op = "enable"])
        /\ UNCHANGED <<isAdvertisingUserSet, startAdvQueueSize, calls>>
     \/ /\ Answered("refused")
        /\ advCommands' = Tail(advCommands)
        /\ Fails(Head(advCommands).start)
  /\ UNCHANGED <<advCallback, advController, killed, starts>>

CallbackAfter(start, status) == IF status = "ok" THEN start ELSE advCallback

EnableAnswered ==
  /\ advCommands # <<>> /\ Head(advCommands).op = "enable"
  /\ \E status \in {"ok", "refused"} :
       /\ Answered(status)
       /\ advCallback' = CallbackAfter(Head(advCommands).start, status)
       /\ IF status = "ok"
          THEN /\ startAdvQueueSize' = startAdvQueueSize - 1
               /\ UNCHANGED <<isAdvertisingUserSet, calls>>
          ELSE Fails(Head(advCommands).start)
  /\ advCommands' = Tail(advCommands)
  /\ UNCHANGED <<advController, killed, starts>>

DisableAnswered ==
  /\ advCommands # <<>> /\ Head(advCommands).op = "disable"
  /\ \E status \in {"ok", "refused"} : Answered(status)
  /\ advCommands' = Tail(advCommands)
  /\ UNCHANGED <<advHost, advController>>

\* A master connected or directed advertising timed out: the callback of the last start
\* that was enabled is called, and a connection without one is killed.
HandleLeConnectionComplete ==
  /\ advEvents # <<>> /\ Head(advEvents).what \in {"connected", "timeout"}
  /\ advEvents' = Tail(advEvents)
  /\ advCallback' = 0
  /\ IF advCallback = 0
     THEN /\ killed' = IF Head(advEvents).what = "connected" THEN killed + 1 ELSE killed
          /\ UNCHANGED <<isAdvertisingUserSet, calls>>
     ELSE /\ isAdvertisingUserSet' = FlagAfter(startAdvQueueSize)
          /\ calls' = [calls EXCEPT ![advCallback] = Append(@, Head(advEvents).what)]
          /\ UNCHANGED killed
  /\ UNCHANGED <<startAdvQueueSize, advCommands, executed, advController, starts>>

-----------------------------------------------------------------------------
(* The controller. *)

\* It executes the command that was sent. Parameters are refused while advertising.
AdvExecute(refuse) ==
  /\ advCommands # <<>> /\ ~executed
  /\ executed' = TRUE
  /\ LET c == Head(advCommands)
         refused == refuse \/ (c.op = "parameters" /\ advertising)
     IN /\ refuse => refusals > 0 /\ c.op # "disable"
        /\ refusals' = IF refuse THEN refusals - 1 ELSE refusals
        /\ parameters' = IF c.op = "parameters" /\ ~refused THEN c.start ELSE parameters
        /\ advertising' = CASE refused \/ c.op = "parameters" -> advertising
                            [] ~refused /\ c.op = "enable" -> TRUE
                            [] OTHER -> FALSE
        /\ advEvents' = Append(advEvents, [what |-> "answer",
                                            status |-> IF refused THEN "refused" ELSE "ok"])
  /\ UNCHANGED <<advHost, advCommands, made>>

\* The event may overtake, or be overtaken by, the answer to the command that disables
\* advertising (docs/api/ble-manager.md:128).
Ends(what) ==
  /\ advertising /\ advertising' = FALSE
  /\ advEvents' = Append(advEvents, [what |-> what, status |-> "ok"])
  /\ made' = made \cup {parameters}
  /\ UNCHANGED <<advHost, advCommands, executed, parameters, refusals>>

IsDisabled(i) ==
  i < Len(advEvents) /\ advEvents[i].what = "connected" /\ Head(advCommands).op = "disable"

Overtakes ==
  /\ advCommands # <<>> /\ \E i \in DOMAIN advEvents :
       /\ IsDisabled(i) /\ advEvents[i + 1].what = "answer"
       /\ advEvents' = [advEvents EXCEPT ![i] = advEvents[i + 1], ![i + 1] = advEvents[i]]
  /\ UNCHANGED <<advHost, advCommands, executed, advController>>

AdvHandles == ParametersAnswered \/ EnableAnswered \/ DisableAnswered \/ HandleLeConnectionComplete

AdvNext ==
  \/ StartAdvertising \/ StopAdvertising
  \/ AdvHandles
  \/ AdvExecute(TRUE) \/ AdvExecute(FALSE) \/ Ends("connected") \/ Ends("timeout") \/ Overtakes

AdvSpec == AdvInit /\ [][AdvNext]_advVars

-----------------------------------------------------------------------------
(* Properties. *)

Quiet == advCommands = <<>> /\ advEvents = <<>>

\* Once everything is answered the flag says what the controller does: advertising that
\* the application cannot stop, or can neither start nor stop, does not happen.
FlagIsTruthful == Quiet => (isAdvertisingUserSet <=> advertising)

\* A connection that came of advertising is never killed for want of a callback: it goes
\* to the start that was connected to, whose callback is called at most once, also when
\* the application stops and starts again while the connection is being made.
ConnectionsReachTheirStart ==
  /\ killed = 0
  /\ \A s \in Start :
       /\ Len(calls[s]) <= 1
       /\ \A i \in DOMAIN calls[s] : calls[s][i] # "failed" => s \in made

\* What advertising promises its application: it can stop what runs and start what does
\* not, and each connection reaches the start it came of.
AdvertisingIsTruthful == FlagIsTruthful /\ ConnectionsReachTheirStart
=============================================================================
