----------------------------- MODULE AttBearer -----------------------------
(***************************************************************************)
(* Two ends of an ATT bearer (AttConnection of lib/internal/gatt.js), each *)
(* both client and server, and the procedure queue of the GATT client that *)
(* feeds it (GattConnection).  Each end sends requests one at a time,      *)
(* answers those of the other through callbacks of the application,        *)
(* indicates, notifies, sends commands and takes part in MTU exchanges.    *)
(*                                                                         *)
(* Packets wait in out until the adapter writes them, which may be inside  *)
(* the call that hands them over, and then calls their sentCallback.  An   *)
(* end's callStack holds the activations on its JavaScript stack, the      *)
(* innermost last: callbacks of the application and the loop that sends    *)
(* the notifications an MTU exchange has held back.                        *)
(*                                                                         *)
(* The definitions between a comment and the operator it is about are slips*)
(* of that operator; the properties tell each of them from the code.       *)
(***************************************************************************)
EXTENDS Naturals, Sequences, FiniteSets

CONSTANTS
  Side,              (* the two ends                                           *)
  DefaultMtu,        (* the MTU every connection starts with (23)              *)
  RxMtu,             (* what each end announces (517 for this implementation)  *)
  Budgets,           (* bounds: what each end may be asked to send in a behaviour *)
  LongCommands       (* may a Write Command carry more than the attribute takes? *)

\* What is counted and bounded: packets that an end is asked to send, and timeouts.
Counted == {"request", "command", "notification", "indication"}
Budget == [Side -> [Counted \cup {"timeout"} -> Nat]]

ASSUME AttAssumption ==
  /\ \E s, t \in Side : s # t /\ Side = {s, t}
  /\ DefaultMtu \in Nat
  /\ RxMtu \in [Side -> {n \in Nat : n >= DefaultMtu}]
  /\ Budgets \subseteq Budget
  /\ LongCommands \in BOOLEAN

\* The packets of a type are numbered from 1.
Ids(type) == UNION {1 .. b[s][type] : b \in Budgets, s \in Side}

VARIABLES
  att,        \* the AttConnection of each end, with the procedure queue above it
  callStack,  \* per end, activations, innermost last
  wire,       \* per end, packets written by it and not yet handled by the other
  calls,      \* history: how many packets of each type an end was asked to send
  answer,     \* history: per end and request, what its callback was given
  confirmed,  \* history: per end, indications whose callback was called, and for what
  notified,   \* history: per end, notifications of the other that reached it
  budget      \* the bounds of this behaviour

historyVars == <<calls, answer, confirmed, notified, budget>>
vars == <<att, callStack, wire, historyVars>>

Other(s) == CHOOSE t \in Side : t # s
None == 0

\* A procedure of the client is one request: an MTU exchange, which is sent at most once;
\* "read", any that discovers or reads; "write", one that the application authorises.
Op == {"mtu", "read", "write"}
Request == [id : Nat \ {None}, op : Op]
NoRequest == [id |-> None, op |-> "none"]

\* A packet; id is that of the request, command, notification or indication it is about.
Type == {"request", "response", "error", "command", "notification", "indication",
         "confirmation"}
Packet == [type : Type, op : Op \cup {"command", "none"}, id : Nat, len : Nat]
Pdu(type, op, id, len) == [type |-> type, op |-> op, id |-> id, len |-> len]

\* What the application owes the server: the result of a read, the authorisation and then
\* the result of a write, or the confirmation of an indication.
Task == [op : {"read", "write", "command", "confirm"}, stage : {"authorize", "answer"},
         id : Nat, mtu : Nat]

Bearer ==
  [currentMtu : Nat, timedout : BOOLEAN, out : Seq(Packet),
   procedureQueue : Seq(Request), hasPendingRequest : BOOLEAN, hasExchangedMtu : BOOLEAN,
   requestQueue : Seq(Request), currentOutgoingRequest : Request \cup {NoRequest},
   currentOutgoingRequestIsSent : BOOLEAN, hasOutgoingConfirmation : BOOLEAN,
   isHandlingRequest : BOOLEAN, tasks : SUBSET Task,
   indicationQueue : Seq(Nat), currentOutgoingIndication : Nat,
   currentOutgoingIndicationIsSent : BOOLEAN, notificationQueue : Seq(Nat)]

\* Both ends, the wires and the history are well formed, and no MTU leaves the range
\* between the default and what either end can take.
TypeOK ==
  /\ att \in [Side -> Bearer]
  /\ \A s \in Side : att[s].currentMtu \in DefaultMtu .. RxMtu[s]
  /\ callStack \in [Side -> Seq({"response", "confirmation", "sent", "flush"})]
  /\ wire \in [Side -> Seq(Packet)]
  /\ budget \in Budgets /\ calls \in [Side -> [Counted -> Nat]]
  /\ \A s \in Side :
       /\ answer[s] \in [Ids("request") -> {"none", "own", "foreign"}]
       /\ confirmed[s] \in SUBSET (Nat \X Nat)
       /\ notified[s] \in Seq(Nat)

Init ==
  /\ att = [s \in Side |->
       [currentMtu |-> DefaultMtu, timedout |-> FALSE, out |-> <<>>,
        procedureQueue |-> <<>>, hasPendingRequest |-> FALSE, hasExchangedMtu |-> FALSE,
        requestQueue |-> <<>>, currentOutgoingRequest |-> NoRequest,
        currentOutgoingRequestIsSent |-> FALSE, hasOutgoingConfirmation |-> FALSE,
        isHandlingRequest |-> FALSE, tasks |-> {},
        indicationQueue |-> <<>>, currentOutgoingIndication |-> None,
        currentOutgoingIndicationIsSent |-> FALSE, notificationQueue |-> <<>>]]
  /\ callStack = [s \in Side |-> <<>>]
  /\ wire = [s \in Side |-> <<>>]
  /\ budget \in Budgets /\ calls = [s \in Side |-> [t \in Counted |-> 0]]
  /\ answer = [s \in Side |-> [r \in Ids("request") |-> "none"]]
  /\ confirmed = [s \in Side |-> {}]
  /\ notified = [s \in Side |-> <<>>]

-----------------------------------------------------------------------------
(* Control: the JavaScript stack of an end and its event loop. *)

Top(s) == callStack[s][Len(callStack[s])]
Push(s, frame) == callStack' = [callStack EXCEPT ![s] = Append(@, frame)]
Pop(s) == callStack' = [callStack EXCEPT ![s] = SubSeq(@, 1, Len(@) - 1)]
Returns(s, frame) == callStack[s] # <<>> /\ Top(s) = frame /\ Pop(s)
ApplicationRuns(s) == callStack[s] # <<>> => Top(s) # "flush"

\* The state of end s becomes b.
Becomes(s, b) == att' = [att EXCEPT ![s] = b]

\* The packet that end s handles next.
Arriving(s) == Head(wire[Other(s)])
Fits(s) == Arriving(s).len <= att[s].currentMtu

Kind(s) == IF Fits(s) THEN Arriving(s).type ELSE "oversized"

\* End s handles a packet of one of these kinds.
Receives(s, kinds) ==
  /\ callStack[s] = <<>>
  /\ ~att[s].timedout
  /\ wire[Other(s)] # <<>>
  /\ Kind(s) \in kinds
  /\ wire' = [wire EXCEPT ![Other(s)] = Tail(@)]

-----------------------------------------------------------------------------
(* The functions of AttConnection and GattConnection, from a state b of an end to the next. *)

\* sendDataFn, which does nothing after a timeout.
SendData(b, pdu) == IF b.timedout THEN b ELSE [b EXCEPT !.out = Append(@, pdu)]

MtuExchangePending(b) == b.currentOutgoingRequest.op = "mtu"

MaySendRequestAlways(b) == b.requestQueue # <<>>
MaySendRequest(b) == b.currentOutgoingRequest = NoRequest /\ b.requestQueue # <<>>

SendNextRequest(b) ==
  IF MaySendRequest(b)
  THEN LET next == Head(b.requestQueue) IN
       SendData([b EXCEPT !.currentOutgoingRequest = next, !.requestQueue = Tail(@),
                          !.currentOutgoingRequestIsSent = FALSE],
                Pdu("request", next.op, next.id,
                    IF next.op = "mtu" THEN DefaultMtu ELSE b.currentMtu))
  ELSE b

MaySendIndication(b) ==
  /\ b.currentOutgoingIndication = None
  /\ ~MtuExchangePending(b)
  /\ b.indicationQueue # <<>>

SendNextIndication(b) ==
  IF MaySendIndication(b)
  THEN LET next == Head(b.indicationQueue) IN
       SendData([b EXCEPT !.currentOutgoingIndication = next, !.indicationQueue = Tail(@),
                          !.currentOutgoingIndicationIsSent = FALSE],
                Pdu("indication", "none", next, b.currentMtu))
  ELSE b

SendResponse(b, pdu) == SendData([b EXCEPT !.isHandlingRequest = TRUE], pdu)
SendConfirmation(b, id) ==
  SendData([b EXCEPT !.hasOutgoingConfirmation = TRUE],
           Pdu("confirmation", "none", id, DefaultMtu))

EnqueueRequest(b, r) == SendNextRequest([b EXCEPT !.requestQueue = Append(@, r)])

\* nextRequest and doneNextRequest of GattConnection.
NextRequest(b) ==
  IF ~b.hasPendingRequest /\ b.procedureQueue # <<>>
  THEN EnqueueRequest([b EXCEPT !.hasPendingRequest = TRUE, !.procedureQueue = Tail(@)],
                      Head(b.procedureQueue))
  ELSE b
DoneNextRequest(b) == NextRequest([b EXCEPT !.hasPendingRequest = FALSE])

\* The MTU after an exchange in which this end announced own and the other end theirs.
NegotiatedTheirs(own, theirs) == theirs
Negotiated(own, theirs) == IF own < theirs THEN own ELSE theirs

WithMtu(b, mtu) == IF b.currentMtu = DefaultMtu THEN [b EXCEPT !.currentMtu = mtu] ELSE b

-----------------------------------------------------------------------------
(* The application calls the client and the server. *)

Calls(s, type) ==
  /\ ApplicationRuns(s)
  /\ calls[s][type] < budget[s][type]
  /\ calls' = [calls EXCEPT ![s][type] = @ + 1]
  /\ UNCHANGED <<callStack, wire, answer, confirmed, notified, budget>>

\* A GATT procedure; exchangeMtu is refused the second time.
StartProcedure(s, op) ==
  /\ op = "mtu" => ~att[s].hasExchangedMtu
  /\ Calls(s, "request")
  /\ LET r == [id |-> calls[s]["request"] + 1, op |-> op] IN
     Becomes(s, NextRequest([att[s] EXCEPT !.procedureQueue = Append(@, r),
                                           !.hasExchangedMtu = @ \/ op = "mtu"]))

WriteCommand(s) ==
  /\ Calls(s, "command")
  /\ Becomes(s, SendData(att[s], Pdu("command", "command", calls[s]["command"] + 1,
                                     att[s].currentMtu)))

Notify(s) ==
  /\ Calls(s, "notification")
  /\ LET n == calls[s]["notification"] + 1 IN
     Becomes(s, IF MtuExchangePending(att[s])
                THEN [att[s] EXCEPT !.notificationQueue = Append(@, n)]
                ELSE SendData(att[s], Pdu("notification", "none", n, att[s].currentMtu)))

Indicate(s) ==
  /\ Calls(s, "indication")
  /\ LET n == calls[s]["indication"] + 1 IN
     Becomes(s, SendNextIndication([att[s] EXCEPT !.indicationQueue = Append(@, n)]))

-----------------------------------------------------------------------------
(* The adapter. *)

AfterWrittenStillHandling(b, type) ==
  [b EXCEPT !.currentOutgoingRequestIsSent = @ \/ type = "request",
            !.currentOutgoingIndicationIsSent = @ \/ type = "indication",
            !.hasOutgoingConfirmation = @ /\ type # "confirmation"]

\* What the sentCallback of a packet does.
AfterWritten(b, type) ==
  [b EXCEPT !.currentOutgoingRequestIsSent = @ \/ type = "request",
            !.currentOutgoingIndicationIsSent = @ \/ type = "indication",
            !.hasOutgoingConfirmation = @ /\ type # "confirmation",
            !.isHandlingRequest = @ /\ type \notin {"response", "error"}]

\* The oldest packet is written; that of a command or notification has a sentCallback of
\* the application.
Written(s) ==
  /\ att[s].out # <<>>
  /\ LET pdu == Head(att[s].out) IN
     /\ Becomes(s, AfterWritten([att[s] EXCEPT !.out = Tail(@)], pdu.type))
     /\ wire' = [wire EXCEPT ![s] = Append(@, pdu)]
     /\ IF pdu.type \in {"command", "notification"} THEN Push(s, "sent")
                                                    ELSE UNCHANGED callStack
  /\ UNCHANGED historyVars

SentCallbackReturns(s) == Returns(s, "sent") /\ UNCHANGED <<att, wire, historyVars>>

-----------------------------------------------------------------------------
(* The client handles a response. *)

\* An Error Response is taken for that of the outstanding request, whatever it names.
IsAwaited(b, pdu) ==
  /\ b.currentOutgoingRequest # NoRequest
  /\ b.currentOutgoingRequestIsSent
  /\ pdu.type = "error" \/ pdu.op = b.currentOutgoingRequest.op

\* The callback of the request runs before anything else is done.  A response that is not
\* awaited is dropped, and so is any packet longer than the MTU.
HandleResponse(s) ==
  /\ Receives(s, {"response", "error", "oversized"})
  /\ LET pdu == Arriving(s)
         r == att[s].currentOutgoingRequest
     IN IF Fits(s) /\ IsAwaited(att[s], pdu)
        THEN /\ Push(s, "response")
             /\ Becomes(s, IF pdu.type = "response" /\ pdu.op = "mtu"
                           THEN WithMtu(att[s], Negotiated(RxMtu[s], RxMtu[Other(s)]))
                           ELSE att[s])
             /\ answer' = [answer EXCEPT ![s][r.id] =
                  IF pdu.op = r.op /\ pdu.id = r.id THEN "own" ELSE "foreign"]
        ELSE UNCHANGED <<att, callStack, answer>>
  /\ UNCHANGED <<calls, confirmed, notified, budget>>

WasMtuExchange(b) == MtuExchangePending(b)

\* The procedure is done, and the request with it; an MTU exchange first releases what it
\* has held back.
ResponseCallbackReturns(s) ==
  /\ callStack[s] # <<>> /\ Top(s) = "response"
  /\ LET b == [DoneNextRequest(att[s]) EXCEPT !.currentOutgoingRequest = NoRequest] IN
     IF WasMtuExchange(att[s])
     THEN /\ callStack' = [callStack EXCEPT ![s][Len(callStack[s])] = "flush"]
          /\ Becomes(s, b)
     ELSE Pop(s) /\ Becomes(s, SendNextRequest(b))
  /\ UNCHANGED <<wire, historyVars>>

FlushSends(s) ==
  /\ callStack[s] # <<>> /\ Top(s) = "flush"
  /\ att[s].notificationQueue # <<>>
  /\ Becomes(s, SendData([att[s] EXCEPT !.notificationQueue = Tail(@)],
                         Pdu("notification", "none", Head(att[s].notificationQueue),
                             att[s].currentMtu)))
  /\ UNCHANGED <<callStack, wire, historyVars>>

AfterFlushIndicationOnly(b) == SendNextIndication(b)
AfterFlush(b) == SendNextRequest(SendNextIndication(b))

FlushEnds(s) ==
  /\ att[s].notificationQueue = <<>>
  /\ Returns(s, "flush")
  /\ Becomes(s, AfterFlush(att[s]))
  /\ UNCHANGED <<wire, historyVars>>

-----------------------------------------------------------------------------
(* The server handles a request or a command. *)

AddTask(b, op, stage, id) ==
  [b EXCEPT !.tasks = @ \cup {[op |-> op, stage |-> stage, id |-> id, mtu |-> b.currentMtu]}]

\* A request is dropped while the response to another is not sent.
HandleRequest(s) ==
  /\ Receives(s, {"request"})
  /\ LET pdu == Arriving(s)
         b == [att[s] EXCEPT !.isHandlingRequest = TRUE]
     IN Becomes(s,
          CASE att[s].isHandlingRequest -> att[s]
            [] ~att[s].isHandlingRequest /\ pdu.op = "mtu" ->
                 WithMtu(SendResponse(att[s], Pdu("response", "mtu", pdu.id, DefaultMtu)),
                         Negotiated(RxMtu[s], RxMtu[Other(s)]))
            [] ~att[s].isHandlingRequest /\ pdu.op = "read" ->
                 AddTask(b, "read", "answer", pdu.id)
            [] ~att[s].isHandlingRequest /\ pdu.op = "write" ->
                 AddTask(b, "write", "authorize", pdu.id))
  /\ UNCHANGED <<callStack, historyVars>>

HandleCommand(s) ==
  /\ Receives(s, {"command"})
  /\ Becomes(s, AddTask(att[s], "command", "authorize", Arriving(s).id))
  /\ UNCHANGED <<callStack, historyVars>>

ApplicationDoes(s, t) ==
  /\ ApplicationRuns(s)
  /\ t \in att[s].tasks
  /\ UNCHANGED <<callStack, wire, historyVars>>

Without(b, t) == [b EXCEPT !.tasks = @ \ {t}]

ErrorResponse(t) == Pdu("error", t.op, t.id, DefaultMtu)

\* The application has an error for the request or command of task t.
Refuse(b, t) == IF t.op = "command" THEN b ELSE SendResponse(b, ErrorResponse(t))

\* A write is authorised; a value that is too long is refused then, that of a command by an
\* Error Response too.
Authorize(s, t, result) ==
  /\ t.stage = "authorize"
  /\ ApplicationDoes(s, t)
  /\ result = "tooLong" => t.op = "write" \/ LongCommands
  /\ LET b == Without(att[s], t) IN
     Becomes(s, CASE result = "ok" -> [b EXCEPT !.tasks = @ \cup {[t EXCEPT !.stage = "answer"]}]
                  [] result = "error" -> Refuse(b, t)
                  [] result = "tooLong" -> SendResponse(b, ErrorResponse(t)))

\* The application is done with a read, a write or an indication.  A value read is cut to
\* the MTU that was current when the request came.
Finish(s, t, result) ==
  /\ t.stage = "answer"
  /\ ApplicationDoes(s, t)
  /\ LET b == Without(att[s], t)
         reply == Pdu("response", t.op, t.id, IF t.op = "read" THEN t.mtu ELSE DefaultMtu)
     IN Becomes(s, CASE t.op = "confirm" -> SendConfirmation(b, t.id)
                     [] t.op = "command" /\ result = "ok" -> b
                     [] t.op # "confirm" /\ result = "error" -> Refuse(b, t)
                     [] t.op \in {"read", "write"} /\ result = "ok" -> SendResponse(b, reply))

-----------------------------------------------------------------------------
(* Notifications and indications. *)

HandleNotification(s) ==
  /\ Receives(s, {"notification"})
  /\ notified' = [notified EXCEPT ![s] = Append(@, Arriving(s).id)]
  /\ UNCHANGED <<att, callStack, calls, answer, confirmed, budget>>

\* An indication is dropped while the confirmation of another is not sent.
HandleIndication(s) ==
  /\ Receives(s, {"indication"})
  /\ Becomes(s, IF att[s].hasOutgoingConfirmation
                THEN att[s]
                ELSE AddTask(att[s], "confirm", "answer", Arriving(s).id))
  /\ UNCHANGED <<callStack, historyVars>>

\* The callback of the indication runs before anything else is done.
HandleConfirmation(s) ==
  /\ Receives(s, {"confirmation"})
  /\ IF att[s].currentOutgoingIndication # None /\ att[s].currentOutgoingIndicationIsSent
     THEN /\ Push(s, "confirmation")
          /\ confirmed' = [confirmed EXCEPT ![s] =
               @ \cup {<<att[s].currentOutgoingIndication, Arriving(s).id>>}]
     ELSE UNCHANGED <<callStack, confirmed>>
  /\ UNCHANGED <<att, calls, answer, notified, budget>>

ConfirmationCallbackReturns(s) ==
  /\ Returns(s, "confirmation")
  /\ Becomes(s, SendNextIndication([att[s] EXCEPT !.currentOutgoingIndication = None]))
  /\ UNCHANGED <<wire, historyVars>>

\* Thirty seconds have passed since a request or an indication was handed to sendDataFn.
AttTimeout(s) ==
  /\ budget[s]["timeout"] > 0
  /\ callStack[s] = <<>>
  /\ ~att[s].timedout
  /\ \/ att[s].currentOutgoingRequest # NoRequest
     \/ att[s].currentOutgoingIndication # None
  /\ Becomes(s, [att[s] EXCEPT !.timedout = TRUE])
  /\ UNCHANGED <<callStack, wire, historyVars>>

-----------------------------------------------------------------------------
Returning(s) ==
  \/ SentCallbackReturns(s)
  \/ ResponseCallbackReturns(s) \/ FlushSends(s) \/ FlushEnds(s)
  \/ ConfirmationCallbackReturns(s)

Handling(s) ==
  \/ HandleResponse(s) \/ HandleRequest(s) \/ HandleCommand(s)
  \/ HandleNotification(s) \/ HandleIndication(s) \/ HandleConfirmation(s)

Answering(s) ==
  \E t \in att[s].tasks :
    \/ \E result \in {"ok", "error", "tooLong"} : Authorize(s, t, result)
    \/ \E result \in {"ok", "error"} : Finish(s, t, result)

Calling(s) ==
  \/ \E op \in Op : StartProcedure(s, op)
  \/ WriteCommand(s) \/ Notify(s) \/ Indicate(s)

Next ==
  \E s \in Side :
    Calling(s) \/ Written(s) \/ Returning(s) \/ Handling(s) \/ Answering(s) \/ AttTimeout(s)

Spec == Init /\ [][Next]_vars

\* Packets are written and arrive, callbacks return, and the applications answer.
FairSpec ==
  /\ Spec
  /\ \A s \in Side : /\ WF_vars(Written(s))
                     /\ WF_vars(Returning(s))
                     /\ WF_vars(Handling(s))
                     /\ WF_vars(Answering(s))

-----------------------------------------------------------------------------
(* Properties. *)

IsNext(s, type) == wire[Other(s)] # <<>> /\ Arriving(s).type = type /\ ~att[s].timedout

\* The callback of a request is never given the answer to another request or to a command.
\* (Responses carry no more than the opcode, and Error Responses are not looked into.)
OwnResponse ==
  \A s \in Side : \A r \in Ids("request") : answer[s][r] # "foreign"

\* Neither end ever drops a request because it believes that it is still handling the
\* one before, nor an indication because it believes that it has not confirmed the last:
\* the flags are down again before the other end can know that it may go on.
NoTransactionDropped ==
  \A s \in Side :
    /\ IsNext(s, "request") => ~att[s].isHandlingRequest
    /\ IsNext(s, "indication") => ~att[s].hasOutgoingConfirmation

\* No packet is longer than the MTU that its receiver has when it arrives, whatever MTU
\* exchanges are under way in either direction.  README.md promises that notifications are
\* never dropped, and an oversized one would be.
NothingOversized ==
  \A s \in Side : wire[Other(s)] # <<>> /\ ~att[s].timedout => Fits(s)

\* Between MTU exchanges the two ends have the same MTU.
MtuPackets(s) == {i \in DOMAIN att[s].out : att[s].out[i].op = "mtu"}
                   \cup {i \in DOMAIN wire[s] : wire[s][i].op = "mtu"}
MtuAgreed ==
  (\A s \in Side : ~MtuExchangePending(att[s]) /\ MtuPackets(s) = {})
    => \A s, t \in Side : att[s].currentMtu = att[t].currentMtu

\* A confirmation is counted for the indication that it is about.
OwnConfirmation == \A s \in Side : \A pair \in confirmed[s] : pair[1] = pair[2]

\* Whatever is under way, each transaction is answered, and with its own answer.
TransactionsMatch == OwnResponse /\ OwnConfirmation /\ NoTransactionDropped

\* The state is well formed (no MTU leaves the range of what either end can take), and both
\* ends keep to the MTU that they agreed on.
MtuRespected == TypeOK /\ NothingOversized /\ MtuAgreed

\* The procedures of a client are carried out one at a time and in the order in which they
\* were asked for, each is answered at most once, and none is lost, although a callback may
\* ask for the next while its own request is still the current one.
CurrentIsUnanswered(s) ==
  /\ att[s].currentOutgoingRequest # NoRequest
  /\ answer[s][att[s].currentOutgoingRequest.id] = "none"
Unanswered(s) ==
  (IF CurrentIsUnanswered(s) THEN <<att[s].currentOutgoingRequest>> ELSE <<>>)
    \o att[s].requestQueue \o att[s].procedureQueue
Procedures(s) == INSTANCE SerialRequests WITH
  Request <- Ids("request"),
  queue <- [i \in DOMAIN Unanswered(s) |-> Unanswered(s)[i].id],
  abandoned <- {},
  answered <- {r \in Ids("request") : answer[s][r] # "none"},
  broken <- FALSE
ProceduresInOrder ==
  /\ \A s \in Side : Procedures(s)!Init
  /\ [][\A s \in Side : [Procedures(s)!Next]_(Procedures(s)!vars)]_vars

\* docs/api/gatt-client.md says of Write Without Response that it is not a request: neither
\* end ever sends an answer to one.
CommandsAreNotRequests ==
  \A s \in Side : \A i \in DOMAIN wire[s] :
    wire[s][i].type \in {"response", "error"} => wire[s][i].op # "command"

SomeTimeout == \E s \in Side : att[s].timedout

\* Whatever has been asked for has run its course: the request was answered, the
\* notification has reached the other end and the indication is confirmed.
Settled ==
  \A s \in Side :
    /\ \A r \in 1 .. calls[s]["request"] : answer[s][r] # "none"
    /\ \A n \in 1 .. calls[s]["notification"] :
         \E i \in DOMAIN notified[Other(s)] : notified[Other(s)][i] = n
    /\ \A n \in 1 .. calls[s]["indication"] : <<n, n>> \in confirmed[s]

\* Every procedure ends, and every notification and indication gets through, also what was
\* asked for during an MTU exchange or from a callback, unless a transaction times out.
\* (The calls are bounded, so they have all been made at some time.)
EveryTransactionEnds == []<>(Settled \/ SomeTimeout)
=============================================================================
