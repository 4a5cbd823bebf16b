----------------------------- MODULE Signaling -----------------------------
(***************************************************************************)
(* The L2CAP signalling channel of one connection and the update of the    *)
(* connection parameters (lib/ble-manager.js): requests of this end with   *)
(* their identifiers and 30 s timers, responses and rejects of the peer,   *)
(* requests of the peer, and the queue of updateConnParams with the HCI    *)
(* command of a master (tried again when it fails) or the signalling       *)
(* request of a slave.                                                     *)
(*                                                                         *)
(* Packets of one direction keep their order; the peer answers what it was *)
(* asked in any order, late or never.  Parameters are the number of the    *)
(* call that asked for them; a request for a channel stands for every      *)
(* other kind of request, and has a number below 0 (what becomes of the    *)
(* channel is in L2capCoc).                                                *)
(***************************************************************************)
EXTENDS Integers, Sequences, FiniteSets

CONSTANTS
  MaxId,         (* the largest identifier: 255                             *)
  Retries,       (* how often the HCI command is tried again: 3             *)
  LateAnswers,   (* applications answer the peer's requests after the link
                    is down, too                                            *)
  SigBudgets     (* what may happen in a behaviour: see the assumption      *)

ASSUME SignalingAssumption ==
  /\ MaxId \in Nat \ {0, 1} /\ Retries \in Nat /\ LateAnswers \in BOOLEAN
  /\ SigBudgets \subseteq
       [role : {"master", "slave"}, updates : Nat, channels : Nat, events : Nat, asks : Nat]

VARIABLES
  link,          \* "up", "closing" (disconnectInitiated) or "down" (disconnected)
  host,          \* of this end, see Init
  toHost,        \* responses under way
  asked,         \* requests the peer has received and not answered
  deferred,      \* how many requests of the peer the application has not answered
  answers,       \* history: per call of updateConnParams, what its callback was called with
  verdicts,      \* history: the peer's answers, by the number of the request
  matched,       \* history: each response that reached a callback was to its own request
  strayed,       \* history: an answer was sent on a link that is gone
  budget

vars == <<link, host, toHost, asked, deferred, answers, verdicts, matched, strayed, budget>>
history == <<verdicts, matched, strayed>>

IsSlave == budget.role = "slave"
None == [number |-> 0, id |-> 0, code |-> "none"]
Idle == [doing |-> "nothing", upTo |-> 0, hook |-> FALSE, accept |-> FALSE, tries |-> 0]

Init ==
  /\ link = "up"
  /\ host = [queue   |-> <<>>,    \* connUpdateQueue
             update  |-> Idle,    \* the run for the first parameters of the queue
             command |-> 0,       \* of a master: what the controller was told
             active  |-> [i \in 1 .. MaxId |-> None],   \* activeIdentifiers
             nextId  |-> 1,
             timers  |-> {},      \* requests whose 30 s timer runs
             toPeer  |-> <<>>,    \* requests under way
             sent    |-> <<>>]    \* history: parameters sent to the peer or controller
  /\ toHost = <<>> /\ asked = {} /\ deferred = 0
  /\ answers = <<>> /\ verdicts = {} /\ matched = TRUE /\ strayed = FALSE
  /\ budget \in SigBudgets

ToSet(s) == {s[i] : i \in DOMAIN s}
Spend(what) == budget[what] > 0 /\ budget' = [budget EXCEPT ![what] = @ - 1]

-----------------------------------------------------------------------------
(* Requests of this end: l2capSignalingSendRequest. *)

AfterId(i) == IF i = MaxId THEN 1 ELSE i + 1

\* allocateIdentifier does not look whether the identifier is in use.
SentRequest(h, number, code) ==
  LET r == [number |-> number, id |-> h.nextId, code |-> code]
  IN [h EXCEPT !.active[h.nextId] = r, !.nextId = AfterId(@), !.timers = @ \cup {r},
               !.toPeer = Append(@, r)]

\* What the model asks of the application instead, wherever it makes a request (in a
\* callback, too): that a request is settled, and its answer no longer under way, before
\* nearly MaxId more are sent.
IdsAreFree ==
  \A r \in host.timers \cup asked \cup ToSet(toHost) \cup ToSet(host.toPeer) :
    r.id \notin {host.nextId, AfterId(host.nextId)}

-----------------------------------------------------------------------------
(* nextConnParamUpdate *)

\* Of all parameters in the queue the last are used.
Parameters(q) == q[Len(q)]

\* A slave asks the peer, unless the link is down; a master gives the controller a command,
\* unless it is being closed.
NextUpdate(h) ==
  IF h.queue = <<>> THEN [h EXCEPT !.update = Idle]
  ELSE IF link = "down" \/ (~IsSlave /\ link = "closing")
  THEN [h EXCEPT !.update = [Idle EXCEPT !.doing = "given up"]]
  ELSE LET run == [Idle EXCEPT !.upTo = Len(h.queue), !.tries = Retries]
           number == Parameters(h.queue)
           noted == [h EXCEPT !.sent = Append(@, number)]
       IN IF IsSlave
          THEN SentRequest([noted EXCEPT !.update = [run EXCEPT !.doing = "asking", !.hook = TRUE]],
                           number, "update")
          ELSE [noted EXCEPT !.update = [run EXCEPT !.doing = "updating"], !.command = number]

\* What a callback is called with. (Slip: parameters that were never sent are told of the
\* response, too.)
StatusOfAll(i, status) == status
StatusOf(i, status) == IF IsSlave /\ i < host.update.upTo THEN -2 ELSE status

\* The callbacks of the parameters the run is for, in order. The application may ask for
\* others in a callback (n of them): they wait until the last callback has returned.
Done(h, status) ==
  \E n \in 0 .. 1 :
    LET upTo == host.update.upTo
        fresh == [i \in 1 .. n |-> Len(answers) + i]
        rest == SubSeq(h.queue, upTo + 1, Len(h.queue)) \o fresh
    IN /\ n <= budget.updates /\ (n > 0 /\ IsSlave => IdsAreFree)
       /\ budget' = [budget EXCEPT !.updates = @ - n]
       /\ answers' = [k \in 1 .. Len(answers) + n |->
            IF k > Len(answers) THEN <<>>
            ELSE answers[k] \o [i \in 1 .. Cardinality({j \in 1 .. upTo : h.queue[j] = k}) |->
                                  StatusOf(CHOOSE j \in 1 .. upTo : h.queue[j] = k, status)]]
       /\ host' = NextUpdate([h EXCEPT !.queue = rest])

\* updateConnParams starts a run unless there is one. (Slip: it always does.)
StartsRunAlways(q) == TRUE
StartsRun(q) == Len(q) = 1

Updating(h) ==
  LET asking == [h EXCEPT !.queue = Append(@, Len(answers) + 1)]
  IN /\ answers' = Append(answers, <<>>)
     /\ host' = IF StartsRun(asking.queue) THEN NextUpdate(asking) ELSE asking

UpdateConnParams ==
  /\ link # "down" /\ Spend("updates") /\ (IsSlave => IdsAreFree)
  /\ Updating(host)
  /\ UNCHANGED <<link, toHost, asked, deferred, history>>

-----------------------------------------------------------------------------
(* The update by a master. *)

\* The command fails, at once or when it was to take place, or succeeds.
CommandEnds(status) ==
  /\ link # "down" /\ host.update.doing = "updating"
  /\ IF status # 0 /\ host.update.tries > 0
     THEN /\ host' = [host EXCEPT !.command = 0, !.update.doing = "pausing", !.update.tries = @ - 1]
          /\ UNCHANGED <<answers, budget>>
     ELSE Done([host EXCEPT !.command = 0], status)
  /\ UNCHANGED <<link, toHost, asked, deferred, history>>

\* The timer after a failure: the same parameters again, unless there are newer ones.
RetriesSame == host.update.upTo = Len(host.queue)

RetryTimer ==
  /\ host.update.doing = "pausing" /\ link # "down"
  /\ host' = LET number == host.queue[host.update.upTo]
             IN CASE ~RetriesSame -> NextUpdate(host)
                  [] RetriesSame /\ link = "closing" -> [host EXCEPT !.update.doing = "given up"]
                  [] RetriesSame /\ link = "up" ->
                       [host EXCEPT !.update.doing = "updating", !.command = number,
                                    !.sent = Append(@, number)]
  /\ UNCHANGED <<link, toHost, asked, deferred, answers, history, budget>>

-----------------------------------------------------------------------------
(* The update by a slave. *)

\* The connection was updated, which the peer may do without being asked: either this or
\* the response comes first, and the second ends the run.
ConnectionUpdate ==
  /\ IsSlave /\ link # "down" /\ budget.events > 0
  /\ IF host.update.doing = "waiting"
     THEN Done(host, 0)
     ELSE /\ host' = [host EXCEPT !.update.hook = FALSE]
          /\ budget' = [budget EXCEPT !.events = @ - 1] /\ UNCHANGED answers
  /\ UNCHANGED <<link, toHost, asked, deferred, history>>

\* 30 s without an update.
UpdateTimer ==
  /\ host.update.doing = "waiting" /\ link # "down"
  /\ Done(host, 0)
  /\ UNCHANGED <<link, toHost, asked, deferred, history>>

\* The callback of an update request.
MustWait(answer) == answer = "accept" /\ host.update.hook

UpdateAnswered(h, answer) ==
  IF MustWait(answer)
  THEN /\ host' = [h EXCEPT !.update.doing = "waiting", !.update.accept = TRUE]
       /\ UNCHANGED <<answers, budget>>
  ELSE Done(h, IF answer = "accept" THEN 0 ELSE 1)

-----------------------------------------------------------------------------
(* Channels of this end, and what the peer sends. *)

Connect ==
  /\ link # "down" /\ Spend("channels") /\ IdsAreFree
  /\ host' = SentRequest(host, -budget.channels, "channel")
  /\ UNCHANGED <<link, toHost, asked, deferred, answers, history>>

\* The handler of a request that ended without a response. (Slip: a channel's only.)
FailedSilently(h, r) == host' = h /\ UNCHANGED <<answers, budget>>
Failed(h, r) ==
  IF r.code = "update" THEN Done(h, -1) ELSE host' = h /\ UNCHANGED <<answers, budget>>

\* A response frees the identifier and stops the timer of its request, and is ignored when
\* none has the identifier or it expects another code. A reject counts as a timeout.
\* (Slip: the timer goes on.)
WithoutButTimer(h, r) == [h EXCEPT !.active[r.id] = None]
Without(h, r) == [h EXCEPT !.active[r.id] = None, !.timers = @ \ {r}]

HandleResponse ==
  /\ toHost # <<>> /\ link # "down"
  /\ toHost' = Tail(toHost)
  /\ LET m == Head(toHost)
         r == host.active[m.id]
     IN IF r = None \/ (m.code # r.code /\ m.answer # "reject")
        THEN UNCHANGED <<host, answers, matched, budget>>
        ELSE /\ matched' = (matched /\ m.number = r.number)
             /\ CASE m.answer = "reject" -> Failed(Without(host, r), r)
                  [] m.answer # "reject" /\ r.code = "update" ->
                       UpdateAnswered(Without(host, r), m.answer)
                  [] OTHER -> host' = Without(host, r) /\ UNCHANGED <<answers, budget>>
  /\ UNCHANGED <<link, asked, deferred, verdicts, strayed>>

\* 30 s without a response.
RequestTimesOut(r) ==
  /\ r \in host.timers /\ link # "down"
  /\ Failed([host EXCEPT !.active[r.id] = None, !.timers = @ \ {r}], r)
  /\ UNCHANGED <<link, toHost, asked, deferred, history>>

\* The peer, as the master, asks for an update: with nobody listening it is accepted and
\* the update started, else the application answers when it likes.
HandleUpdateRequest(listening) ==
  /\ ~IsSlave /\ link # "down" /\ budget.asks > 0
  /\ budget' = [budget EXCEPT !.asks = @ - 1]
  /\ IF listening THEN deferred' = deferred + 1 /\ UNCHANGED <<host, answers>>
     ELSE Updating(host) /\ UNCHANGED deferred
  /\ UNCHANGED <<link, toHost, asked, history>>

\* The answer is sent by the handle of the connection, whoever has it now.
AnswerUpdateRequest ==
  /\ deferred > 0 /\ (link # "down" \/ LateAnswers)
  /\ deferred' = deferred - 1
  /\ strayed' = (link = "down")
  /\ UNCHANGED <<link, host, toHost, asked, answers, verdicts, matched, budget>>

-----------------------------------------------------------------------------
(* The link and the peer. *)

PeerReceives ==
  /\ host.toPeer # <<>> /\ link # "down"
  /\ host' = [host EXCEPT !.toPeer = Tail(@)]
  /\ asked' = asked \cup {Head(host.toPeer)}
  /\ UNCHANGED <<link, toHost, deferred, answers, history, budget>>

PeerAnswers(r, answer) ==
  /\ r \in asked /\ link # "down"
  /\ asked' = asked \ {r}
  /\ toHost' = Append(toHost, [number |-> r.number, id |-> r.id, code |-> r.code, answer |-> answer])
  /\ verdicts' = verdicts \cup {<<r.number, answer>>}
  /\ UNCHANGED <<link, host, deferred, answers, matched, strayed, budget>>

PeerIgnores(r) ==
  /\ r \in asked /\ link # "down"
  /\ asked' = asked \ {r}
  /\ UNCHANGED <<link, host, toHost, deferred, answers, history, budget>>

Disconnect ==
  /\ link = "up" /\ link' = "closing"
  /\ UNCHANGED <<host, toHost, asked, deferred, answers, history, budget>>

\* The timers of the connection are cleared; what was under way is lost.
LinkDown ==
  /\ link # "down" /\ link' = "down"
  /\ host' = [host EXCEPT !.timers = {}, !.toPeer = <<>>, !.command = 0]
  /\ toHost' = <<>> /\ asked' = {}
  /\ UNCHANGED <<deferred, answers, history, budget>>

Works ==
  \/ \E s \in 0 .. 1 : CommandEnds(s) \/ RetryTimer \/ UpdateTimer
  \/ HandleResponse \/ \E r \in host.timers : RequestTimesOut(r)
  \/ PeerReceives
  \/ \E r \in asked : PeerIgnores(r) \/ \E a \in {"accept", "refuse", "reject"} : PeerAnswers(r, a)

Next ==
  \/ Works
  \/ UpdateConnParams \/ Connect \/ ConnectionUpdate
  \/ \E l \in BOOLEAN : HandleUpdateRequest(l)
  \/ AnswerUpdateRequest
  \/ Disconnect \/ LinkDown

\* Commands end, timers run out, packets arrive, and the peer answers or never will. (The
\* events of a behaviour are few, so that one condition for all of them is enough.)
Fairness == WF_vars(Works)

Spec == Init /\ [][Next]_vars
FairSpec == Spec /\ Fairness

-----------------------------------------------------------------------------
(* Properties. *)

\* A callback of updateConnParams is called at most once, and says what happened: 0 and 1
\* what the peer answered to these very parameters, -1 that it got them and did not answer
\* in time (or rejected them), -2 that they were never sent (docs/api/ble-manager.md:286).
AnswersAreTruthful ==
  \A k \in DOMAIN answers :
    /\ Len(answers[k]) <= 1
    /\ \A i \in DOMAIN answers[k] :
         LET status == answers[k][i]
         IN IsSlave => /\ status = 0 => <<k, "accept">> \in verdicts
                       /\ status = 1 => <<k, "refuse">> \in verdicts
                       /\ status = -1 => /\ k \in ToSet(host.sent)
                                         /\ \A r \in host.timers : r.number # k
                       /\ status = -2 => k \notin ToSet(host.sent)

\* There is never a second update request or command while one is outstanding, whichever
\* of its response, timer, update event and newer parameters come first.
OneUpdateAtATime ==
  /\ Cardinality({r \in host.timers : r.code = "update"}) <= 1
  /\ host.command # 0 => host.update.doing = "updating"
  /\ \A r \in host.timers : r.code = "update" => host.update.doing \in {"asking", "given up"}

\* Each response reaches the request it answers, and identifiers and timers agree: no
\* timer is left to strike a later request with the same identifier.
RequestsAreTheirOwn ==
  /\ matched
  /\ link # "down" => {host.active[i] : i \in 1 .. MaxId} \ {None} = host.timers

\* With nothing left to do, the parameters that were sent last are those asked for last.
LastParametersWin ==
  host.queue = <<>> /\ answers # <<>> => host.sent[Len(host.sent)] = Len(answers)

\* Updates go one after the other, and it is the last one that counts.
UpdatesAreSerial == OneUpdateAtATime /\ LastParametersWin

\* Every callback of updateConnParams is called, unless the connection goes away.
Unanswered(k) == link = "up" /\ k \in DOMAIN answers /\ answers[k] = <<>>
EveryUpdateAnswered == \A k \in 1 .. 4 : Unanswered(k) ~> ~Unanswered(k)

\* The answer to a request of the peer goes to that peer: the callback of
\* 'updateConnParamsRequest' may be called at any time, also when the connection is gone
\* and its handle is another's.
AnswersReachTheAsker == ~strayed
=============================================================================
