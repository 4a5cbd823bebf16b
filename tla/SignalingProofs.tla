-------------------------- MODULE SignalingProofs --------------------------
(***************************************************************************)
(* Proofs about Signaling, for any number of identifiers, retries and      *)
(* requests: each response reaches the request it answers, updates of the  *)
(* connection parameters go one after the other, and each callback says    *)
(* what became of its own.                                                 *)
(***************************************************************************)
EXTENDS Signaling, FiniteSetTheorems, SequenceTheorems, TLAPS

-----------------------------------------------------------------------------
(* Types. *)

Requests == [number : Int, id : 1 .. MaxId, code : {"update", "channel"}]
Verdicts == {"accept", "refuse", "reject"}
Responses == [number : Int, id : 1 .. MaxId, code : {"update", "channel"}, answer : Verdicts]
Running == {"asking", "waiting", "updating", "pausing"}
Runs == [doing : Running \cup {"nothing", "given up"}, upTo : Nat, hook : BOOLEAN,
         accept : BOOLEAN, tries : Nat]
Hosts == [queue : Seq(Nat), update : Runs, command : Nat,
          active : [1 .. MaxId -> Requests \cup {None}], nextId : 1 .. MaxId,
          timers : SUBSET Requests, toPeer : Seq(Requests), sent : Seq(Nat)]
Budgets ==
  [role : {"master", "slave"}, updates : Nat, channels : Nat, events : Nat, asks : Nat]

\* What the callbacks of each call were called with.
Tellings == Seq(Seq(Int))

SigTypes ==
  /\ link \in {"up", "closing", "down"}
  /\ host \in Hosts
  /\ toHost \in Seq(Responses) /\ asked \in SUBSET Requests
  /\ answers \in Tellings /\ budget \in Budgets

-----------------------------------------------------------------------------
(* The invariant, in parts that are about a record of this end, so that they can be said of *)
(* the records between two assignments of a handler, too.                                   *)

\* An identifier is active exactly while the timer of its request runs.
TimersAgree(h) ==
  /\ \A r \in h.timers : h.active[r.id] = r
  /\ \A i \in 1 .. MaxId : h.active[i] # None => h.active[i].id = i /\ h.active[i] \in h.timers

\* What is under way, and the peer has, belongs to the request that is active under its
\* identifier, if one is.
OnTheWay(h) == asked \cup ToSet(toHost) \cup ToSet(h.toPeer)
AnswersAgree(h) ==
  \A x \in OnTheWay(h) : h.active[x.id] = None \/ h.active[x.id].number = x.number

\* The next identifier is not in use, nor anything with it under way.
NextIsFree(h) == \A x \in h.timers \cup OnTheWay(h) : x.id # h.nextId

\* The parameters that wait behind a run find a free identifier when it ends.
RoomForNext(h) == IsSlave /\ Len(h.queue) > h.update.upTo => NextIsFree(h)

\* The queue holds the last calls of updateConnParams.
QueueIsLast(h, ans) ==
  /\ Len(h.queue) <= Len(ans)
  /\ \A i \in 1 .. Len(h.queue) : h.queue[i] = Len(ans) - Len(h.queue) + i

LastSent(h) == h.sent[Len(h.sent)]

\* A run is for parameters of the queue that were sent last, by the means of the role; a
\* request of a slave is its only one.
RunAgrees(h, ans) ==
  /\ \A r \in h.timers :
       IF r.code = "update"
       THEN IsSlave /\ h.update.doing = "asking" /\ r.number = h.queue[h.update.upTo]
       ELSE r.number < 0
  /\ \A r, s \in h.timers : r.code = "update" /\ s.code = "update" => r = s
  /\ h.update.doing \in {"asking", "waiting"} => IsSlave
  /\ h.update.doing \in {"updating", "pausing"} => ~IsSlave
  /\ h.command # 0 => h.update.doing = "updating"
  /\ h.update.doing = "nothing" <=> h.queue = <<>>
  /\ h.update.upTo <= Len(h.queue)
  /\ h.update.doing \in Running =>
       h.update.upTo > 0 /\ h.sent # <<>> /\ LastSent(h) = h.queue[h.update.upTo]
  /\ h.update.doing = "given up" => ~IsSlave
  /\ h.queue = <<>> /\ ans # <<>> => h.sent # <<>> /\ LastSent(h) = Len(ans)

\* What was sent were parameters of calls, and of those of a slave that wait only the run's.
SentAgrees(h, ans) ==
  /\ \A x \in ToSet(h.sent) : x \in 1 .. Len(ans)
  /\ IsSlave => \A j \in 1 .. Len(h.queue) : h.queue[j] \in ToSet(h.sent) => j = h.update.upTo

\* Callbacks were called at most once, in the queue not yet, and with what happened.
Told(h, ans) ==
  /\ \A k \in 1 .. Len(ans) :
       Len(ans[k]) <= 1 /\ (k > Len(ans) - Len(h.queue) => ans[k] = <<>>)
  /\ IsSlave => \A k \in 1 .. Len(ans) : Len(ans[k]) = 1 =>
       /\ ans[k][1] = 0 => <<k, "accept">> \in verdicts
       /\ ans[k][1] = 1 => <<k, "refuse">> \in verdicts
       /\ ans[k][1] = -1 => k \in ToSet(h.sent) /\ \A r \in h.timers : r.number # k
       /\ ans[k][1] = -2 => k \notin ToSet(h.sent)

\* What a slave waits for after the response was accepted.
Accepted(h) == h.update.doing = "waiting" => <<h.queue[h.update.upTo], "accept">> \in verdicts

UpdateAgrees(h, ans) ==
  QueueIsLast(h, ans) /\ RunAgrees(h, ans) /\ SentAgrees(h, ans) /\ Told(h, ans) /\ Accepted(h)

\* Verdicts are those of the responses under way.
VerdictsAgree == \A m \in ToSet(toHost) : <<m.number, m.answer>> \in verdicts

SigInv ==
  /\ SigTypes
  /\ matched
  /\ link # "down" => TimersAgree(host)
  /\ AnswersAgree(host) /\ RoomForNext(host)
  /\ UpdateAgrees(host, answers)
  /\ VerdictsAgree

-----------------------------------------------------------------------------
(* Sequences. *)

\* Appending adds one element, at the end.
LEMMA AppendElement ==
  ASSUME NEW S, NEW s \in Seq(S), NEW e \in S
  PROVE  /\ Append(s, e) \in Seq(S) /\ Append(s, e) # <<>>
         /\ Len(Append(s, e)) = Len(s) + 1
         /\ \A i \in 1 .. Len(s) : Append(s, e)[i] = s[i]
         /\ Append(s, e)[Len(s) + 1] = e
         /\ ToSet(Append(s, e)) = ToSet(s) \cup {e}
<1>1. /\ Append(s, e) \in Seq(S) /\ Len(Append(s, e)) = Len(s) + 1
      /\ \A i \in 1 .. Len(s) : Append(s, e)[i] = s[i]
      /\ Append(s, e)[Len(s) + 1] = e
      /\ Len(s) \in Nat
  BY AppendProperties, LenProperties
<1>2. Append(s, e) # <<>>
  BY <1>1, EmptySeq
<1>3. DOMAIN s = 1 .. Len(s) /\ DOMAIN Append(s, e) = 1 .. Len(s) + 1
  BY <1>1, LenProperties
<1> DEFINE t == Append(s, e)
<1> HIDE DEF t
<1>4. {t[i] : i \in 1 .. Len(s) + 1} = {s[i] : i \in 1 .. Len(s)} \cup {e}
  BY <1>1 DEF t
<1>5. QED
  BY <1>1, <1>2, <1>3, <1>4 DEF ToSet, t

\* The tail has no other elements.
LEMMA TailElements ==
  ASSUME NEW S, NEW s \in Seq(S), s # <<>>
  PROVE  Tail(s) \in Seq(S) /\ ToSet(Tail(s)) \subseteq ToSet(s) /\ Head(s) \in ToSet(s)
         /\ Head(s) \in S
<1>1. /\ Len(s) \in Nat \ {0} /\ Head(s) = s[1] /\ Head(s) \in S
      /\ Tail(s) \in Seq(S) /\ Len(Tail(s)) = Len(s) - 1
      /\ \A i \in 1 .. Len(Tail(s)) : Tail(s)[i] = s[i + 1]
  BY HeadTailProperties, EmptySeq, LenProperties
<1>2. DOMAIN s = 1 .. Len(s) /\ DOMAIN Tail(s) = 1 .. Len(s) - 1
  BY <1>1, LenProperties
<1>3. \A i \in 1 .. Len(s) - 1 : i + 1 \in 1 .. Len(s) /\ Tail(s)[i] = s[i + 1]
  BY <1>1
<1>4. ToSet(Tail(s)) \subseteq ToSet(s)
  BY <1>2, <1>3 DEF ToSet
<1>5. 1 \in DOMAIN s
  BY <1>1, <1>2
<1>6. QED
  BY <1>1, <1>4, <1>5 DEF ToSet

\* The elements of a sequence are the values at its positions.
LEMMA ToSetOf ==
  ASSUME NEW S, NEW s \in Seq(S)
  PROVE  /\ ToSet(s) \subseteq S /\ DOMAIN s = 1 .. Len(s) /\ Len(s) \in Nat
         /\ \A i \in 1 .. Len(s) : s[i] \in ToSet(s)
         /\ \A x \in ToSet(s) : \E i \in 1 .. Len(s) : x = s[i]
<1>1. DOMAIN s = 1 .. Len(s) /\ Len(s) \in Nat /\ \A i \in 1 .. Len(s) : s[i] \in S
  BY LenProperties, ElementOfSeq
<1>2. QED
  BY <1>1 DEF ToSet

-----------------------------------------------------------------------------
(* Requests. *)

\* The fields of a record of this end.
LEMMA HostFields ==
  ASSUME NEW h \in Hosts
  PROVE  /\ h.queue \in Seq(Nat) /\ h.update \in Runs /\ h.command \in Nat
         /\ h.active \in [1 .. MaxId -> Requests \cup {None}] /\ h.nextId \in 1 .. MaxId
         /\ h.timers \in SUBSET Requests /\ h.toPeer \in Seq(Requests) /\ h.sent \in Seq(Nat)
BY DEF Hosts

\* No request is the one that stands for none.
LEMMA NoneIsNone == None \notin Requests /\ \A r \in Requests : r.id \in 1 .. MaxId /\ r.id # 0
BY SignalingAssumption DEF None, Requests

\* What is under way has an identifier.
LEMMA OnTheWayIds ==
  ASSUME SigTypes, NEW h \in Hosts
  PROVE  \A x \in OnTheWay(h) : x.id \in 1 .. MaxId
<1>1. \A m \in Responses : m.id \in 1 .. MaxId
  BY DEF Responses
<1>2. toHost \in Seq(Responses) /\ asked \subseteq Requests
  BY DEF SigTypes
<1>3. ToSet(toHost) \subseteq Responses
  BY <1>2, ToSetOf
<1>4. ToSet(h.toPeer) \subseteq Requests
  BY HostFields, ToSetOf
<1>5. QED
  BY <1>1, <1>2, <1>3, <1>4, NoneIsNone DEF OnTheWay

\* The record of the callbacks is a sequence of sequences.
LEMMA TellingProperties ==
  ASSUME NEW ans \in Tellings
  PROVE  /\ Len(ans) \in Nat /\ (ans = <<>> <=> Len(ans) = 0) /\ DOMAIN ans = 1 .. Len(ans)
         /\ \A k \in 1 .. Len(ans) : ans[k] \in Seq(Int)
<1>1. ans \in Seq(Seq(Int))
  BY DEF Tellings
<1>2. QED
  BY <1>1, LenProperties, ElementOfSeq, EmptySeq

\* The next identifier is another one.
LEMMA AfterIdProperties ==
  ASSUME NEW i \in 1 .. MaxId
  PROVE  AfterId(i) \in 1 .. MaxId /\ AfterId(i) # i
BY SignalingAssumption DEF AfterId

\* The requests there are. (An operator, for the provers to match.)
Codes == {"update", "channel"}

\* g is what h becomes when it sends the request r.
Sends(h, number, code, r, g) ==
  /\ r = [number |-> number, id |-> h.nextId, code |-> code]
  /\ g = SentRequest(h, number, code)

\* What h has then changed.
HasSent(h, number, r, g) ==
  /\ g \in Hosts /\ r \in Requests /\ r.id = h.nextId /\ r.number = number
  /\ g.queue = h.queue /\ g.update = h.update /\ g.command = h.command
  /\ g.sent = h.sent /\ g.nextId = AfterId(h.nextId)
  /\ g.active = [h.active EXCEPT ![h.nextId] = r]
  /\ g.timers = h.timers \cup {r} /\ g.toPeer = Append(h.toPeer, r)

\* Sending a request does what HasSent says.
LEMMA SentRequestFields ==
  ASSUME NEW h \in Hosts, NEW number \in Int, NEW code \in Codes,
         NEW r, NEW g, Sends(h, number, code, r, g)
  PROVE  HasSent(h, number, r, g)
<1>0. r.id = h.nextId /\ r.number = number /\ r.code = code /\ g = SentRequest(h, number, code)
  BY DEF Sends
<1>1. r \in Requests
  BY HostFields DEF Sends, Requests, Codes
<1>2. AfterId(h.nextId) \in 1 .. MaxId
  BY HostFields, AfterIdProperties
<1>3. Append(h.toPeer, r) \in Seq(Requests)
  BY <1>1, HostFields
<1>4. h.active \in [1 .. MaxId -> Requests \cup {None}] /\ h.nextId \in 1 .. MaxId
  BY HostFields
<1>5. [h.active EXCEPT ![h.nextId] = r] \in [1 .. MaxId -> Requests \cup {None}]
  BY <1>1, <1>4
<1>6. g = [h EXCEPT !.active = [@ EXCEPT ![h.nextId] = r], !.nextId = AfterId(@),
                 !.timers = @ \cup {r}, !.toPeer = Append(@, r)]
  BY DEF Sends, SentRequest, Hosts
<1>7. h.timers \cup {r} \in SUBSET Requests
  BY <1>1, HostFields
<1>8. QED
  BY <1>0, <1>1, <1>2, <1>3, <1>5, <1>6, <1>7 DEF Hosts, HasSent

\* A request with a free identifier takes nothing from an earlier one.
LEMMA SentRequestIds ==
  ASSUME SigTypes, NEW h \in Hosts, NEW number \in Int, NEW code \in Codes,
         TimersAgree(h), AnswersAgree(h), NextIsFree(h)
  PROVE  /\ TimersAgree(SentRequest(h, number, code))
         /\ AnswersAgree(SentRequest(h, number, code))
<1> DEFINE r == [number |-> number, id |-> h.nextId, code |-> code]
           g == SentRequest(h, number, code)
<1>0. Sends(h, number, code, r, g)
  BY DEF Sends
<1>1. /\ r \in Requests /\ r.id = h.nextId /\ r.number = number
      /\ g.active = [h.active EXCEPT ![h.nextId] = r]
      /\ g.timers = h.timers \cup {r} /\ g.toPeer = Append(h.toPeer, r)
  BY <1>0, SentRequestFields DEF HasSent
<1> HIDE DEF r, g
<1>2. /\ h.active \in [1 .. MaxId -> Requests \cup {None}] /\ h.nextId \in 1 .. MaxId
      /\ h.timers \subseteq Requests /\ h.toPeer \in Seq(Requests)
  BY HostFields
<1>3. \A i \in 1 .. MaxId : g.active[i] = IF i = h.nextId THEN r ELSE h.active[i]
  BY <1>1, <1>2
<1>4. OnTheWay(g) = OnTheWay(h) \cup {r}
  BY <1>1, <1>2, AppendElement DEF OnTheWay
<1>5. \A x \in h.timers : x.id # h.nextId /\ x.id \in 1 .. MaxId
  BY <1>2, NoneIsNone DEF NextIsFree
<1>6. TimersAgree(g)
  BY <1>1, <1>2, <1>3, <1>5 DEF TimersAgree
<1>7. \A x \in OnTheWay(h) : x.id \in 1 .. MaxId
  BY OnTheWayIds
<1>8. AnswersAgree(g)
  BY <1>1, <1>2, <1>3, <1>4, <1>7 DEF AnswersAgree, NextIsFree
<1>9. QED
  BY <1>6, <1>8 DEF g

\* What settling a request changes.
LEMMA WithoutFields ==
  ASSUME NEW h \in Hosts, NEW r \in Requests
  PROVE  LET g == Without(h, r)
         IN /\ g \in Hosts
            /\ g.queue = h.queue /\ g.update = h.update /\ g.command = h.command
            /\ g.sent = h.sent /\ g.nextId = h.nextId /\ g.toPeer = h.toPeer
            /\ g.active = [h.active EXCEPT ![r.id] = None] /\ g.timers = h.timers \ {r}
<1>1. r.id \in 1 .. MaxId /\ h.active \in [1 .. MaxId -> Requests \cup {None}]
  BY HostFields, NoneIsNone
<1>2. [h.active EXCEPT ![r.id] = None] \in [1 .. MaxId -> Requests \cup {None}]
  BY <1>1
<1>3. Without(h, r) = [h EXCEPT !.active = [@ EXCEPT ![r.id] = None], !.timers = @ \ {r}]
  BY DEF Without, Hosts
<1>4. QED
  BY <1>2, <1>3 DEF Hosts

\* A request that is settled leaves the others as they were.
LEMMA WithoutIds ==
  ASSUME SigTypes, NEW h \in Hosts, NEW r \in Requests, TimersAgree(h), AnswersAgree(h),
         r \in h.timers
  PROVE  /\ TimersAgree(Without(h, r)) /\ AnswersAgree(Without(h, r))
         /\ NextIsFree(h) => NextIsFree(Without(h, r))
<1> DEFINE g == Without(h, r)
<1>1. /\ g.active = [h.active EXCEPT ![r.id] = None] /\ g.timers = h.timers \ {r}
      /\ g.toPeer = h.toPeer /\ g.nextId = h.nextId
  BY WithoutFields
<1> HIDE DEF g
<1>2. /\ h.active \in [1 .. MaxId -> Requests \cup {None}]
      /\ h.timers \subseteq Requests /\ r.id \in 1 .. MaxId
  BY HostFields, NoneIsNone
<1>3. \A i \in 1 .. MaxId : g.active[i] = IF i = r.id THEN None ELSE h.active[i]
  BY <1>1, <1>2
<1>4. OnTheWay(g) = OnTheWay(h)
  BY <1>1 DEF OnTheWay
<1>5. TimersAgree(g)
  <2>1. ASSUME NEW x \in g.timers PROVE g.active[x.id] = x
    <3>1. x \in h.timers /\ x # r /\ h.active[x.id] = x /\ h.active[r.id] = r
      BY <1>1 DEF TimersAgree
    <3>2. x.id # r.id /\ x.id \in 1 .. MaxId
      BY <1>2, <3>1, NoneIsNone
    <3>3. QED
      BY <1>3, <3>1, <3>2
  <2>2. ASSUME NEW i \in 1 .. MaxId, g.active[i] # None
        PROVE  g.active[i].id = i /\ g.active[i] \in g.timers
    <3>1. i # r.id /\ g.active[i] = h.active[i]
      BY <1>3, <2>2
    <3>2. h.active[i].id = i /\ h.active[i] \in h.timers
      BY <2>2, <3>1 DEF TimersAgree
    <3>3. QED
      BY <1>1, <3>1, <3>2
  <2>3. QED
    BY <2>1, <2>2 DEF TimersAgree
<1>6. \A x \in OnTheWay(h) : x.id \in 1 .. MaxId
  BY OnTheWayIds
<1>7. AnswersAgree(g)
  BY <1>3, <1>4, <1>6 DEF AnswersAgree
<1>8. NextIsFree(h) => NextIsFree(g)
  BY <1>1, <1>4 DEF NextIsFree
<1>9. QED
  BY <1>5, <1>7, <1>8 DEF g

-----------------------------------------------------------------------------
(* Between two runs: what holds when nextConnParamUpdate is called. *)

Between(h, ans) ==
  /\ TimersAgree(h) /\ AnswersAgree(h)
  /\ IsSlave /\ h.queue # <<>> => NextIsFree(h)
  /\ QueueIsLast(h, ans)
  /\ h.command = 0
  /\ \A r \in h.timers : r.code # "update" /\ r.number < 0
  /\ h.queue = <<>> /\ ans # <<>> => h.sent # <<>> /\ LastSent(h) = Len(ans)
  /\ \A x \in ToSet(h.sent) : x \in 1 .. Len(ans)
  /\ IsSlave => \A j \in 1 .. Len(h.queue) : h.queue[j] \notin ToSet(h.sent)
  /\ Told(h, ans)

\* The four things nextConnParamUpdate may do.
LEMMA NextUpdateCases ==
  ASSUME NEW h \in Hosts, h.queue # <<>>
  PROVE  LET run == [Idle EXCEPT !.upTo = Len(h.queue), !.tries = Retries]
             number == Parameters(h.queue)
             noted == [h EXCEPT !.sent = Append(@, number)]
             asking == [noted EXCEPT !.update = [run EXCEPT !.doing = "asking", !.hook = TRUE]]
         IN /\ number = h.queue[Len(h.queue)] /\ number \in Nat /\ Len(h.queue) \in Nat \ {0}
            /\ noted \in Hosts /\ asking \in Hosts
            /\ noted.sent = Append(h.sent, number)
            /\ noted.queue = h.queue /\ noted.command = h.command /\ noted.active = h.active
            /\ noted.nextId = h.nextId /\ noted.timers = h.timers /\ noted.toPeer = h.toPeer
            /\ asking.queue = h.queue /\ asking.command = h.command /\ asking.active = h.active
            /\ asking.nextId = h.nextId /\ asking.timers = h.timers
            /\ asking.toPeer = h.toPeer /\ asking.sent = noted.sent
            /\ asking.update.doing = "asking" /\ asking.update.upTo = Len(h.queue)
<1>1. h.queue \in Seq(Nat) /\ Len(h.queue) \in Nat \ {0}
  BY HostFields, EmptySeq, LenProperties
<1>2. h.queue[Len(h.queue)] \in Nat
  BY <1>1, ElementOfSeq
<1> DEFINE number == Parameters(h.queue)
           n == Len(h.queue)
<1>3. number \in Nat /\ number = h.queue[n] /\ n \in Nat \ {0}
  BY <1>1, <1>2 DEF Parameters
<1> HIDE DEF number, n
<1>4. Append(h.sent, number) \in Seq(Nat)
  BY <1>3, HostFields, AppendElement
<1> DEFINE run == [Idle EXCEPT !.upTo = n, !.tries = Retries]
           noted == [h EXCEPT !.sent = Append(@, number)]
           upd == [run EXCEPT !.doing = "asking", !.hook = TRUE]
           asking == [noted EXCEPT !.update = upd]
<1>5. upd \in Runs /\ upd.doing = "asking" /\ upd.upTo = n
  BY <1>3, SignalingAssumption DEF Runs, Idle, Running
<1> HIDE DEF upd
<1>6. /\ noted \in Hosts /\ noted.sent = Append(h.sent, number)
      /\ noted.queue = h.queue /\ noted.command = h.command /\ noted.active = h.active
      /\ noted.nextId = h.nextId /\ noted.timers = h.timers /\ noted.toPeer = h.toPeer
  BY <1>4 DEF Hosts
<1> HIDE DEF noted
<1>7. /\ asking \in Hosts
      /\ asking.queue = noted.queue /\ asking.command = noted.command
      /\ asking.active = noted.active /\ asking.nextId = noted.nextId
      /\ asking.timers = noted.timers /\ asking.toPeer = noted.toPeer
      /\ asking.sent = noted.sent /\ asking.update = upd
  BY <1>5, <1>6 DEF Hosts
<1>8. QED
  BY <1>3, <1>5, <1>6, <1>7 DEF number, n, upd, noted

\* No length is below zero.
LEMMA NothingIsLeast == \A n \in Nat : 0 <= n
OBVIOUS

\* Another run leaves the rest of the record.
LEMMA WithUpdate ==
  ASSUME NEW h \in Hosts, NEW u \in Runs
  PROVE  LET g == [h EXCEPT !.update = u]
         IN /\ g \in Hosts /\ g.update = u
            /\ g.queue = h.queue /\ g.command = h.command /\ g.sent = h.sent
            /\ g.nextId = h.nextId /\ g.toPeer = h.toPeer
            /\ g.active = h.active /\ g.timers = h.timers
BY DEF Hosts

\* A run that sends nothing.
LEMMA QuietUpdate ==
  ASSUME SigTypes, NEW h \in Hosts, NEW ans \in Tellings, Between(h, ans),
         NEW u \in Runs, u.upTo = 0,
         \/ u.doing = "nothing" /\ h.queue = <<>>
         \/ u.doing = "given up" /\ h.queue # <<>> /\ ~IsSlave
  PROVE  LET g == [h EXCEPT !.update = u]
         IN TimersAgree(g) /\ AnswersAgree(g) /\ RoomForNext(g) /\ UpdateAgrees(g, ans)
<1> DEFINE g == [h EXCEPT !.update = u]
<1>1. /\ g \in Hosts /\ g.update = u
      /\ g.queue = h.queue /\ g.command = h.command /\ g.sent = h.sent
      /\ g.nextId = h.nextId /\ g.toPeer = h.toPeer
      /\ g.active = h.active /\ g.timers = h.timers
  BY WithUpdate
<1> HIDE DEF g
<1>2. OnTheWay(g) = OnTheWay(h)
  BY <1>1 DEF OnTheWay
<1>3. TimersAgree(g) /\ AnswersAgree(g)
  <2>1. TimersAgree(h) /\ AnswersAgree(h)
    BY DEF Between
  <2>2. TimersAgree(g)
    BY <1>1, <2>1 DEF TimersAgree
  <2>3. AnswersAgree(g)
    BY <1>1, <1>2, <2>1 DEF AnswersAgree
  <2>4. QED
    BY <2>2, <2>3
<1>4. Len(h.queue) \in Nat /\ (h.queue = <<>> <=> Len(h.queue) = 0)
  BY HostFields, EmptySeq, LenProperties
<1>5. RoomForNext(g)
  BY <1>1, <1>2, <1>4 DEF Between, RoomForNext, NextIsFree
<1>6. QueueIsLast(g, ans) /\ Told(g, ans)
  BY <1>1 DEF Between, QueueIsLast, Told
<1>7. SentAgrees(g, ans)
  BY <1>1 DEF Between, SentAgrees
<1>8. RunAgrees(g, ans)
  <2>1. \A r \in g.timers : r.code # "update" /\ r.number < 0
    BY <1>1 DEF Between
  <2>2. g.command = 0
    BY <1>1 DEF Between
  <2>3. g.queue = <<>> /\ ans # <<>> => g.sent # <<>> /\ LastSent(g) = Len(ans)
    BY <1>1 DEF Between, LastSent
  <2>4. g.update.upTo <= Len(g.queue)
    <3>1. g.update.upTo = 0 /\ Len(g.queue) = Len(h.queue)
      BY <1>1
    <3>2. Len(g.queue) \in Nat
      BY <1>4, <3>1
    <3>3. QED
      BY <3>1, <3>2, NothingIsLeast, Zenon
  <2>5. /\ g.update.doing \notin Running
        /\ g.update.doing = "nothing" <=> g.queue = <<>>
        /\ g.update.doing = "given up" => ~IsSlave
    BY <1>1 DEF Running
  <2>6. QED
    BY <2>1, <2>2, <2>3, <2>4, <2>5 DEF RunAgrees, Running
<1>9. Accepted(g)
  BY <1>1 DEF Accepted
<1>10. QED
  BY <1>3, <1>5, <1>6, <1>7, <1>8, <1>9 DEF UpdateAgrees, g

\* What a run sends is the last of the queue, which was not sent before.
LEMMA SendingAgrees ==
  ASSUME NEW h \in Hosts, NEW ans \in Tellings, Between(h, ans), h.queue # <<>>,
         NEW g \in Hosts, g.queue = h.queue,
         g.sent = Append(h.sent, h.queue[Len(h.queue)]), g.update.upTo = Len(h.queue)
  PROVE  /\ QueueIsLast(g, ans) /\ SentAgrees(g, ans)
         /\ g.sent # <<>> /\ LastSent(g) = Len(ans) /\ h.queue[Len(h.queue)] = Len(ans)
         /\ ToSet(g.sent) = ToSet(h.sent) \cup {Len(ans)}
         /\ Len(ans) \in Nat \ {0}
<1>1. h.queue \in Seq(Nat) /\ Len(h.queue) \in Nat \ {0} /\ h.sent \in Seq(Nat)
  BY HostFields, EmptySeq, LenProperties
<1>2. Len(ans) \in Nat
  BY TellingProperties
<1>3. /\ Len(h.queue) <= Len(ans)
      /\ \A i \in 1 .. Len(h.queue) : h.queue[i] = Len(ans) - Len(h.queue) + i
  BY DEF Between, QueueIsLast
<1>4. Len(h.queue) \in 1 .. Len(h.queue)
  BY <1>1
<1>5. h.queue[Len(h.queue)] = Len(ans) /\ Len(ans) \in Nat \ {0}
  <2> DEFINE n == Len(h.queue)
             m == Len(ans)
  <2>1. n \in Nat \ {0} /\ m \in Nat /\ n <= m /\ h.queue[n] = m - n + n
    BY <1>1, <1>2, <1>3, <1>4
  <2> HIDE DEF n, m
  <2>2. h.queue[n] = m /\ m \in Nat \ {0}
    BY <2>1
  <2>3. QED
    BY <2>2 DEF n, m
<1>6. /\ g.sent # <<>> /\ LastSent(g) = Len(ans)
      /\ ToSet(g.sent) = ToSet(h.sent) \cup {Len(ans)}
  <2>1. g.sent = Append(h.sent, Len(ans))
    BY <1>5
  <2>2. /\ g.sent # <<>> /\ Len(g.sent) = Len(h.sent) + 1
        /\ g.sent[Len(h.sent) + 1] = Len(ans)
        /\ ToSet(g.sent) = ToSet(h.sent) \cup {Len(ans)}
    <3>1. h.sent \in Seq(Nat) /\ Len(ans) \in Nat
      BY <1>1, <1>2
    <3>2. QED
      BY <2>1, <3>1, AppendElement
  <2>3. QED
    BY <2>2 DEF LastSent
<1>7. QueueIsLast(g, ans)
  BY <1>3 DEF QueueIsLast
<1>8. SentAgrees(g, ans)
  <2>1. \A x \in ToSet(g.sent) : x \in 1 .. Len(ans)
    BY <1>5, <1>6 DEF Between
  <2>2. ASSUME IsSlave, NEW j \in 1 .. Len(h.queue), h.queue[j] \in ToSet(g.sent)
        PROVE  j = Len(h.queue)
    <3>1. h.queue[j] \notin ToSet(h.sent)
      BY <2>2 DEF Between
    <3>2. h.queue[j] = Len(ans)
      BY <1>6, <2>2, <3>1
    <3>3. h.queue[j] = Len(ans) - Len(h.queue) + j
      BY <1>3
    <3> DEFINE n == Len(h.queue)
               m == Len(ans)
    <3>4. n \in Nat /\ m \in Nat
      BY <1>1, <1>2
    <3>5. m = m - n + j
      BY <3>2, <3>3, Zenon
    <3> HIDE DEF n, m
    <3>6. j \in 1 .. n
      BY DEF n
    <3>7. j = n
      BY <3>4, <3>5, <3>6
    <3>8. QED
      BY <3>7 DEF n
  <2>3. QED
    BY <2>1, <2>2 DEF SentAgrees
<1>9. QED
  BY <1>5, <1>6, <1>7, <1>8

\* Callbacks told so far are about other parameters than those sent now.
LEMMA SendingTold ==
  ASSUME NEW h \in Hosts, NEW ans \in Tellings, Between(h, ans), h.queue # <<>>,
         NEW g \in Hosts, g.queue = h.queue,
         ToSet(g.sent) = ToSet(h.sent) \cup {Len(ans)},
         \A r \in g.timers : r \in h.timers \/ r.number = Len(ans)
  PROVE  Told(g, ans)
<1>1. Len(h.queue) \in Nat \ {0} /\ Len(ans) \in Nat
  BY HostFields, EmptySeq, LenProperties, TellingProperties
<1>2. Len(h.queue) <= Len(ans)
  BY DEF Between, QueueIsLast
<1>3. Told(h, ans)
  BY DEF Between
<1>4. \A k \in 1 .. Len(ans) : Len(ans[k]) = 1 => k # Len(ans)
  <2>1. Len(ans) > Len(ans) - Len(h.queue)
    BY <1>1
  <2>2. Len(ans) \in 1 .. Len(ans) => ans[Len(ans)] = <<>>
    BY <1>3, <2>1 DEF Told
  <2>3. Len(ans) \in 1 .. Len(ans) => Len(ans[Len(ans)]) = 0
    BY <2>2, EmptySeq
  <2>4. QED
    BY <2>3
<1>5. QED
  BY <1>3, <1>4 DEF Told

\* A slave's run: the request is sent under a free identifier.
LEMMA AskingAgrees ==
  ASSUME SigTypes, NEW h \in Hosts, NEW ans \in Tellings, Between(h, ans), h.queue # <<>>,
         IsSlave, link = "up" \/ link = "closing"
  PROVE  LET g == NextUpdate(h)
         IN /\ g \in Hosts
            /\ TimersAgree(g) /\ AnswersAgree(g) /\ RoomForNext(g) /\ UpdateAgrees(g, ans)
<1> DEFINE run == [Idle EXCEPT !.upTo = Len(h.queue), !.tries = Retries]
           number == Parameters(h.queue)
           noted == [h EXCEPT !.sent = Append(@, number)]
           asking == [noted EXCEPT !.update = [run EXCEPT !.doing = "asking", !.hook = TRUE]]
           g == SentRequest(asking, number, "update")
           r == [number |-> number, id |-> asking.nextId, code |-> "update"]
<1>1. NextUpdate(h) = g
  BY DEF NextUpdate
<1>2. /\ number = h.queue[Len(h.queue)] /\ number \in Nat /\ Len(h.queue) \in Nat \ {0}
      /\ asking \in Hosts
      /\ noted.sent = Append(h.sent, number)
      /\ asking.queue = h.queue /\ asking.command = h.command /\ asking.active = h.active
      /\ asking.nextId = h.nextId /\ asking.timers = h.timers
      /\ asking.toPeer = h.toPeer /\ asking.sent = noted.sent
      /\ asking.update.doing = "asking" /\ asking.update.upTo = Len(h.queue)
  BY NextUpdateCases
<1> HIDE DEF run, number, noted, asking
<1>3. number \in Int
  BY <1>2
<1>a. Sends(asking, number, "update", r, g) /\ "update" \in Codes
  BY DEF Sends, Codes
<1>b. g = SentRequest(asking, number, "update") /\ r.number = number /\ r.code = "update"
  OBVIOUS
<1> HIDE DEF g, r
<1>4. /\ g \in Hosts /\ r \in Requests
      /\ g.queue = asking.queue /\ g.update = asking.update /\ g.command = asking.command
      /\ g.sent = asking.sent
      /\ g.timers = asking.timers \cup {r}
  <2>1. asking \in Hosts
    BY <1>2
  <2>2. HasSent(asking, number, r, g)
    BY <2>1, <1>3, <1>a, SentRequestFields, Zenon
  <2>3. QED
    BY <2>2 DEF HasSent
<1>5. TimersAgree(asking) /\ AnswersAgree(asking) /\ NextIsFree(asking)
  <2>1. OnTheWay(asking) = OnTheWay(h)
    BY <1>2 DEF OnTheWay
  <2>2. TimersAgree(h) /\ AnswersAgree(h) /\ NextIsFree(h)
    BY DEF Between
  <2>3. TimersAgree(asking)
    BY <1>2, <2>2 DEF TimersAgree
  <2>4. AnswersAgree(asking)
    BY <1>2, <2>1, <2>2 DEF AnswersAgree
  <2>5. NextIsFree(asking)
    BY <1>2, <2>1, <2>2 DEF NextIsFree
  <2>6. QED
    BY <2>3, <2>4, <2>5
<1>6. TimersAgree(g) /\ AnswersAgree(g)
  BY <1>2, <1>3, <1>5, <1>a, <1>b, SentRequestIds
<1>7. r.number = number /\ r.code = "update"
  BY <1>b
<1>8. /\ g.queue = h.queue /\ g.command = h.command /\ g.timers = h.timers \cup {r}
      /\ g.update.doing = "asking" /\ g.update.upTo = Len(h.queue)
      /\ g.sent = Append(h.sent, h.queue[Len(h.queue)])
  BY <1>2, <1>4
<1>9. /\ QueueIsLast(g, ans) /\ SentAgrees(g, ans)
      /\ g.sent # <<>> /\ LastSent(g) = Len(ans) /\ h.queue[Len(h.queue)] = Len(ans)
      /\ ToSet(g.sent) = ToSet(h.sent) \cup {Len(ans)}
  BY <1>4, <1>8, SendingAgrees
<1>10. \A x \in g.timers : x \in h.timers \/ x.number = Len(ans)
  BY <1>2, <1>7, <1>8, <1>9
<1>11. Told(g, ans)
  BY <1>4, <1>8, <1>9, <1>10, SendingTold
<1>12. RoomForNext(g)
  <2>1. ~(Len(g.queue) > g.update.upTo)
    BY <1>2, <1>8
  <2>2. QED
    BY <2>1 DEF RoomForNext
<1>13. RunAgrees(g, ans)
  <2>1. \A x \in h.timers : x.code # "update" /\ x.number < 0
    BY DEF Between
  <2>2. \A x \in g.timers :
          IF x.code = "update"
          THEN IsSlave /\ g.update.doing = "asking" /\ x.number = g.queue[g.update.upTo]
          ELSE x.number < 0
    BY <1>2, <1>7, <1>8, <2>1
  <2>3. \A x, y \in g.timers : x.code = "update" /\ y.code = "update" => x = y
    BY <1>8, <2>1
  <2>4. g.command = 0
    BY <1>8 DEF Between
  <2>5. /\ g.update.upTo <= Len(g.queue) /\ g.update.upTo > 0
        /\ LastSent(g) = g.queue[g.update.upTo]
    BY <1>2, <1>8, <1>9
  <2>6. QED
    BY <1>8, <1>9, <2>2, <2>3, <2>4, <2>5 DEF RunAgrees, Running
<1>14. Accepted(g)
  BY <1>8 DEF Accepted
<1>15. UpdateAgrees(g, ans)
  BY <1>9, <1>11, <1>13, <1>14 DEF UpdateAgrees
<1>16. QED
  BY <1>1, <1>4, <1>6, <1>12, <1>15

\* A master's run: the controller is given a command.
LEMMA UpdatingAgrees ==
  ASSUME SigTypes, NEW h \in Hosts, NEW ans \in Tellings, Between(h, ans), h.queue # <<>>,
         ~IsSlave, link = "up"
  PROVE  LET g == NextUpdate(h)
         IN /\ g \in Hosts
            /\ TimersAgree(g) /\ AnswersAgree(g) /\ RoomForNext(g) /\ UpdateAgrees(g, ans)
<1> DEFINE run == [Idle EXCEPT !.upTo = Len(h.queue), !.tries = Retries]
           number == Parameters(h.queue)
           noted == [h EXCEPT !.sent = Append(@, number)]
           upd == [run EXCEPT !.doing = "updating"]
           g == [noted EXCEPT !.update = upd, !.command = number]
<1>1. NextUpdate(h) = g
  BY DEF NextUpdate
<1>2. /\ number = h.queue[Len(h.queue)] /\ number \in Nat /\ Len(h.queue) \in Nat \ {0}
      /\ noted \in Hosts
      /\ noted.sent = Append(h.sent, number)
      /\ noted.queue = h.queue /\ noted.command = h.command /\ noted.active = h.active
      /\ noted.nextId = h.nextId /\ noted.timers = h.timers /\ noted.toPeer = h.toPeer
  BY NextUpdateCases
<1> HIDE DEF number, noted
<1>3. upd \in Runs /\ upd.doing = "updating" /\ upd.upTo = Len(h.queue)
  BY <1>2, SignalingAssumption DEF Runs, Idle, Running
<1> HIDE DEF upd
<1>4. /\ g \in Hosts /\ g.update = upd /\ g.command = number
      /\ g.queue = noted.queue /\ g.active = noted.active /\ g.sent = noted.sent
      /\ g.nextId = noted.nextId /\ g.timers = noted.timers /\ g.toPeer = noted.toPeer
  BY <1>2, <1>3 DEF Hosts
<1> HIDE DEF g
<1>5. /\ g.queue = h.queue /\ g.timers = h.timers /\ g.active = h.active
      /\ g.toPeer = h.toPeer
      /\ g.update.doing = "updating" /\ g.update.upTo = Len(h.queue)
      /\ g.sent = Append(h.sent, h.queue[Len(h.queue)])
  BY <1>2, <1>3, <1>4
<1>6. TimersAgree(g) /\ AnswersAgree(g)
  <2>1. OnTheWay(g) = OnTheWay(h)
    BY <1>5 DEF OnTheWay
  <2>2. TimersAgree(h) /\ AnswersAgree(h)
    BY DEF Between
  <2>3. TimersAgree(g)
    BY <1>5, <2>2 DEF TimersAgree
  <2>4. AnswersAgree(g)
    BY <1>5, <2>1, <2>2 DEF AnswersAgree
  <2>5. QED
    BY <2>3, <2>4
<1>7. /\ QueueIsLast(g, ans) /\ SentAgrees(g, ans)
      /\ g.sent # <<>> /\ LastSent(g) = Len(ans) /\ h.queue[Len(h.queue)] = Len(ans)
      /\ ToSet(g.sent) = ToSet(h.sent) \cup {Len(ans)}
  BY <1>4, <1>5, SendingAgrees
<1>8. Told(g, ans)
  BY <1>4, <1>5, <1>7, SendingTold
<1>9. RunAgrees(g, ans)
  <2>1. \A x \in g.timers : x.code # "update" /\ x.number < 0
    BY <1>5 DEF Between
  <2>2. /\ g.update.upTo <= Len(g.queue) /\ g.update.upTo > 0
        /\ LastSent(g) = g.queue[g.update.upTo]
    BY <1>2, <1>5, <1>7
  <2>3. QED
    BY <1>5, <1>7, <2>1, <2>2 DEF RunAgrees, Running
<1>10. RoomForNext(g) /\ Accepted(g)
  BY <1>5 DEF RoomForNext, Accepted
<1>11. UpdateAgrees(g, ans)
  BY <1>7, <1>8, <1>9, <1>10 DEF UpdateAgrees
<1>12. QED
  BY <1>1, <1>4, <1>6, <1>10, <1>11

\* What nextConnParamUpdate leaves.
LEMMA NextUpdateAgrees ==
  ASSUME SigTypes, NEW h \in Hosts, NEW ans \in Tellings, Between(h, ans), link # "down"
  PROVE  LET g == NextUpdate(h)
         IN /\ g \in Hosts
            /\ TimersAgree(g) /\ AnswersAgree(g) /\ RoomForNext(g) /\ UpdateAgrees(g, ans)
<1>1. link = "up" \/ link = "closing"
  BY DEF SigTypes
<1>2. CASE h.queue = <<>>
  <2>1. Idle \in Runs /\ Idle.upTo = 0 /\ Idle.doing = "nothing"
    BY DEF Idle, Runs, Running
  <2>2. NextUpdate(h) = [h EXCEPT !.update = Idle]
    BY <1>2 DEF NextUpdate
  <2>3. QED
    BY <1>2, <2>1, <2>2, WithUpdate, QuietUpdate
<1>3. CASE h.queue # <<>> /\ IsSlave
  BY <1>1, <1>3, AskingAgrees
<1>4. CASE h.queue # <<>> /\ ~IsSlave /\ link = "up"
  BY <1>4, UpdatingAgrees
<1>5. CASE h.queue # <<>> /\ ~IsSlave /\ link = "closing"
  <2> DEFINE u == [Idle EXCEPT !.doing = "given up"]
  <2>1. u \in Runs /\ u.upTo = 0 /\ u.doing = "given up"
    BY DEF Idle, Runs, Running
  <2>2. NextUpdate(h) = [h EXCEPT !.update = u]
    BY <1>5 DEF NextUpdate
  <2> HIDE DEF u
  <2> DEFINE g == [h EXCEPT !.update = u]
  <2>3. g \in Hosts
    BY <2>1, WithUpdate
  <2>4. TimersAgree(g) /\ AnswersAgree(g) /\ RoomForNext(g) /\ UpdateAgrees(g, ans)
    BY <1>5, <2>1, QuietUpdate
  <2>5. QED
    BY <2>2, <2>3, <2>4
<1>6. QED
  BY <1>1, <1>2, <1>3, <1>4, <1>5

-----------------------------------------------------------------------------
(* The end of a run. *)

\* The queue behind a run, with what was asked for in its callbacks, and what was told of
\* call k after them.
RestOf(q, upTo, n, L) == SubSeq(q, upTo + 1, Len(q)) \o [i \in 1 .. n |-> L + i]
ToldOf(s, q, upTo, k, status) ==
  s \o [i \in 1 .. Cardinality({j \in 1 .. upTo : q[j] = k}) |->
          StatusOf(CHOOSE j \in 1 .. upTo : q[j] = k, status)]

\* What was told is this and nothing else.
Once(s, e) == Len(s) = 1 /\ s[1] = e

\* The queue holds the last calls again.
LEMMA RestProperties ==
  ASSUME NEW q \in Seq(Nat), NEW L \in Nat, NEW upTo \in Nat, upTo <= Len(q), NEW n \in 0 .. 1,
         Len(q) <= L, \A i \in 1 .. Len(q) : q[i] = L - Len(q) + i
  PROVE  LET rest == RestOf(q, upTo, n, L)
         IN /\ rest \in Seq(Nat) /\ Len(rest) = Len(q) - upTo + n
            /\ \A i \in 1 .. Len(rest) : rest[i] = L + n - Len(rest) + i
<1> DEFINE m == Len(q)
           kept == SubSeq(q, upTo + 1, m)
           fresh == [i \in 1 .. n |-> L + i]
           rest == kept \o fresh
<1>1. m \in Nat /\ \A i \in 1 .. m : q[i] \in Nat
  BY LenProperties, ElementOfSeq
<1>2. upTo + 1 \in Int /\ m \in Int /\ \A i \in upTo + 1 .. m : q[i] \in Nat
  BY <1>1
<1>3. /\ kept \in Seq(Nat)
      /\ Len(kept) = IF upTo + 1 <= m THEN m - (upTo + 1) + 1 ELSE 0
      /\ \A i \in 1 .. m - (upTo + 1) + 1 : kept[i] = q[upTo + 1 + i - 1]
  <2> HIDE DEF m
  <2> DEFINE from == upTo + 1
  <2>1. from \in Int /\ m \in Int /\ \A i \in from .. m : q[i] \in Nat
    BY <1>2
  <2> HIDE DEF from
  <2>2. /\ SubSeq(q, from, m) \in Seq(Nat)
        /\ Len(SubSeq(q, from, m)) = (IF from <= m THEN m - from + 1 ELSE 0)
        /\ \A i \in 1 .. m - from + 1 : SubSeq(q, from, m)[i] = q[from + i - 1]
    BY <2>1, SubSeqProperties
  <2>3. QED
    BY <2>2 DEF from
<1>4. fresh \in Seq(Nat) /\ Len(fresh) = n /\ \A i \in 1 .. n : fresh[i] = L + i
  OBVIOUS
<1> HIDE DEF kept, fresh
<1>5. /\ Len(kept) = m - upTo
      /\ \A i \in 1 .. m - upTo : kept[i] = q[upTo + i] /\ upTo + i \in 1 .. m
  <2> HIDE DEF m
  <2>1. Len(kept) = m - upTo
    BY <1>1, <1>3 DEF m
  <2>2. ASSUME NEW i \in 1 .. m - upTo PROVE kept[i] = q[upTo + i] /\ upTo + i \in 1 .. m
    <3>1. i \in 1 .. m - (upTo + 1) + 1 /\ upTo + 1 + i - 1 = upTo + i /\ upTo + i \in 1 .. m
      BY <1>1
    <3>2. QED
      BY <1>3, <3>1
  <2>3. QED
    BY <2>1, <2>2
<1>6. /\ rest \in Seq(Nat) /\ Len(rest) = Len(kept) + Len(fresh)
      /\ \A i \in 1 .. Len(kept) + Len(fresh) :
           rest[i] = IF i <= Len(kept) THEN kept[i] ELSE fresh[i - Len(kept)]
  BY <1>3, <1>4, ConcatProperties
<1> HIDE DEF rest
<1>7. \A i \in 1 .. m : q[i] = L - m + i
  OBVIOUS
<1> HIDE DEF m
<1>8. Len(rest) = m - upTo + n
  BY <1>4, <1>5, <1>6
<1>9. upTo <= m
  BY DEF m
<1>10. ASSUME NEW i \in 1 .. Len(rest) PROVE rest[i] = L + n - Len(rest) + i
  <2>1. CASE i <= m - upTo
    <3>1. i \in 1 .. m - upTo
      BY <1>1, <1>8, <2>1
    <3>2. rest[i] = q[upTo + i] /\ upTo + i \in 1 .. m
      BY <1>5, <1>6, <1>4, <3>1, <1>8, <2>1
    <3>3. rest[i] = L - m + (upTo + i)
      BY <1>7, <3>2
    <3>4. QED
      BY <1>1, <1>8, <3>3
  <2>2. CASE ~(i <= m - upTo)
    <3>1. i \in Int /\ i - (m - upTo) \in 1 .. n
      BY <1>1, <1>8, <2>2
    <3>2. rest[i] = fresh[i - (m - upTo)]
      BY <1>4, <1>5, <1>6, <1>8, <2>2
    <3>3. rest[i] = L + (i - (m - upTo))
      BY <1>4, <3>1, <3>2
    <3>4. QED
      BY <1>1, <1>8, <3>1, <3>3
  <2>3. QED
    BY <2>1, <2>2
<1>11. QED
  BY <1>6, <1>8, <1>10 DEF RestOf, rest, kept, fresh, m

\* What callbacks are called with.
LEMMA StatusIsInt ==
  ASSUME NEW i \in Int, NEW status \in Int
  PROVE  StatusOf(i, status) \in Int
BY DEF StatusOf

\* One call more, or none.
LEMMA OneMore ==
  ASSUME NEW s \in Seq(Int), NEW e \in Int
  PROVE  /\ s \o [i \in 1 .. 0 |-> e] = s
         /\ s = <<>> => /\ s \o [i \in 1 .. 1 |-> e] \in Seq(Int)
                        /\ Len(s \o [i \in 1 .. 1 |-> e]) = 1
                        /\ (s \o [i \in 1 .. 1 |-> e])[1] = e
<1> DEFINE none == [i \in 1 .. 0 |-> e]
           one == [i \in 1 .. 1 |-> e]
<1>1. none \in Seq(Int) /\ Len(none) = 0
  OBVIOUS
<1>2. none = <<>>
  <2> HIDE DEF none
  <2>1. QED
    BY <1>1, EmptySeq
<1>3. s \o none = s
  BY <1>2, ConcatEmptySeq
<1>4. one \in Seq(Int) /\ Len(one) = 1 /\ one[1] = e
  OBVIOUS
<1> HIDE DEF one, none
<1>5. <<>> \o one = one
  BY <1>4, ConcatEmptySeq
<1>6. QED
  BY <1>3, <1>4, <1>5 DEF one, none

\* A function on the first numbers is a sequence.
IsTable(f, N) == f = [k \in 1 .. N |-> f[k]]

LEMMA FunctionIsSequence ==
  ASSUME NEW S, NEW N \in Nat, NEW f, IsTable(f, N), \A k \in 1 .. N : f[k] \in S
  PROVE  f \in Seq(S) /\ Len(f) = N
BY DEF IsTable

\* One callback of a run, or none, is added to what was told of a call.
LEMMA ValueAfter ==
  ASSUME NEW q \in Seq(Nat), NEW L \in Nat, NEW upTo \in Nat, upTo <= Len(q), Len(q) <= L,
         \A i \in 1 .. Len(q) : q[i] = L - Len(q) + i, NEW k \in 1 .. L, NEW status \in Int,
         NEW s \in Seq(Int), k > L - Len(q) => s = <<>>
  PROVE  LET v == ToldOf(s, q, upTo, k, status)
             p == k - (L - Len(q))
         IN /\ v \in Seq(Int)
            /\ p \in 1 .. upTo => Len(v) = 1 /\ v[1] = StatusOf(p, status)
            /\ p \notin 1 .. upTo => v = s
\* The parameters of a call are in the queue once.
<1>0. /\ k - (L - Len(q)) \in 1 .. upTo =>
           /\ Cardinality({j \in 1 .. upTo : q[j] = k}) = 1
           /\ (CHOOSE j \in 1 .. upTo : q[j] = k) = k - (L - Len(q))
      /\ k - (L - Len(q)) \notin 1 .. upTo => Cardinality({j \in 1 .. upTo : q[j] = k}) = 0
  <2> DEFINE m == Len(q)
             p == k - (L - m)
             places == {j \in 1 .. upTo : q[j] = k}
  <2>1. m \in Nat /\ upTo <= m /\ \A i \in 1 .. m : q[i] = L - m + i
    BY LenProperties
  <2> HIDE DEF m
  <2>2. \A j \in 1 .. upTo : q[j] = k <=> j = p
    <3>1. ASSUME NEW j \in 1 .. upTo PROVE q[j] = k <=> j = p
      <4>1. j \in 1 .. m
        BY <2>1
      <4>2. q[j] = L - m + j
        BY <2>1, <4>1
      <4>3. QED
        BY <2>1, <4>1, <4>2
    <3>2. QED
      BY <3>1
  <2>3. p \in Int
    BY <2>1
  <2> HIDE DEF p
  <2>4. CASE p \in 1 .. upTo
    <3>1. places = {p}
      BY <2>2, <2>4
    <3>2. Cardinality(places) = 1
      BY <3>1, FS_Singleton
    <3>3. (CHOOSE j \in 1 .. upTo : q[j] = k) = p
      BY <2>2, <2>4
    <3>4. QED
      BY <2>4, <3>2, <3>3 DEF p, m
  <2>5. CASE p \notin 1 .. upTo
    <3>1. places = {}
      BY <2>2, <2>5
    <3>2. Cardinality(places) = 0
      BY <3>1, FS_EmptySet
    <3>3. QED
      BY <2>5, <3>2 DEF p, m
  <2>6. QED
    BY <2>4, <2>5
<1> DEFINE c == Cardinality({j \in 1 .. upTo : q[j] = k})
           x == CHOOSE j \in 1 .. upTo : q[j] = k
           e == StatusOf(x, status)
           v == s \o [i \in 1 .. c |-> e]
           p == k - (L - Len(q))
<1>1. /\ p \in 1 .. upTo => c = 1 /\ x = p
      /\ p \notin 1 .. upTo => c = 0
  BY <1>0, Zenon
<1>2. Len(q) \in Nat
  BY LenProperties
<1>3. CASE p \in 1 .. upTo
  <2>1. k > L - Len(q)
    BY <1>2, <1>3
  <2> HIDE DEF c, x, p
  <2>2. c = 1 /\ x = p /\ x \in Int /\ s = <<>>
    BY <1>1, <1>3, <2>1
  <2>3. e \in Int
    BY <2>2, StatusIsInt
  <2> HIDE DEF e
  <2>4. v = s \o [i \in 1 .. 1 |-> e]
    BY <2>2
  <2>5. v \in Seq(Int) /\ Len(v) = 1 /\ v[1] = e
    BY <2>2, <2>3, <2>4, OneMore
  <2> HIDE DEF v
  <2>6. v[1] = StatusOf(p, status)
    BY <2>2, <2>5 DEF e
  <2>7. QED
    BY <1>3, <2>5, <2>6 DEF ToldOf, v, e, c, x, p
<1>4. CASE p \notin 1 .. upTo
  <2>1. c = 0
    BY <1>1, <1>4
  <2> HIDE DEF c
  <2>2. v = s \o [i \in 1 .. 0 |-> e]
    BY <2>1
  <2>3. [i \in 1 .. 0 |-> e] = [i \in 1 .. 0 |-> 0]
    OBVIOUS
  <2>4. s \o [i \in 1 .. 0 |-> 0] = s
    BY OneMore
  <2>5. v = s
    BY <2>2, <2>3, <2>4
  <2> HIDE DEF v, p
  <2>6. QED
    BY <1>4, <2>5 DEF ToldOf, v, e, c, x, p
<1>5. QED
  BY <1>3, <1>4

\* The record of the callbacks after those of a run.
RunTold(ans, q, upTo, n, status, told) ==
  /\ ans \in Tellings /\ q \in Seq(Nat) /\ upTo \in Nat /\ upTo <= Len(q)
  /\ n \in 0 .. 1 /\ Len(q) <= Len(ans)
  /\ \A i \in 1 .. Len(q) : q[i] = Len(ans) - Len(q) + i
  /\ \A k \in 1 .. Len(ans) : k > Len(ans) - Len(q) => ans[k] = <<>>
  /\ status \in Int /\ IsTable(told, Len(ans) + n)
  /\ \A k \in 1 .. Len(ans) : told[k] = ToldOf(ans[k], q, upTo, k, status)
  /\ \A k \in Len(ans) + 1 .. Len(ans) + n : told[k] = <<>>

LEMMA TellingAfter ==
  ASSUME NEW ans, NEW q, NEW upTo, NEW n, NEW status, NEW told,
         RunTold(ans, q, upTo, n, status, told)
  PROVE  /\ told \in Tellings /\ Len(told) = Len(ans) + n
         /\ \A k \in 1 .. Len(ans) :
              IF k - (Len(ans) - Len(q)) \in 1 .. upTo
              THEN Once(told[k], StatusOf(k - (Len(ans) - Len(q)), status))
              ELSE told[k] = ans[k]
<1> USE DEF RunTold
<1>1. Len(ans) \in Nat /\ \A k \in 1 .. Len(ans) : ans[k] \in Seq(Int)
  BY TellingProperties
<1>2. ASSUME NEW k \in 1 .. Len(ans)
      PROVE  LET p == k - (Len(ans) - Len(q))
             IN /\ told[k] \in Seq(Int)
                /\ p \in 1 .. upTo => Len(told[k]) = 1 /\ told[k][1] = StatusOf(p, status)
                /\ p \notin 1 .. upTo => told[k] = ans[k]
  <2>1. ans[k] \in Seq(Int) /\ (k > Len(ans) - Len(q) => ans[k] = <<>>)
    BY <1>1
  <2> DEFINE s == ans[k]
             L == Len(ans)
  <2>2. s \in Seq(Int) /\ L \in Nat /\ (k > L - Len(q) => s = <<>>) /\ Len(q) <= L /\ k \in 1 .. L
    BY <1>1, <2>1
  <2>3. \A i \in 1 .. Len(q) : q[i] = L - Len(q) + i
    OBVIOUS
  <2>4. told[k] = ToldOf(s, q, upTo, k, status)
    OBVIOUS
  <2> HIDE DEF s, L
  <2> DEFINE v == ToldOf(s, q, upTo, k, status)
             p == k - (L - Len(q))
  <2>5. /\ v \in Seq(Int)
        /\ p \in 1 .. upTo => Len(v) = 1 /\ v[1] = StatusOf(p, status)
        /\ p \notin 1 .. upTo => v = s
    BY <2>2, <2>3, ValueAfter
  <2>6. told[k] = v
    BY <2>4
  <2> HIDE DEF v
  <2>7. /\ told[k] \in Seq(Int)
        /\ p \in 1 .. upTo => Len(told[k]) = 1 /\ told[k][1] = StatusOf(p, status)
        /\ p \notin 1 .. upTo => told[k] = s
    BY <2>5, <2>6
  <2>8. QED
    BY <2>7 DEF s, L
<1>3. \A k \in 1 .. Len(ans) + n : told[k] \in Seq(Int)
  <2>1. <<>> \in Seq(Int)
    BY EmptySeq
  <2>2. \A k \in 1 .. Len(ans) + n : k \in 1 .. Len(ans) \/ k \in Len(ans) + 1 .. Len(ans) + n
    BY <1>1
  <2>3. QED
    BY <1>2, <2>1, <2>2
<1>4. told \in Tellings /\ Len(told) = Len(ans) + n
  <2> DEFINE N == Len(ans) + n
             S == Seq(Int)
  <2>1. N \in Nat /\ IsTable(told, N) /\ \A k \in 1 .. N : told[k] \in S
    BY <1>1, <1>3
  <2> HIDE DEF N, S
  <2>2. told \in Seq(S) /\ Len(told) = N
    BY <2>1, FunctionIsSequence, Zenon
  <2>3. QED
    BY <2>2 DEF N, S, Tellings
<1>5. QED
  BY <1>2, <1>4 DEF Once

\* A position behind another one.
LEMMA PositionWithin ==
  \A a, j, m \in Nat : j > 0 /\ a + j <= m => a + j \in 1 .. m
OBVIOUS

\* The controller has no command of this end.
NoCommand(h) == h.command = 0

\* Done takes the run's parameters off the queue; what remains is as before a run.
LEMMA BetweenRuns ==
  ASSUME SigTypes, RoomForNext(host), UpdateAgrees(host, answers),
         host.update.doing \in Running,
         NEW h \in Hosts, h.queue = host.queue, h.sent = host.sent, h.nextId = host.nextId,
         h.toPeer = host.toPeer, NoCommand(h), h.timers \subseteq host.timers,
         \A r \in h.timers : r.code # "update", TimersAgree(h), AnswersAgree(h),
         NEW status \in {-1, 0, 1},
         IsSlave /\ status = 0 => <<host.queue[host.update.upTo], "accept">> \in verdicts,
         IsSlave /\ status = 1 => <<host.queue[host.update.upTo], "refuse">> \in verdicts,
         NEW n \in 0 .. 1, n > 0 /\ IsSlave => IdsAreFree,
         NEW told \in Tellings, Len(told) = Len(answers) + n,
         \A k \in 1 .. Len(answers) :
           IF k - (Len(answers) - Len(host.queue)) \in 1 .. host.update.upTo
           THEN Once(told[k], StatusOf(k - (Len(answers) - Len(host.queue)), status))
           ELSE told[k] = answers[k],
         \A k \in Len(answers) + 1 .. Len(answers) + n : told[k] = <<>>,
         NEW rest \in Seq(Nat), Len(rest) = Len(host.queue) - host.update.upTo + n,
         \A i \in 1 .. Len(rest) : rest[i] = Len(answers) + n - Len(rest) + i
  PROVE  [h EXCEPT !.queue = rest] \in Hosts /\ Between([h EXCEPT !.queue = rest], told)
<1> DEFINE g == [h EXCEPT !.queue = rest]
           L == Len(answers)
           q == host.queue
           m == Len(q)
           upTo == host.update.upTo
<1>1. /\ g \in Hosts /\ g.queue = rest /\ g.sent = h.sent /\ g.nextId = h.nextId
      /\ g.toPeer = h.toPeer /\ g.command = h.command /\ g.timers = h.timers
      /\ g.active = h.active
  BY DEF Hosts
<1> HIDE DEF g
<1>2. host \in Hosts /\ answers \in Tellings
  BY DEF SigTypes
<1>3. /\ q \in Seq(Nat) /\ m \in Nat /\ L \in Nat /\ host.sent \in Seq(Nat)
      /\ host.update \in Runs /\ \A i \in 1 .. m : q[i] \in Nat
  BY <1>2, HostFields, LenProperties, TellingProperties, ElementOfSeq
<1>4. QueueIsLast(host, answers) /\ RunAgrees(host, answers) /\ SentAgrees(host, answers)
      /\ Told(host, answers)
  BY DEF UpdateAgrees
<1>5. m <= L /\ \A i \in 1 .. m : q[i] = L - m + i
  BY <1>4 DEF QueueIsLast
<1>6. /\ upTo \in Nat /\ upTo > 0 /\ upTo <= m /\ upTo \in 1 .. m
      /\ host.sent # <<>> /\ LastSent(host) = q[upTo]
  <2>1. upTo \in Nat
    BY <1>3 DEF Runs
  <2>2. upTo > 0 /\ upTo <= m /\ host.sent # <<>> /\ LastSent(host) = q[upTo]
    BY <1>4 DEF RunAgrees
  <2>3. QED
    BY <1>3, <2>1, <2>2
<1>7. q[upTo] = L - m + upTo
  BY <1>5, <1>6
<1>8. q[upTo] \in ToSet(host.sent)
  <2>1. Len(host.sent) \in Nat \ {0}
    BY <1>3, <1>6, EmptySeq
  <2>2. Len(host.sent) \in 1 .. Len(host.sent)
    BY <2>1
  <2>3. QED
    BY <1>3, <1>6, <2>2, ToSetOf DEF LastSent
<1>9. /\ \A i \in 1 .. Len(rest) : rest[i] = L + n - Len(rest) + i
      /\ Len(rest) = m - upTo + n /\ Len(told) = L + n
  OBVIOUS
<1> HIDE DEF L, q, m, upTo
<1>10. Len(rest) \in Nat /\ (rest = <<>> <=> Len(rest) = 0) /\ Len(told) \in Nat
  BY LenProperties, EmptySeq, TellingProperties
<1>11. OnTheWay(g) = OnTheWay(host) /\ OnTheWay(h) = OnTheWay(host)
  BY <1>1 DEF OnTheWay
<1>12. TimersAgree(g) /\ AnswersAgree(g)
  <2>1. TimersAgree(g)
    BY <1>1 DEF TimersAgree
  <2>2. AnswersAgree(g)
    BY <1>1, <1>11 DEF AnswersAgree
  <2>3. QED
    BY <2>1, <2>2
<1>13. ASSUME IsSlave, rest # <<>> PROVE NextIsFree(g)
  <2>1. m > upTo \/ n > 0
    BY <1>3, <1>6, <1>9, <1>10, <1>13
  <2>2. NextIsFree(host)
    <3>1. CASE m > upTo
      BY <1>13, <3>1 DEF RoomForNext, m, q, upTo
    <3>2. CASE n > 0
      BY <1>13, <3>2 DEF IdsAreFree, NextIsFree, OnTheWay
    <3>3. QED
      BY <2>1, <3>1, <3>2
  <2>3. QED
    BY <1>1, <1>11, <2>2 DEF NextIsFree
<1>14. QueueIsLast(g, told)
  <2>1. Len(rest) <= Len(told)
    BY <1>3, <1>5, <1>6, <1>9
  <2>2. \A i \in 1 .. Len(rest) : rest[i] = Len(told) - Len(rest) + i
    BY <1>9
  <2>3. QED
    BY <1>1, <2>1, <2>2 DEF QueueIsLast
<1>15. g.command = 0
  BY <1>1 DEF NoCommand
<1>16. \A r \in g.timers : r.code # "update" /\ r.number < 0
  BY <1>1, <1>4 DEF RunAgrees
<1>17. ASSUME rest = <<>> PROVE g.sent # <<>> /\ LastSent(g) = Len(told)
  <2>1. m = upTo /\ n = 0
    BY <1>3, <1>6, <1>9, <1>10, <1>17
  <2>2. LastSent(host) = L
    BY <1>3, <1>6, <1>7, <2>1
  <2>3. QED
    BY <1>1, <1>3, <1>6, <1>9, <2>1, <2>2 DEF LastSent
<1>18. \A x \in ToSet(g.sent) : x \in 1 .. L /\ x \in 1 .. Len(told)
  BY <1>1, <1>3, <1>4, <1>9 DEF SentAgrees, L
<1>19. ASSUME IsSlave, NEW j \in 1 .. Len(rest) PROVE rest[j] \notin ToSet(g.sent)
  <2>1. rest[j] = L + n - Len(rest) + j
    BY <1>9
  <2>2. CASE upTo + j <= m
    <3>1. upTo + j \in 1 .. m
      <4> DEFINE l == Len(rest)
      <4>1. j \in 1 .. l /\ l \in Nat
        BY <1>10
      <4> HIDE DEF l
      <4>2. j \in Nat /\ j > 0
        BY <4>1
      <4>3. upTo \in Nat /\ m \in Nat
        BY <1>3, <1>6
      <4>4. QED
        BY <2>2, <4>2, <4>3, PositionWithin
    <3>2. q[upTo + j] = L - m + (upTo + j)
      BY <1>5, <3>1
    <3>3. rest[j] = q[upTo + j]
      BY <1>3, <1>6, <1>9, <2>1, <3>2
    <3>4. q[upTo + j] \in ToSet(host.sent) => upTo + j = upTo
      BY <1>4, <1>19, <3>1 DEF SentAgrees, q, m, upTo
    <3>5. QED
      BY <1>1, <1>6, <3>3, <3>4
  <2>3. CASE ~(upTo + j <= m)
    <3>1. rest[j] > L
      BY <1>3, <1>6, <1>9, <1>10, <2>1, <2>3
    <3>2. QED
      BY <1>3, <1>18, <3>1
  <2>4. QED
    BY <2>2, <2>3
<1>20. Told(g, told)
  <2>1. \A k \in 1 .. L :
          LET p == k - (L - m)
          IN IF p \in 1 .. upTo
             THEN Len(told[k]) = 1 /\ told[k][1] = StatusOf(p, status)
             ELSE told[k] = answers[k]
    BY DEF Once, L, m, q, upTo
  <2>2. \A k \in L + 1 .. L + n : told[k] = <<>>
    BY DEF L
  <2>3. \A k \in 1 .. L :
          Len(answers[k]) <= 1 /\ (k > L - m => answers[k] = <<>>)
    BY <1>4 DEF Told, L, m, q
  <2>4. Len(<<>>) = 0
    BY EmptySeq
  <2>5. ASSUME NEW k \in 1 .. Len(told)
        PROVE  Len(told[k]) <= 1 /\ (k > Len(told) - Len(rest) => told[k] = <<>>)
    <3>1. CASE k \in 1 .. L /\ k - (L - m) \in 1 .. upTo
      <4>1. Len(told[k]) = 1
        BY <2>1, <3>1
      <4>2. ~(k > Len(told) - Len(rest))
        BY <1>3, <1>6, <1>9, <1>10, <3>1
      <4>3. QED
        BY <4>1, <4>2
    <3>2. CASE k \in 1 .. L /\ k - (L - m) \notin 1 .. upTo
      <4>1. told[k] = answers[k]
        BY <2>1, <3>2
      <4>2. k > Len(told) - Len(rest) => k > L - m
        BY <1>3, <1>6, <1>9, <1>10, <3>2
      <4>3. QED
        BY <2>3, <3>2, <4>1, <4>2
    <3>3. CASE k \notin 1 .. L
      <4>1. k \in L + 1 .. L + n
        BY <1>3, <1>9, <3>3
      <4>2. told[k] = <<>>
        BY <2>2, <4>1
      <4>3. QED
        BY <2>4, <4>2
    <3>4. QED
      BY <3>1, <3>2, <3>3
  <2>6. ASSUME IsSlave, NEW k \in 1 .. Len(told), Len(told[k]) = 1
        PROVE  /\ told[k][1] = 0 => <<k, "accept">> \in verdicts
               /\ told[k][1] = 1 => <<k, "refuse">> \in verdicts
               /\ told[k][1] = -1 => k \in ToSet(g.sent) /\ \A r \in g.timers : r.number # k
               /\ told[k][1] = -2 => k \notin ToSet(g.sent)
    <3>1. k \in 1 .. L
      <4>1. CASE k \in L + 1 .. L + n
        <5>1. told[k] = <<>>
          BY <2>2, <4>1
        <5>2. Len(told[k]) = 0
          BY <2>4, <5>1
        <5>3. Len(told[k]) = 1
          BY <2>6
        <5>4. QED
          BY <5>2, <5>3
      <4>2. QED
        BY <1>3, <1>9, <4>1
    <3> DEFINE p == k - (L - m)
    <3>2. CASE p \notin 1 .. upTo
      <4>1. told[k] = answers[k]
        BY <2>1, <3>1, <3>2
      <4>2. /\ answers[k][1] = 0 => <<k, "accept">> \in verdicts
            /\ answers[k][1] = 1 => <<k, "refuse">> \in verdicts
            /\ answers[k][1] = -1 =>
                 k \in ToSet(host.sent) /\ \A r \in host.timers : r.number # k
            /\ answers[k][1] = -2 => k \notin ToSet(host.sent)
        BY <1>4, <2>6, <3>1, <4>1 DEF Told, L
      <4>3. QED
        BY <1>1, <4>1, <4>2
    <3>3. CASE p \in 1 .. upTo
      <4>1. told[k][1] = StatusOf(p, status)
        BY <2>1, <3>1, <3>3
      <4>2. p \in 1 .. m /\ q[p] = k /\ p \in Int
        <5>1. p \in 1 .. m
          BY <1>3, <1>6, <3>3
        <5>2. q[p] = L - m + p
          BY <1>5, <5>1
        <5>3. QED
          BY <1>3, <5>1, <5>2
      <4>3. CASE p < upTo
        <5>1. told[k][1] = -2
          BY <2>6, <4>1, <4>3 DEF StatusOf, upTo
        <5>2. k \in ToSet(host.sent) => p = upTo
          BY <1>4, <2>6, <4>2 DEF SentAgrees, q, m, upTo
        <5>3. k \notin ToSet(host.sent)
          BY <1>6, <4>2, <4>3, <5>2
        <5>4. QED
          BY <1>1, <5>1, <5>3
      <4>4. CASE p = upTo
        <5>1. told[k][1] = status
          BY <1>6, <4>1, <4>4 DEF StatusOf, upTo
        <5>2. k = q[upTo]
          BY <4>2, <4>4
        <5>3. k > 0 /\ \A r \in g.timers : r.number # k
          BY <1>3, <1>16, <3>1
        <5>4. /\ status = 0 => <<k, "accept">> \in verdicts
              /\ status = 1 => <<k, "refuse">> \in verdicts
          BY <2>6, <5>2 DEF q, upTo
        <5>5. QED
          BY <1>1, <1>8, <5>1, <5>2, <5>3, <5>4
      <4>5. QED
        BY <1>6, <3>3, <4>2, <4>3, <4>4
    <3>4. QED
      BY <3>2, <3>3
  <2>7. QED
    BY <1>1, <2>5, <2>6 DEF Told
<1>21. Between(g, told)
  BY <1>1, <1>12, <1>13, <1>14, <1>15, <1>16, <1>17, <1>18, <1>19, <1>20 DEF Between
<1>22. QED
  BY <1>1, <1>21 DEF g

\* What Done leaves when it ends a run.
LEMMA DoneAgrees ==
  ASSUME SigTypes, link # "down", RoomForNext(host), UpdateAgrees(host, answers),
         host.update.doing \in Running,
         NEW h \in Hosts, h.queue = host.queue, h.sent = host.sent, h.nextId = host.nextId,
         h.toPeer = host.toPeer, NoCommand(h), h.timers \subseteq host.timers,
         \A r \in h.timers : r.code # "update", TimersAgree(h), AnswersAgree(h),
         NEW status \in {-1, 0, 1},
         IsSlave /\ status = 0 => <<host.queue[host.update.upTo], "accept">> \in verdicts,
         IsSlave /\ status = 1 => <<host.queue[host.update.upTo], "refuse">> \in verdicts,
         Done(h, status)
  PROVE  /\ host' \in Hosts /\ answers' \in Tellings
         /\ budget' \in Budgets /\ budget'.role = budget.role
         /\ TimersAgree(host') /\ AnswersAgree(host') /\ RoomForNext(host')
         /\ UpdateAgrees(host', answers')
<1> DEFINE L == Len(answers)
           q == h.queue
           upTo == host.update.upTo
           Told1(k) == ToldOf(answers[k], q, upTo, k, status)
<1>1. PICK n \in 0 .. 1 :
        /\ n <= budget.updates /\ (n > 0 /\ IsSlave => IdsAreFree)
        /\ budget' = [budget EXCEPT !.updates = @ - n]
        /\ answers' = [k \in 1 .. L + n |-> IF k > L THEN <<>> ELSE Told1(k)]
        /\ host' = NextUpdate([h EXCEPT !.queue = RestOf(q, upTo, n, L)])
  BY DEF Done, RestOf, ToldOf
<1>2. budget' \in Budgets /\ budget'.role = budget.role
  <2>1. budget \in Budgets
    BY DEF SigTypes
  <2>2. budget.updates - n \in Nat
    BY <1>1, <2>1 DEF Budgets
  <2>3. QED
    BY <1>1, <2>1, <2>2 DEF Budgets
<1>3. host \in Hosts /\ answers \in Tellings
  BY DEF SigTypes
<1>4. /\ q \in Seq(Nat) /\ L \in Nat /\ Len(q) <= L
      /\ \A i \in 1 .. Len(q) : q[i] = L - Len(q) + i
      /\ upTo \in Nat /\ upTo <= Len(q)
  <2>1. q \in Seq(Nat) /\ host.update \in Runs /\ L \in Nat
    BY <1>3, HostFields, TellingProperties
  <2>2. upTo \in Nat
    BY <2>1 DEF Runs
  <2>3. QED
    BY <2>1, <2>2 DEF UpdateAgrees, QueueIsLast, RunAgrees
<1> DEFINE rest == RestOf(q, upTo, n, L)
<1>5. /\ rest \in Seq(Nat) /\ Len(rest) = Len(q) - upTo + n
      /\ \A i \in 1 .. Len(rest) : rest[i] = L + n - Len(rest) + i
  <2> HIDE DEF L, q, upTo
  <2>1. QED
    BY <1>4, RestProperties
<1>6. \A k \in 1 .. L : k > L - Len(q) => answers[k] = <<>>
  BY DEF UpdateAgrees, Told
<1>7. /\ IsTable(answers', L + n)
      /\ \A k \in 1 .. L : answers'[k] = Told1(k)
      /\ \A k \in L + 1 .. L + n : answers'[k] = <<>>
  <2> DEFINE V(k) == IF k > L THEN <<>> ELSE Told1(k)
  <2>1. answers' = [k \in 1 .. L + n |-> V(k)]
    BY <1>1
  <2>2. \A k \in 1 .. L : k \in 1 .. L + n /\ ~(k > L)
    BY <1>4
  <2>3. \A k \in L + 1 .. L + n : k \in 1 .. L + n /\ k > L
    BY <1>4
  <2> HIDE DEF Told1, L
  <2>4. QED
    BY <2>1, <2>2, <2>3 DEF IsTable
<1>8. /\ answers' \in Tellings /\ Len(answers') = L + n
      /\ \A k \in 1 .. L :
           IF k - (L - Len(q)) \in 1 .. upTo
           THEN Once(answers'[k], StatusOf(k - (L - Len(q)), status))
           ELSE answers'[k] = answers[k]
  <2>1. status \in Int
    OBVIOUS
  <2> DEFINE told == answers'
  <2>2. /\ IsTable(told, L + n)
        /\ \A k \in 1 .. L : told[k] = Told1(k)
        /\ \A k \in L + 1 .. L + n : told[k] = <<>>
    BY <1>7
  <2> HIDE DEF told
  <2>3. /\ told \in Tellings /\ Len(told) = L + n
        /\ \A k \in 1 .. L :
             IF k - (L - Len(q)) \in 1 .. upTo
             THEN Once(told[k], StatusOf(k - (L - Len(q)), status))
             ELSE told[k] = answers[k]
    <3>1. RunTold(answers, q, upTo, n, status, told)
      BY <1>3, <1>4, <1>6, <2>1, <2>2 DEF RunTold
    <3> HIDE DEF q, upTo, rest
    <3>2. QED
      BY <3>1, TellingAfter
  <2>4. QED
    BY <2>3 DEF told
<1> HIDE DEF Told1
<1>9. [h EXCEPT !.queue = rest] \in Hosts /\ Between([h EXCEPT !.queue = rest], answers')
  <2> HIDE DEF rest
  <2> DEFINE told == answers'
  <2>1. \A k \in L + 1 .. L + n : told[k] = <<>>
    BY <1>7
  <2>2. /\ told \in Tellings /\ Len(told) = L + n
        /\ \A k \in 1 .. L :
             IF k - (L - Len(q)) \in 1 .. upTo
             THEN Once(told[k], StatusOf(k - (L - Len(q)), status))
             ELSE told[k] = answers[k]
    BY <1>8
  <2> HIDE DEF told
  <2>3. n > 0 /\ IsSlave => IdsAreFree
    BY <1>1
  <2>4. [h EXCEPT !.queue = rest] \in Hosts /\ Between([h EXCEPT !.queue = rest], told)
    BY <1>5, <2>1, <2>2, <2>3, BetweenRuns
  <2>5. QED
    BY <2>4 DEF told
<1> DEFINE g == [h EXCEPT !.queue = rest]
<1>10. g \in Hosts /\ Between(g, answers') /\ host' = NextUpdate(g)
  BY <1>1, <1>9
<1> HIDE DEF g, rest
<1>11. /\ host' \in Hosts
       /\ TimersAgree(host') /\ AnswersAgree(host') /\ RoomForNext(host')
       /\ UpdateAgrees(host', answers')
  BY <1>8, <1>10, NextUpdateAgrees
<1>12. QED
  BY <1>2, <1>8, <1>11

-----------------------------------------------------------------------------
(* Calls of updateConnParams. *)

\* What is said of the identifiers depends on nothing else of the record.
LEMMA SameIds ==
  ASSUME NEW h, NEW g, g.active = h.active, g.timers = h.timers, g.toPeer = h.toPeer,
         g.nextId = h.nextId
  PROVE  /\ TimersAgree(h) => TimersAgree(g)
         /\ AnswersAgree(h) => AnswersAgree(g)
         /\ NextIsFree(h) => NextIsFree(g)
<1>1. OnTheWay(g) = OnTheWay(h)
  BY DEF OnTheWay
<1>2. TimersAgree(h) => TimersAgree(g)
  BY DEF TimersAgree
<1>3. AnswersAgree(h) => AnswersAgree(g)
  BY <1>1 DEF AnswersAgree
<1>4. NextIsFree(h) => NextIsFree(g)
  BY <1>1 DEF NextIsFree
<1>5. QED
  BY <1>2, <1>3, <1>4

\* Two lengths grow together.
LEMMA OneLonger == \A m, n \in Nat : m <= n => m + 1 <= n + 1 /\ (n + 1) - (m + 1) = n - m
OBVIOUS

\* What has length one is not empty.
LEMMA OneIsMore == 1 # 0
OBVIOUS

\* One more call at the end of the queue: the queue still holds the last calls, and nothing
\* else was told.
LEMMA OneMoreCall ==
  ASSUME NEW g \in Hosts, NEW a \in Tellings, QueueIsLast(g, a), Told(g, a),
         NEW h \in Hosts, NEW ans \in Tellings, h.sent = g.sent, h.timers = g.timers,
         Len(h.queue) = Len(g.queue) + 1, Len(ans) = Len(a) + 1,
         \A i \in 1 .. Len(g.queue) : h.queue[i] = g.queue[i],
         h.queue[Len(g.queue) + 1] = Len(a) + 1,
         \A k \in 1 .. Len(a) : ans[k] = a[k], ans[Len(a) + 1] = <<>>
  PROVE  QueueIsLast(h, ans) /\ Told(h, ans)
<1> DEFINE m == Len(g.queue)
           L == Len(a)
<1>1. m \in Nat /\ L \in Nat
  BY HostFields, LenProperties, TellingProperties
<1>2. /\ Len(h.queue) = m + 1 /\ Len(ans) = L + 1
      /\ \A i \in 1 .. m : h.queue[i] = g.queue[i]
      /\ h.queue[m + 1] = L + 1
      /\ \A k \in 1 .. L : ans[k] = a[k]
      /\ ans[L + 1] = <<>>
  OBVIOUS
<1>3. m <= L /\ \A i \in 1 .. m : g.queue[i] = L - m + i
  BY DEF QueueIsLast
<1>4. \A k \in 1 .. L : Len(a[k]) <= 1 /\ (k > L - m => a[k] = <<>>)
  BY DEF Told
<1> HIDE DEF m, L
<1>5. Len(h.queue) <= Len(ans) /\ Len(ans) - Len(h.queue) = L - m
  <2>1. m + 1 <= L + 1 /\ (L + 1) - (m + 1) = L - m
    BY <1>1, <1>3, OneLonger, Zenon
  <2>2. QED
    BY <1>2, <2>1, Zenon
<1>6. \A i \in 1 .. m + 1 : i \in 1 .. m \/ i = m + 1
  BY <1>1
<1>7. \A k \in 1 .. L + 1 : k \in 1 .. L \/ k = L + 1
  BY <1>1
<1>8. QueueIsLast(h, ans)
  <2>1. ASSUME NEW i \in 1 .. m + 1 PROVE h.queue[i] = L - m + i
    <3>1. CASE i \in 1 .. m
      BY <1>2, <1>3, <3>1
    <3>2. CASE i = m + 1
      <4>1. L + 1 = L - m + (m + 1)
        BY <1>1
      <4>2. QED
        BY <1>2, <3>2, <4>1
    <3>3. QED
      BY <1>6, <3>1, <3>2
  <2>2. \A i \in 1 .. Len(h.queue) : h.queue[i] = Len(ans) - Len(h.queue) + i
    BY <1>2, <1>5, <2>1
  <2>3. QED
    BY <1>5, <2>2 DEF QueueIsLast
<1>9. Len(<<>>) = 0
  BY EmptySeq
<1>10. ASSUME NEW k \in 1 .. L + 1
       PROVE  Len(ans[k]) <= 1 /\ (k > L - m => ans[k] = <<>>)
  <2>1. CASE k \in 1 .. L
    BY <1>2, <1>4, <2>1
  <2>2. CASE k = L + 1
    BY <1>2, <1>9, <2>2
  <2>3. QED
    BY <1>7, <2>1, <2>2
<1>11. \A k \in 1 .. Len(ans) : Len(ans[k]) <= 1 /\ (k > Len(ans) - Len(h.queue) => ans[k] = <<>>)
  BY <1>2, <1>5, <1>10
<1>12. ASSUME NEW k \in 1 .. Len(ans), Len(ans[k]) # 0
       PROVE  k \in 1 .. Len(a) /\ ans[k] = a[k]
  BY <1>2, <1>7, <1>9, <1>12 DEF L
<1>13. Told(h, ans)
  <2>1. \A k \in 1 .. Len(ans) : Len(ans[k]) = 1 => k \in 1 .. Len(a) /\ ans[k] = a[k]
    BY <1>12, OneIsMore, Zenon
  <2>2. QED
    BY <1>11, <2>1 DEF Told
<1>14. QED
  BY <1>8, <1>13

\* The queue and the record of callbacks with one more call.
LEMMA QueueGrows ==
  ASSUME SigTypes, UpdateAgrees(host, answers)
  PROVE  LET h == [host EXCEPT !.queue = Append(@, Len(answers) + 1)]
             ans == Append(answers, <<>>)
         IN /\ h \in Hosts /\ ans \in Tellings /\ Len(ans) = Len(answers) + 1
            /\ h.update = host.update /\ h.command = host.command /\ h.sent = host.sent
            /\ h.active = host.active /\ h.timers = host.timers /\ h.toPeer = host.toPeer
            /\ h.nextId = host.nextId
            /\ h.queue \in Seq(Nat) /\ Len(h.queue) = Len(host.queue) + 1
            /\ \A i \in 1 .. Len(host.queue) : h.queue[i] = host.queue[i]
            /\ h.queue[Len(host.queue) + 1] = Len(answers) + 1
            /\ QueueIsLast(h, ans) /\ Told(h, ans)
<1> DEFINE L == Len(answers)
           q == Append(host.queue, L + 1)
           h == [host EXCEPT !.queue = q]
           ans == Append(answers, <<>>)
<1>1. host \in Hosts /\ answers \in Tellings
  BY DEF SigTypes
<1>2. host.queue \in Seq(Nat) /\ L \in Nat /\ L + 1 \in Nat
  BY <1>1, HostFields, TellingProperties
<1>3. /\ q \in Seq(Nat) /\ Len(q) = Len(host.queue) + 1
      /\ \A i \in 1 .. Len(host.queue) : q[i] = host.queue[i]
      /\ q[Len(host.queue) + 1] = L + 1
  <2> HIDE DEF L
  <2>1. QED
    BY <1>2, AppendElement
<1>4. /\ ans \in Tellings /\ Len(ans) = L + 1
      /\ \A k \in 1 .. L : ans[k] = answers[k]
      /\ ans[L + 1] = <<>>
  <2> DEFINE S == Seq(Int)
  <2>1. answers \in Seq(S) /\ <<>> \in S
    BY <1>1, EmptySeq DEF Tellings
  <2> HIDE DEF S
  <2>2. /\ ans \in Seq(S) /\ Len(ans) = L + 1
        /\ \A k \in 1 .. L : ans[k] = answers[k]
        /\ ans[L + 1] = <<>>
    BY <2>1, AppendProperties
  <2>3. QED
    BY <2>2 DEF S, Tellings
<1> HIDE DEF q, ans
<1>5. /\ h \in Hosts /\ h.queue = q
      /\ h.update = host.update /\ h.command = host.command /\ h.sent = host.sent
      /\ h.active = host.active /\ h.timers = host.timers /\ h.toPeer = host.toPeer
      /\ h.nextId = host.nextId
  BY <1>1, <1>3 DEF Hosts
<1>6. QueueIsLast(host, answers) /\ Told(host, answers)
  BY DEF UpdateAgrees
<1> HIDE DEF h
<1>7. QueueIsLast(h, ans) /\ Told(h, ans)
  BY <1>1, <1>3, <1>4, <1>5, <1>6, OneMoreCall
<1>8. QED
  BY <1>3, <1>4, <1>5, <1>7 DEF h, ans, q

\* updateConnParams, by itself or from the peer's request.
LEMMA CallAgrees ==
  ASSUME SigTypes, link # "down", TimersAgree(host), AnswersAgree(host),
         UpdateAgrees(host, answers), IsSlave => IdsAreFree, Updating(host)
  PROVE  /\ host' \in Hosts /\ answers' \in Tellings
         /\ TimersAgree(host') /\ AnswersAgree(host') /\ RoomForNext(host')
         /\ UpdateAgrees(host', answers')
<1> DEFINE h == [host EXCEPT !.queue = Append(@, Len(answers) + 1)]
           ans == Append(answers, <<>>)
           m == Len(host.queue)
           L == Len(answers)
<1>1. /\ h \in Hosts /\ ans \in Tellings /\ Len(ans) = L + 1
      /\ h.update = host.update /\ h.command = host.command /\ h.sent = host.sent
      /\ h.active = host.active /\ h.timers = host.timers /\ h.toPeer = host.toPeer
      /\ h.nextId = host.nextId
      /\ h.queue \in Seq(Nat) /\ Len(h.queue) = m + 1
      /\ \A i \in 1 .. m : h.queue[i] = host.queue[i]
      /\ h.queue[m + 1] = L + 1
      /\ QueueIsLast(h, ans) /\ Told(h, ans)
  BY QueueGrows
<1>2. answers' = ans /\ host' = IF StartsRun(h.queue) THEN NextUpdate(h) ELSE h
  BY DEF Updating
<1> HIDE DEF h, ans
<1>3. host \in Hosts /\ answers \in Tellings
  BY DEF SigTypes
<1>4. /\ m \in Nat /\ L \in Nat /\ host.update \in Runs /\ (host.queue = <<>> <=> m = 0)
      /\ h.queue # <<>>
  <2>1. host.queue \in Seq(Nat) /\ host.update \in Runs /\ L \in Nat
    BY <1>3, HostFields, TellingProperties
  <2>2. m \in Nat /\ (host.queue = <<>> <=> m = 0)
    BY <2>1, EmptySeq, LenProperties
  <2>3. Len(h.queue) # 0
    BY <1>1, <2>2
  <2>4. QED
    BY <2>1, <2>2, <2>3, EmptySeq
<1>5. RunAgrees(host, answers) /\ SentAgrees(host, answers) /\ Accepted(host)
  BY DEF UpdateAgrees
<1>6. TimersAgree(h) /\ AnswersAgree(h)
  BY <1>1, SameIds
<1>7. IsSlave => NextIsFree(h)
  <2>1. IsSlave => NextIsFree(host)
    BY DEF IdsAreFree, NextIsFree, OnTheWay
  <2>2. QED
    BY <1>1, <2>1, SameIds
<1>8. \A x \in ToSet(h.sent) : x \in 1 .. L /\ x \in 1 .. Len(ans)
  BY <1>1, <1>4, <1>5 DEF SentAgrees
<1>9. m + 1 \in 1 .. m + 1 /\ \A j \in 1 .. m + 1 : j \in 1 .. m \/ j = m + 1
  BY <1>4
<1>10. L + 1 \notin ToSet(h.sent)
  BY <1>4, <1>8
<1>11. CASE StartsRun(h.queue)
  <2>1. m = 0 /\ host.queue = <<>>
    BY <1>1, <1>4, <1>11 DEF StartsRun
  <2>2. host.update.doing = "nothing"
    BY <1>5, <2>1 DEF RunAgrees
  <2>3. h.command = 0 /\ \A r \in h.timers : r.code # "update" /\ r.number < 0
    BY <1>1, <1>5, <2>2 DEF RunAgrees
  <2>4. \A j \in 1 .. Len(h.queue) : h.queue[j] \notin ToSet(h.sent)
    BY <1>1, <1>9, <1>10, <2>1
  <2>5. Between(h, ans)
    BY <1>1, <1>4, <1>6, <1>7, <1>8, <2>3, <2>4 DEF Between
  <2>6. QED
    BY <1>1, <1>2, <1>11, <2>5, NextUpdateAgrees
<1>12. CASE ~StartsRun(h.queue)
  <2>1. host.queue # <<>> /\ host.update.upTo \in Nat /\ host.update.upTo <= m
    <3>1. m # 0
      BY <1>1, <1>4, <1>12 DEF StartsRun
    <3>2. host.update.upTo \in Nat
      BY <1>4 DEF Runs
    <3>3. QED
      BY <1>4, <1>5, <3>1, <3>2 DEF RunAgrees
  <2>2. host.update.doing \in Running =>
          /\ host.update.upTo \in 1 .. m
          /\ h.queue[h.update.upTo] = host.queue[host.update.upTo]
    <3>1. host.update.doing \in Running => host.update.upTo > 0
      BY <1>5 DEF RunAgrees
    <3>2. host.update.doing \in Running => host.update.upTo \in 1 .. m
      BY <1>4, <2>1, <3>1
    <3>3. QED
      BY <1>1, <3>2
  <2>3. RunAgrees(h, ans)
    <3>1. h.update.upTo <= Len(h.queue)
      BY <1>1, <1>4, <2>1
    <3>2. QED
      BY <1>1, <1>4, <1>5, <2>1, <2>2, <3>1 DEF RunAgrees, Running, LastSent
  <2>4. SentAgrees(h, ans)
    <3>1. ASSUME IsSlave, NEW j \in 1 .. Len(h.queue), h.queue[j] \in ToSet(h.sent)
          PROVE  j = h.update.upTo
      <4>1. j \in 1 .. m
        BY <1>1, <1>9, <1>10, <3>1
      <4>2. QED
        BY <1>1, <1>5, <3>1, <4>1 DEF SentAgrees
    <3>2. QED
      BY <1>8, <3>1 DEF SentAgrees
  <2>5. Accepted(h)
    BY <1>1, <1>5, <2>2 DEF Accepted, Running
  <2>6. UpdateAgrees(h, ans)
    BY <1>1, <2>3, <2>4, <2>5 DEF UpdateAgrees
  <2>7. RoomForNext(h)
    BY <1>7 DEF RoomForNext
  <2>8. QED
    BY <1>1, <1>2, <1>6, <1>12, <2>6, <2>7
<1>13. QED
  BY <1>11, <1>12

-----------------------------------------------------------------------------
(* Steps: from what is said of the new record to the invariant of the new state. *)

\* The identifiers, when nothing is under way that was not before.
LEMMA IdsPrimed ==
  ASSUME NEW h, AnswersAgree(h), RoomForNext(h), IsSlave' = IsSlave,
         host'.active = h.active, host'.nextId = h.nextId, host'.timers \subseteq h.timers,
         host'.queue = h.queue, host'.update = h.update,
         \A x \in OnTheWay(host)' : \E y \in OnTheWay(h) : y.id = x.id /\ y.number = x.number
  PROVE  AnswersAgree(host)' /\ RoomForNext(host)'
<1>1. AnswersAgree(host)'
  <2>1. ASSUME NEW x \in OnTheWay(host)'
        PROVE  host'.active[x.id] = None \/ host'.active[x.id].number = x.number
    <3>1. PICK y \in OnTheWay(h) : y.id = x.id /\ y.number = x.number
      OBVIOUS
    <3>2. QED
      BY <3>1 DEF AnswersAgree
  <2>2. QED
    BY <2>1 DEF AnswersAgree, OnTheWay
<1>2. ASSUME NextIsFree(h) PROVE NextIsFree(host)'
  <2>1. ASSUME NEW x \in host'.timers \cup OnTheWay(host)' PROVE x.id # host'.nextId
    <3>1. CASE x \in host'.timers
      BY <1>2, <3>1 DEF NextIsFree
    <3>2. CASE x \in OnTheWay(host)'
      <4>1. PICK y \in OnTheWay(h) : y.id = x.id /\ y.number = x.number
        BY <3>2
      <4>2. QED
        BY <1>2, <4>1 DEF NextIsFree
    <3>3. QED
      BY <3>1, <3>2
  <2>2. QED
    BY <2>1 DEF NextIsFree, OnTheWay
<1>3. RoomForNext(host)'
  BY <1>2 DEF RoomForNext
<1>4. QED
  BY <1>1, <1>3

\* The updates, when no verdict is taken back.
LEMMA UpdatePrimed ==
  ASSUME IsSlave' = IsSlave, verdicts \subseteq verdicts', UpdateAgrees(host', answers')
  PROVE  UpdateAgrees(host, answers)'
<1>1. QueueIsLast(host, answers)'
  BY DEF UpdateAgrees, QueueIsLast
<1>2. RunAgrees(host, answers)'
  <2>1. RunAgrees(host', answers')
    BY DEF UpdateAgrees
  <2>2. QED
    BY <2>1 DEF RunAgrees, LastSent
<1>3. SentAgrees(host, answers)'
  <2>1. SentAgrees(host', answers')
    BY DEF UpdateAgrees
  <2>2. QED
    BY <2>1 DEF SentAgrees
<1>4. Told(host, answers)'
  <2>1. Told(host', answers')
    BY DEF UpdateAgrees
  <2>2. QED
    BY <2>1 DEF Told
<1>5. Accepted(host)'
  <2>1. Accepted(host')
    BY DEF UpdateAgrees
  <2>2. QED
    BY <2>1 DEF Accepted
<1>6. QED
  BY <1>1, <1>2, <1>3, <1>4, <1>5 DEF UpdateAgrees

\* A handler of this end, which takes at most a response off the way.
LEMMA HandlerKeeps ==
  ASSUME SigInv, host' \in Hosts, answers' \in Tellings,
         budget' \in Budgets, budget'.role = budget.role, link' = link, asked' = asked,
         toHost' \in Seq(Responses), ToSet(toHost)' \subseteq ToSet(toHost),
         verdicts' = verdicts, matched',
         link # "down" => TimersAgree(host'), AnswersAgree(host'), RoomForNext(host'),
         UpdateAgrees(host', answers')
  PROVE  SigInv'
<1>1. IsSlave' = IsSlave
  BY DEF IsSlave
<1>2. AnswersAgree(host)' /\ RoomForNext(host)'
  <2>1. OnTheWay(host)' \subseteq OnTheWay(host')
    BY DEF OnTheWay, ToSet
  <2>2. QED
    BY <1>1, <2>1, IdsPrimed
<1>3. UpdateAgrees(host, answers)'
  BY <1>1, UpdatePrimed
<1>4. SigTypes'
  BY DEF SigInv, SigTypes
<1>5. (link # "down" => TimersAgree(host))'
  BY DEF TimersAgree
<1>6. VerdictsAgree'
  BY DEF SigInv, VerdictsAgree
<1>7. QED
  BY <1>2, <1>3, <1>4, <1>5, <1>6 DEF SigInv

\* A step that leaves this end as it is.
LEMMA SameHostKeeps ==
  ASSUME SigInv, UNCHANGED <<host, answers, matched, budget>>, verdicts \subseteq verdicts',
         link' \in {"up", "closing", "down"}, link = "down" => link' = "down",
         asked' \in SUBSET Requests, toHost' \in Seq(Responses), VerdictsAgree',
         \A x \in OnTheWay(host)' : \E y \in OnTheWay(host) : y.id = x.id /\ y.number = x.number
  PROVE  SigInv'
<1>1. IsSlave' = IsSlave
  BY DEF IsSlave
<1>2. AnswersAgree(host)' /\ RoomForNext(host)'
  BY <1>1, IdsPrimed DEF SigInv
<1>3. UpdateAgrees(host, answers)'
  BY <1>1, UpdatePrimed DEF SigInv
<1>4. SigTypes'
  BY DEF SigInv, SigTypes
<1>5. (link # "down" => TimersAgree(host))'
  BY DEF SigInv, TimersAgree
<1>6. QED
  BY <1>2, <1>3, <1>4, <1>5 DEF SigInv

\* The first state.
LEMMA InitSig == Init => SigInv
<1> SUFFICES ASSUME Init PROVE SigInv
  OBVIOUS
<1>1. host.queue = <<>> /\ host.sent = <<>> /\ host.toPeer = <<>> /\ host.timers = {}
  BY DEF Init
<1>2. /\ host.update = Idle /\ host.command = 0 /\ host.nextId = 1
      /\ host.active = [i \in 1 .. MaxId |-> None]
  BY DEF Init
<1>3. answers = <<>> /\ toHost = <<>> /\ asked = {} /\ matched /\ link = "up"
  BY DEF Init
<1>4. /\ Len(host.queue) = 0 /\ Len(answers) = 0 /\ ToSet(host.sent) = {}
      /\ ToSet(toHost) = {} /\ ToSet(host.toPeer) = {}
  BY <1>1, <1>3 DEF ToSet
<1>5. Idle \in Runs /\ Idle.doing = "nothing" /\ Idle.upTo = 0
  BY DEF Idle, Runs, Running
<1>6. SigTypes
  <2>1. 1 \in 1 .. MaxId
    BY SignalingAssumption
  <2>2. [i \in 1 .. MaxId |-> None] \in [1 .. MaxId -> Requests \cup {None}]
    OBVIOUS
  <2>3. host \in Hosts
    BY <1>5, <2>1, <2>2 DEF Init, Hosts
  <2>4. budget \in Budgets
    BY SignalingAssumption DEF Init, Budgets
  <2>5. answers \in Tellings /\ toHost \in Seq(Responses)
    BY <1>3, EmptySeq DEF Tellings
  <2>6. QED
    BY <1>3, <2>3, <2>4, <2>5 DEF SigTypes
<1>7. TimersAgree(host)
  BY <1>1, <1>2 DEF TimersAgree
<1>8. OnTheWay(host) = {}
  BY <1>3, <1>4 DEF OnTheWay
<1>9. AnswersAgree(host) /\ RoomForNext(host) /\ VerdictsAgree
  BY <1>2, <1>4, <1>5, <1>8 DEF AnswersAgree, RoomForNext, VerdictsAgree
<1>10. QueueIsLast(host, answers) /\ Told(host, answers) /\ SentAgrees(host, answers)
  BY <1>4 DEF QueueIsLast, Told, SentAgrees
<1>11. RunAgrees(host, answers) /\ Accepted(host)
  BY <1>1, <1>2, <1>3, <1>4, <1>5 DEF RunAgrees, Accepted, Running
<1>12. QED
  BY <1>3, <1>6, <1>7, <1>9, <1>10, <1>11 DEF SigInv, UpdateAgrees

\* What is spent was there.
LEMMA SpentBudget ==
  ASSUME budget \in Budgets, NEW what \in {"updates", "channels", "events", "asks"},
         Spend(what) \/ (budget[what] > 0 /\ budget' = [budget EXCEPT ![what] = @ - 1])
  PROVE  budget' \in Budgets /\ budget'.role = budget.role
BY DEF Spend, Budgets

\* updateConnParams.
LEMMA UpdateConnParamsKeeps == SigInv /\ UpdateConnParams => SigInv'
<1> SUFFICES ASSUME SigInv, UpdateConnParams PROVE SigInv'
  OBVIOUS
<1>1. /\ SigTypes /\ link # "down" /\ TimersAgree(host) /\ AnswersAgree(host)
      /\ UpdateAgrees(host, answers) /\ matched
      /\ Spend("updates") /\ (IsSlave => IdsAreFree) /\ Updating(host)
      /\ UNCHANGED <<link, toHost, asked, deferred, verdicts, matched, strayed>>
  BY DEF SigInv, UpdateConnParams, history
<1>2. /\ host' \in Hosts /\ answers' \in Tellings
      /\ TimersAgree(host') /\ AnswersAgree(host') /\ RoomForNext(host')
      /\ UpdateAgrees(host', answers')
  BY <1>1, CallAgrees
<1>3. budget \in Budgets /\ toHost' \in Seq(Responses) /\ ToSet(toHost)' \subseteq ToSet(toHost)
  BY <1>1 DEF SigTypes, ToSet
<1>4. budget' \in Budgets /\ budget'.role = budget.role
  BY <1>1, <1>3, SpentBudget
<1>5. QED
  BY <1>1, <1>2, <1>3, <1>4, HandlerKeeps

\* A request of the peer to a master.
LEMMA HandleUpdateRequestKeeps ==
  ASSUME SigInv, NEW listening \in BOOLEAN, HandleUpdateRequest(listening)
  PROVE  SigInv'
<1>1. /\ SigTypes /\ link # "down" /\ TimersAgree(host) /\ AnswersAgree(host)
      /\ RoomForNext(host) /\ UpdateAgrees(host, answers) /\ matched /\ ~IsSlave
      /\ budget["asks"] > 0 /\ budget' = [budget EXCEPT !["asks"] = @ - 1]
      /\ (UNCHANGED <<host, answers>> \/ Updating(host))
      /\ UNCHANGED <<link, toHost, asked, verdicts, matched, strayed>>
  BY DEF SigInv, HandleUpdateRequest, history
<1>2. host \in Hosts /\ answers \in Tellings /\ budget \in Budgets
  BY <1>1 DEF SigTypes
<1>3. /\ host' \in Hosts /\ answers' \in Tellings
      /\ TimersAgree(host') /\ AnswersAgree(host') /\ RoomForNext(host')
      /\ UpdateAgrees(host', answers')
  <2>1. CASE UNCHANGED <<host, answers>>
    <3>1. host' = host /\ answers' = answers
      BY <2>1
    <3>2. QED
      BY <1>1, <1>2, <3>1
  <2>2. CASE Updating(host)
    BY <1>1, <2>2, CallAgrees
  <2>3. QED
    BY <1>1, <2>1, <2>2
<1>4. toHost' \in Seq(Responses) /\ ToSet(toHost)' \subseteq ToSet(toHost)
  BY <1>1 DEF SigTypes, ToSet
<1>5. budget' \in Budgets /\ budget'.role = budget.role
  BY <1>1, <1>2, SpentBudget
<1>6. QED
  BY <1>1, <1>3, <1>4, <1>5, HandlerKeeps

\* A channel of this end is asked for: its number is below that of every call.
LEMMA ConnectKeeps == SigInv /\ Connect => SigInv'
<1> SUFFICES ASSUME SigInv, Connect PROVE SigInv'
  OBVIOUS
<1>1. /\ SigTypes /\ link # "down" /\ TimersAgree(host) /\ AnswersAgree(host)
      /\ RoomForNext(host) /\ UpdateAgrees(host, answers) /\ matched
      /\ Spend("channels") /\ IdsAreFree
      /\ host' = SentRequest(host, -budget.channels, "channel")
      /\ UNCHANGED <<link, toHost, asked, answers, verdicts, matched, strayed>>
  BY DEF SigInv, Connect, history
<1>2. host \in Hosts /\ answers \in Tellings /\ budget \in Budgets
  BY <1>1 DEF SigTypes
<1>3. budget' \in Budgets /\ budget'.role = budget.role
  BY <1>1, <1>2, SpentBudget
<1> DEFINE c == -budget.channels
           r == [number |-> c, id |-> host.nextId, code |-> "channel"]
           g == SentRequest(host, c, "channel")
<1>4. c \in Int /\ c < 0
  BY <1>1, <1>2 DEF Spend, Budgets
<1>5. host' = g
  BY <1>1
<1>a. Sends(host, c, "channel", r, g) /\ "channel" \in Codes
  BY DEF Sends, Codes
<1>b. /\ g = SentRequest(host, c, "channel")
      /\ r.number = c /\ r.code = "channel" /\ r.id = host.nextId
  OBVIOUS
<1> HIDE DEF c, g, r
<1>6. /\ g \in Hosts /\ r \in Requests
      /\ g.queue = host.queue /\ g.update = host.update /\ g.command = host.command
      /\ g.sent = host.sent /\ g.nextId = AfterId(host.nextId)
      /\ g.timers = host.timers \cup {r} /\ g.toPeer = Append(host.toPeer, r)
  <2>1. host \in Hosts /\ c \in Int
    BY <1>2, <1>4
  <2>2. HasSent(host, c, r, g)
    BY <2>1, <1>a, SentRequestFields, Zenon
  <2>3. QED
    BY <2>2 DEF HasSent
<1>7. NextIsFree(host)
  BY <1>1 DEF IdsAreFree, NextIsFree, OnTheWay
<1>8. TimersAgree(g) /\ AnswersAgree(g)
  BY <1>1, <1>2, <1>4, <1>7, <1>a, <1>b, SentRequestIds
<1>9. r.number < 0 /\ r.code = "channel" /\ r.id = host.nextId
  BY <1>4, <1>b
<1>10. NextIsFree(g)
  <2>1. host.toPeer \in Seq(Requests) /\ host.nextId \in 1 .. MaxId
    BY <1>2, HostFields
  <2>2. OnTheWay(g) = OnTheWay(host) \cup {r}
    BY <1>6, <2>1, AppendElement DEF OnTheWay
  <2>3. \A x \in host.timers \cup OnTheWay(host) : x.id # AfterId(host.nextId)
    BY <1>1 DEF IdsAreFree, OnTheWay
  <2>4. r.id # AfterId(host.nextId)
    BY <1>9, <2>1, AfterIdProperties
  <2>5. QED
    BY <1>6, <2>2, <2>3, <2>4 DEF NextIsFree
<1>11. UpdateAgrees(g, answers)
  <2>1. QueueIsLast(g, answers) /\ SentAgrees(g, answers) /\ Accepted(g)
    BY <1>1, <1>6 DEF UpdateAgrees, QueueIsLast, SentAgrees, Accepted
  <2>2. RunAgrees(g, answers)
    <3>1. RunAgrees(host, answers)
      BY <1>1 DEF UpdateAgrees
    <3>2. QED
      BY <1>6, <1>9, <3>1 DEF RunAgrees, LastSent
  <2>3. Told(g, answers)
    <3>1. Told(host, answers)
      BY <1>1 DEF UpdateAgrees
    <3>2. \A k \in 1 .. Len(answers) : r.number # k
      BY <1>2, <1>4, <1>9, TellingProperties DEF r
    <3>3. QED
      BY <1>6, <3>1, <3>2 DEF Told
  <2>4. QED
    BY <2>1, <2>2, <2>3 DEF UpdateAgrees
<1>12. RoomForNext(g)
  BY <1>10 DEF RoomForNext
<1>13. toHost' \in Seq(Responses) /\ ToSet(toHost)' \subseteq ToSet(toHost)
  BY <1>1 DEF SigTypes, ToSet
<1>14. QED
  BY <1>1, <1>2, <1>3, <1>5, <1>6, <1>8, <1>11, <1>12, <1>13, HandlerKeeps

\* The end of a run, as a step.
LEMMA DoneKeeps ==
  ASSUME SigInv, link # "down", host.update.doing \in Running,
         NEW h \in Hosts, h.queue = host.queue, h.sent = host.sent, h.nextId = host.nextId,
         h.toPeer = host.toPeer, NoCommand(h), h.timers \subseteq host.timers,
         \A r \in h.timers : r.code # "update", TimersAgree(h), AnswersAgree(h),
         NEW status \in {-1, 0, 1},
         IsSlave /\ status = 0 => <<host.queue[host.update.upTo], "accept">> \in verdicts,
         IsSlave /\ status = 1 => <<host.queue[host.update.upTo], "refuse">> \in verdicts,
         Done(h, status), UNCHANGED <<link, asked, verdicts>>, matched',
         toHost' \in Seq(Responses), ToSet(toHost)' \subseteq ToSet(toHost)
  PROVE  SigInv'
<1>1. SigTypes /\ RoomForNext(host) /\ UpdateAgrees(host, answers)
  BY DEF SigInv
<1>2. /\ host' \in Hosts /\ answers' \in Tellings
      /\ budget' \in Budgets /\ budget'.role = budget.role
      /\ TimersAgree(host') /\ AnswersAgree(host') /\ RoomForNext(host')
      /\ UpdateAgrees(host', answers')
  BY <1>1, DoneAgrees
<1>3. QED
  BY <1>2, HandlerKeeps

\* What a master's end has besides the invariant.
LEMMA MastersRun ==
  ASSUME SigInv, host.update.doing \in {"updating", "pausing"}
  PROVE  /\ ~IsSlave /\ \A r \in host.timers : r.code # "update" /\ r.number < 0
         /\ host.queue # <<>> /\ host.update.upTo \in 1 .. Len(host.queue)
         /\ host.sent # <<>> /\ LastSent(host) = host.queue[host.update.upTo]
<1>1. RunAgrees(host, answers) /\ host \in Hosts
  BY DEF SigInv, UpdateAgrees, SigTypes
<1>2. host.update.upTo \in Nat /\ Len(host.queue) \in Nat
  BY <1>1, HostFields, LenProperties DEF Runs
<1>3. /\ ~IsSlave /\ host.queue # <<>> /\ host.update.upTo > 0
      /\ host.update.upTo <= Len(host.queue)
      /\ host.sent # <<>> /\ LastSent(host) = host.queue[host.update.upTo]
  BY <1>1 DEF RunAgrees, Running
<1>4. \A r \in host.timers : r.code # "update" /\ r.number < 0
  BY <1>1, <1>3 DEF RunAgrees
<1>5. QED
  BY <1>2, <1>3, <1>4

\* The command of a master ends, for another try or for good.
LEMMA CommandEndsKeeps ==
  ASSUME SigInv, NEW status \in 0 .. 1, CommandEnds(status)
  PROVE  SigInv'
<1>1. /\ link # "down" /\ host.update.doing = "updating"
      /\ UNCHANGED <<link, toHost, asked, verdicts, matched, strayed>>
  BY DEF CommandEnds, history
<1>2. /\ SigTypes /\ TimersAgree(host) /\ AnswersAgree(host)
      /\ RoomForNext(host) /\ UpdateAgrees(host, answers) /\ matched
  BY <1>1 DEF SigInv
<1>3. host \in Hosts /\ answers \in Tellings /\ budget \in Budgets
  BY <1>2 DEF SigTypes
<1>4. toHost' \in Seq(Responses) /\ ToSet(toHost)' \subseteq ToSet(toHost)
  BY <1>1, <1>2 DEF SigTypes, ToSet
<1>5. /\ ~IsSlave /\ \A r \in host.timers : r.code # "update" /\ r.number < 0
      /\ host.queue # <<>> /\ host.update.upTo \in 1 .. Len(host.queue)
      /\ host.sent # <<>> /\ LastSent(host) = host.queue[host.update.upTo]
  BY <1>1, MastersRun
<1>6. CASE status # 0 /\ host.update.tries > 0
  <2> DEFINE u == [host.update EXCEPT !.doing = "pausing", !.tries = @ - 1]
             g == [host EXCEPT !.command = 0, !.update = u]
  <2>1. host' = [host EXCEPT !.command = 0, !.update.doing = "pausing", !.update.tries = @ - 1]
        /\ UNCHANGED <<answers, budget>>
    BY <1>6 DEF CommandEnds
  <2>2. host.update \in Runs
    BY <1>3, HostFields
  <2>3. u \in Runs /\ u.doing = "pausing" /\ u.upTo = host.update.upTo
    <3>1. host.update.tries - 1 \in Nat
      <4>1. host.update.tries \in Nat /\ host.update.tries > 0
        BY <1>6, <2>2 DEF Runs
      <4>2. QED
        BY <4>1
    <3>2. QED
      BY <2>2, <3>1 DEF Runs, Running
  <2>4. host' = g
    BY <1>3, <2>1 DEF Hosts
  <2> HIDE DEF u
  <2>5. /\ g \in Hosts /\ g.queue = host.queue /\ g.update = u /\ g.command = 0
        /\ g.sent = host.sent /\ g.nextId = host.nextId /\ g.toPeer = host.toPeer
        /\ g.active = host.active /\ g.timers = host.timers
    BY <1>3, <2>3 DEF Hosts
  <2> HIDE DEF g
  <2>6. TimersAgree(g) /\ AnswersAgree(g)
    BY <1>2, <2>5, SameIds
  <2>7. RoomForNext(g)
    BY <1>5 DEF RoomForNext
  <2>8. UpdateAgrees(g, answers)
    <3>1. QueueIsLast(g, answers) /\ SentAgrees(g, answers) /\ Told(g, answers)
      BY <1>2, <2>3, <2>5 DEF UpdateAgrees, QueueIsLast, SentAgrees, Told
    <3>2. RunAgrees(g, answers)
      <4>1. RunAgrees(host, answers)
        BY <1>2 DEF UpdateAgrees
      <4>2. g.update.doing = "pausing" /\ g.update.upTo = host.update.upTo
        BY <2>3, <2>5
      <4>3. g.queue = host.queue /\ g.timers = host.timers /\ g.sent = host.sent
        BY <2>5
      <4>4. g.command # 0 => g.update.doing = "updating"
        BY <2>5
      <4>5. g.update.upTo <= Len(g.queue) /\ g.update.upTo > 0
        BY <1>5, <4>2, <4>3
      <4>6. LastSent(g) = g.queue[g.update.upTo]
        BY <1>5, <4>2, <4>3 DEF LastSent
      <4>7. QED
        BY <1>5, <4>2, <4>3, <4>4, <4>5, <4>6 DEF RunAgrees, Running
    <3>3. Accepted(g)
      BY <2>3, <2>5 DEF Accepted
    <3>4. QED
      BY <3>1, <3>2, <3>3 DEF UpdateAgrees
  <2>9. QED
    <3>1. host' \in Hosts /\ answers' \in Tellings /\ budget' \in Budgets /\ budget'.role = budget.role
      BY <1>3, <2>1, <2>4, <2>5
    <3>2. /\ TimersAgree(host') /\ AnswersAgree(host') /\ RoomForNext(host')
          /\ UpdateAgrees(host', answers')
      BY <2>1, <2>4, <2>6, <2>7, <2>8
    <3>3. QED
      BY <1>1, <1>2, <1>4, <3>1, <3>2, HandlerKeeps
<1>7. CASE ~(status # 0 /\ host.update.tries > 0)
  <2> DEFINE h == [host EXCEPT !.command = 0]
  <2>1. Done(h, status)
    BY <1>7 DEF CommandEnds
  <2>2. /\ h \in Hosts /\ h.queue = host.queue /\ NoCommand(h)
        /\ h.sent = host.sent /\ h.nextId = host.nextId /\ h.toPeer = host.toPeer
        /\ h.active = host.active /\ h.timers = host.timers
    BY <1>3 DEF Hosts, NoCommand
  <2> HIDE DEF h
  <2>3. TimersAgree(h) /\ AnswersAgree(h)
    BY <1>2, <2>2, SameIds
  <2>4. status \in {-1, 0, 1}
    OBVIOUS
  <2>5. host.update.doing \in Running
    BY <1>1 DEF Running
  <2>6. \A r \in h.timers : r.code # "update"
    BY <1>5, <2>2
  <2>7. UNCHANGED <<link, asked, verdicts>> /\ matched'
    BY <1>1, <1>2
  <2>8. QED
    BY <1>1, <1>4, <1>5, <2>1, <2>2, <2>3, <2>4, <2>5, <2>6, <2>7, DoneKeeps
<1>8. QED
  BY <1>6, <1>7

\* The timer of a master after a failure.
LEMMA RetryTimerKeeps == SigInv /\ RetryTimer => SigInv'
<1> SUFFICES ASSUME SigInv, RetryTimer PROVE SigInv'
  OBVIOUS
<1> DEFINE number == host.queue[host.update.upTo]
<1>1. /\ link # "down" /\ host.update.doing = "pausing"
      /\ host' = CASE ~RetriesSame -> NextUpdate(host)
                   [] RetriesSame /\ link = "closing" -> [host EXCEPT !.update.doing = "given up"]
                   [] RetriesSame /\ link = "up" ->
                        [host EXCEPT !.update.doing = "updating", !.command = number,
                                     !.sent = Append(@, number)]
      /\ UNCHANGED <<link, toHost, asked, answers, verdicts, matched, strayed, budget>>
  BY DEF RetryTimer, history
<1>2. /\ SigTypes /\ TimersAgree(host) /\ AnswersAgree(host)
      /\ RoomForNext(host) /\ UpdateAgrees(host, answers) /\ matched
  BY <1>1 DEF SigInv
<1>3. host \in Hosts /\ answers \in Tellings /\ budget \in Budgets
  BY <1>2 DEF SigTypes
<1>4. toHost' \in Seq(Responses) /\ ToSet(toHost)' \subseteq ToSet(toHost)
  BY <1>1, <1>2 DEF SigTypes, ToSet
<1>5. /\ ~IsSlave /\ \A r \in host.timers : r.code # "update" /\ r.number < 0
      /\ host.queue # <<>> /\ host.update.upTo \in 1 .. Len(host.queue)
      /\ host.sent # <<>> /\ LastSent(host) = number
  BY <1>1, MastersRun
<1>6. /\ QueueIsLast(host, answers) /\ RunAgrees(host, answers) /\ SentAgrees(host, answers)
      /\ Told(host, answers)
  BY <1>2 DEF UpdateAgrees
<1>7. NoCommand(host)
  BY <1>1, <1>6 DEF RunAgrees, NoCommand
<1> DEFINE Fits(g) == /\ g \in Hosts /\ TimersAgree(g) /\ AnswersAgree(g) /\ RoomForNext(g)
                      /\ UpdateAgrees(g, answers)
<1>8. ASSUME ~RetriesSame PROVE Fits(host')
  <2>1. host' = NextUpdate(host)
    BY <1>1, <1>8
  <2>2. \A x \in ToSet(host.sent) : x \in 1 .. Len(answers)
    BY <1>6 DEF SentAgrees
  <2>3. Between(host, answers)
    BY <1>2, <1>5, <1>6, <1>7, <2>2 DEF Between, NoCommand
  <2>4. Fits(host')
    BY <1>1, <1>2, <1>3, <2>1, <2>3, NextUpdateAgrees
  <2>5. QED
    BY <2>4
<1>9. ASSUME RetriesSame, link = "closing" PROVE Fits(host')
  <2> DEFINE u == [host.update EXCEPT !.doing = "given up"]
             g == [host EXCEPT !.update = u]
  <2>1. host' = [host EXCEPT !.update.doing = "given up"]
    BY <1>1, <1>9
  <2>2. host.update \in Runs
    BY <1>3, HostFields
  <2>3. u \in Runs /\ u.doing = "given up" /\ u.upTo = host.update.upTo
    BY <2>2 DEF Runs, Running
  <2>4. host' = g
    BY <1>3, <2>1 DEF Hosts
  <2> HIDE DEF u
  <2>5. /\ g \in Hosts /\ g.queue = host.queue /\ g.update = u /\ g.command = host.command
        /\ g.sent = host.sent /\ g.nextId = host.nextId /\ g.toPeer = host.toPeer
        /\ g.active = host.active /\ g.timers = host.timers
    BY <1>3, <2>3, WithUpdate
  <2> HIDE DEF g
  <2>6. TimersAgree(g) /\ AnswersAgree(g)
    BY <1>2, <2>5, SameIds
  <2>7. RoomForNext(g)
    BY <1>5 DEF RoomForNext
  <2>8. QueueIsLast(g, answers) /\ SentAgrees(g, answers) /\ Told(g, answers)
    BY <1>6, <2>3, <2>5 DEF QueueIsLast, SentAgrees, Told
  <2>9. RunAgrees(g, answers)
    <3>1. g.update.doing = "given up" /\ g.update.upTo = host.update.upTo
      BY <2>3, <2>5
    <3>2. g.command = 0
      BY <1>7, <2>5 DEF NoCommand
    <3>3. QED
      BY <1>5, <1>6, <2>5, <3>1, <3>2 DEF RunAgrees, LastSent, Running
  <2>10. Accepted(g)
    BY <2>3, <2>5 DEF Accepted
  <2>11. Fits(host')
    BY <2>4, <2>5, <2>6, <2>7, <2>8, <2>9, <2>10 DEF UpdateAgrees
  <2>12. QED
    BY <2>11
<1>10. ASSUME RetriesSame, link = "up" PROVE Fits(host')
  <2> DEFINE u == [host.update EXCEPT !.doing = "updating"]
             sent == Append(host.sent, number)
             g == [host EXCEPT !.update = u, !.command = number, !.sent = sent]
  <2>1. host' = [host EXCEPT !.update.doing = "updating", !.command = number,
                             !.sent = Append(@, number)]
    BY <1>1, <1>10
  <2>2. host.update \in Runs /\ host.sent \in Seq(Nat) /\ number \in Nat
    BY <1>3, <1>5, HostFields, ElementOfSeq
  <2>3. u \in Runs /\ u.doing = "updating" /\ u.upTo = host.update.upTo
    BY <2>2 DEF Runs, Running
  <2>4. host' = g
    BY <1>3, <2>1 DEF Hosts
  <2>5. number \in ToSet(host.sent)
    <3>1. Len(host.sent) \in 1 .. Len(host.sent)
      BY <1>5, <2>2, EmptySeq, LenProperties
    <3>2. QED
      BY <1>5, <2>2, <3>1, ToSetOf DEF LastSent
  <2> HIDE DEF number
  <2>6. /\ sent \in Seq(Nat) /\ sent # <<>> /\ sent[Len(sent)] = number
        /\ ToSet(sent) = ToSet(host.sent)
    <3>1. /\ sent \in Seq(Nat) /\ sent # <<>> /\ Len(sent) = Len(host.sent) + 1
          /\ sent[Len(host.sent) + 1] = number
          /\ ToSet(sent) = ToSet(host.sent) \cup {number}
      <4>1. host.sent \in Seq(Nat) /\ number \in Nat
        BY <2>2
      <4>2. QED
        BY <4>1, AppendElement
    <3> HIDE DEF sent
    <3>2. QED
      BY <2>5, <3>1
  <2> HIDE DEF u, sent
  <2>7. /\ g \in Hosts /\ g.queue = host.queue /\ g.update = u /\ g.sent = sent
        /\ g.nextId = host.nextId /\ g.toPeer = host.toPeer
        /\ g.active = host.active /\ g.timers = host.timers
    BY <1>3, <2>2, <2>3, <2>6 DEF Hosts
  <2> HIDE DEF g
  <2>8. TimersAgree(g) /\ AnswersAgree(g)
    BY <1>2, <2>7, SameIds
  <2>9. RoomForNext(g)
    BY <1>5 DEF RoomForNext
  <2>10. QueueIsLast(g, answers) /\ SentAgrees(g, answers) /\ Told(g, answers)
    BY <1>6, <2>3, <2>6, <2>7 DEF QueueIsLast, SentAgrees, Told
  <2>11. RunAgrees(g, answers)
    <3>1. /\ g.update.doing = "updating" /\ g.update.upTo = host.update.upTo
          /\ g.sent # <<>> /\ LastSent(g) = g.queue[g.update.upTo]
      BY <2>3, <2>6, <2>7 DEF LastSent, number
    <3>2. g.update.upTo > 0 /\ g.update.upTo <= Len(g.queue)
      BY <1>5, <2>7, <3>1
    <3>3. QED
      BY <1>5, <2>7, <3>1, <3>2 DEF RunAgrees, Running
  <2>12. Accepted(g)
    BY <2>3, <2>7 DEF Accepted
  <2>13. Fits(host')
    BY <2>4, <2>7, <2>8, <2>9, <2>10, <2>11, <2>12 DEF UpdateAgrees
  <2>14. QED
    BY <2>13
<1>11. link = "up" \/ link = "closing"
  BY <1>1, <1>2 DEF SigTypes
<1>12. Fits(host') /\ answers' = answers /\ budget' = budget
  BY <1>1, <1>8, <1>9, <1>10, <1>11
<1>13. UpdateAgrees(host', answers')
  BY <1>12
<1>14. QED
  BY <1>1, <1>2, <1>3, <1>4, <1>12, <1>13, HandlerKeeps

\* What a slave's end that waits for the update has besides the invariant.
LEMMA SlavesWait ==
  ASSUME SigInv, host.update.doing = "waiting"
  PROVE  /\ \A r \in host.timers : r.code # "update"
         /\ NoCommand(host) /\ host.update.doing \in Running
         /\ <<host.queue[host.update.upTo], "accept">> \in verdicts
<1>1. RunAgrees(host, answers) /\ Accepted(host)
  BY DEF SigInv, UpdateAgrees
<1>2. QED
  BY <1>1 DEF RunAgrees, Accepted, NoCommand, Running

\* The end of a slave's wait, whatever ends it.
LEMMA WaitEnds ==
  ASSUME SigInv, link # "down", host.update.doing = "waiting", Done(host, 0),
         UNCHANGED <<link, toHost, asked, deferred, history>>
  PROVE  SigInv'
<1>1. /\ SigTypes /\ TimersAgree(host) /\ AnswersAgree(host) /\ matched
  BY DEF SigInv
<1>2. host \in Hosts
  BY <1>1 DEF SigTypes
<1>3. /\ \A r \in host.timers : r.code # "update"
      /\ NoCommand(host) /\ host.update.doing \in Running
      /\ <<host.queue[host.update.upTo], "accept">> \in verdicts
  BY SlavesWait
<1>4. toHost' \in Seq(Responses) /\ ToSet(toHost)' \subseteq ToSet(toHost)
  BY <1>1 DEF SigTypes, ToSet
<1>5. UNCHANGED <<link, asked, verdicts>> /\ matched'
  BY <1>1 DEF history
<1>6. 0 \in {-1, 0, 1} /\ 0 # 1
  OBVIOUS
<1> DEFINE h == host
           status == 0
<1>7. /\ h \in Hosts /\ h.queue = host.queue /\ h.sent = host.sent /\ h.nextId = host.nextId
      /\ h.toPeer = host.toPeer /\ NoCommand(h) /\ h.timers \subseteq host.timers
      /\ TimersAgree(h) /\ AnswersAgree(h) /\ \A r \in h.timers : r.code # "update"
  BY <1>1, <1>2, <1>3
<1>8. /\ status \in {-1, 0, 1} /\ Done(h, status)
      /\ IsSlave /\ status = 0 => <<host.queue[host.update.upTo], "accept">> \in verdicts
      /\ IsSlave /\ status = 1 => <<host.queue[host.update.upTo], "refuse">> \in verdicts
  BY <1>3, <1>6
<1> HIDE DEF h, status
<1>9. QED
  BY <1>3, <1>4, <1>5, <1>7, <1>8, DoneKeeps

\* The update event.
LEMMA ConnectionUpdateKeeps == SigInv /\ ConnectionUpdate => SigInv'
<1> SUFFICES ASSUME SigInv, ConnectionUpdate PROVE SigInv'
  OBVIOUS
<1>1. CASE host.update.doing = "waiting"
  <2>1. link # "down" /\ Done(host, 0) /\ UNCHANGED <<link, toHost, asked, deferred, history>>
    BY <1>1 DEF ConnectionUpdate
  <2>2. QED
    BY <1>1, <2>1, WaitEnds
<1>2. CASE host.update.doing # "waiting"
  <2> DEFINE u == [host.update EXCEPT !.hook = FALSE]
             g == [host EXCEPT !.update = u]
  <2>1. /\ link # "down" /\ budget["events"] > 0
        /\ budget' = [budget EXCEPT !["events"] = @ - 1]
        /\ host' = [host EXCEPT !.update.hook = FALSE]
        /\ UNCHANGED <<link, toHost, asked, answers, verdicts, matched, strayed>>
    BY <1>2 DEF ConnectionUpdate, history
  <2>2. /\ SigTypes /\ TimersAgree(host) /\ AnswersAgree(host)
        /\ RoomForNext(host) /\ UpdateAgrees(host, answers) /\ matched
    BY <2>1 DEF SigInv
  <2>3. host \in Hosts /\ answers \in Tellings /\ budget \in Budgets
    BY <2>2 DEF SigTypes
  <2>4. host.update \in Runs
    BY <2>3, HostFields
  <2>5. u \in Runs /\ u.doing = host.update.doing /\ u.upTo = host.update.upTo
    BY <2>4 DEF Runs
  <2>6. host' = g
    BY <2>1, <2>3 DEF Hosts
  <2> HIDE DEF u
  <2>7. /\ g \in Hosts /\ g.queue = host.queue /\ g.update = u /\ g.command = host.command
        /\ g.sent = host.sent /\ g.nextId = host.nextId /\ g.toPeer = host.toPeer
        /\ g.active = host.active /\ g.timers = host.timers
    BY <2>3, <2>5, WithUpdate
  <2> HIDE DEF g
  <2>8. TimersAgree(g) /\ AnswersAgree(g) /\ (NextIsFree(host) => NextIsFree(g))
    BY <2>2, <2>7, SameIds
  <2>9. g.update.doing = host.update.doing /\ g.update.upTo = host.update.upTo
    BY <2>5, <2>7
  <2>10. RoomForNext(g)
    BY <2>2, <2>7, <2>8, <2>9 DEF RoomForNext
  <2>11. UpdateAgrees(g, answers)
    <3>1. QueueIsLast(g, answers) /\ SentAgrees(g, answers) /\ Told(g, answers)
      BY <2>2, <2>7, <2>9 DEF UpdateAgrees, QueueIsLast, SentAgrees, Told
    <3>2. RunAgrees(g, answers)
      BY <2>2, <2>7, <2>9 DEF UpdateAgrees, RunAgrees, LastSent
    <3>3. Accepted(g)
      BY <2>2, <2>7, <2>9 DEF UpdateAgrees, Accepted
    <3>4. QED
      BY <3>1, <3>2, <3>3 DEF UpdateAgrees
  <2>12. budget' \in Budgets /\ budget'.role = budget.role
    BY <2>1, <2>3, SpentBudget
  <2>13. toHost' \in Seq(Responses) /\ ToSet(toHost)' \subseteq ToSet(toHost)
    BY <2>1, <2>2 DEF SigTypes, ToSet
  <2>14. /\ host' \in Hosts /\ answers' \in Tellings /\ TimersAgree(host') /\ AnswersAgree(host')
         /\ RoomForNext(host') /\ UpdateAgrees(host', answers')
    BY <2>1, <2>3, <2>6, <2>7, <2>8, <2>10, <2>11
  <2>15. QED
    BY <2>1, <2>2, <2>12, <2>13, <2>14, HandlerKeeps
<1>3. QED
  BY <1>1, <1>2

\* The 30 s without an update.
LEMMA UpdateTimerKeeps == SigInv /\ UpdateTimer => SigInv'
BY WaitEnds DEF UpdateTimer

\* A request is settled: the end without it.
LEMMA SettledAgrees ==
  ASSUME SigInv, link # "down", NEW r \in host.timers
  PROVE  LET h == Without(host, r)
         IN /\ h \in Hosts /\ r \in Requests
            /\ h.queue = host.queue /\ h.update = host.update /\ h.sent = host.sent
            /\ h.nextId = host.nextId /\ h.toPeer = host.toPeer /\ h.command = host.command
            /\ h.timers = host.timers \ {r}
            /\ TimersAgree(h) /\ AnswersAgree(h) /\ RoomForNext(h) /\ UpdateAgrees(h, answers)
            /\ r.code = "update" =>
                 /\ IsSlave /\ host.update.doing = "asking" /\ NoCommand(h)
                 /\ host.update.doing \in Running
                 /\ r.number = host.queue[host.update.upTo]
                 /\ \A x \in h.timers : x.code # "update"
<1> DEFINE h == Without(host, r)
<1>1. /\ SigTypes /\ TimersAgree(host) /\ AnswersAgree(host)
      /\ RoomForNext(host) /\ UpdateAgrees(host, answers)
  BY DEF SigInv
<1>2. host \in Hosts /\ r \in Requests
  BY <1>1, HostFields DEF SigTypes
<1>3. /\ h \in Hosts
      /\ h.queue = host.queue /\ h.update = host.update /\ h.command = host.command
      /\ h.sent = host.sent /\ h.nextId = host.nextId /\ h.toPeer = host.toPeer
      /\ h.timers = host.timers \ {r}
  BY <1>2, WithoutFields
<1>4. TimersAgree(h) /\ AnswersAgree(h) /\ (NextIsFree(host) => NextIsFree(h))
  BY <1>1, <1>2, WithoutIds
<1> HIDE DEF h
<1>5. RoomForNext(h)
  BY <1>1, <1>3, <1>4 DEF RoomForNext
<1>6. UpdateAgrees(h, answers)
  <2>1. QueueIsLast(h, answers) /\ SentAgrees(h, answers) /\ Told(h, answers) /\ Accepted(h)
    BY <1>1, <1>3 DEF UpdateAgrees, QueueIsLast, SentAgrees, Told, Accepted
  <2>2. RunAgrees(h, answers)
    BY <1>1, <1>3 DEF UpdateAgrees, RunAgrees, LastSent
  <2>3. QED
    BY <2>1, <2>2 DEF UpdateAgrees
<1>7. ASSUME r.code = "update"
      PROVE  /\ IsSlave /\ host.update.doing = "asking" /\ NoCommand(h)
             /\ host.update.doing \in Running
             /\ r.number = host.queue[host.update.upTo]
             /\ \A x \in h.timers : x.code # "update"
  <2>1. RunAgrees(host, answers)
    BY <1>1 DEF UpdateAgrees
  <2>2. IsSlave /\ host.update.doing = "asking" /\ r.number = host.queue[host.update.upTo]
    BY <1>7, <2>1 DEF RunAgrees
  <2>3. NoCommand(h)
    BY <1>3, <2>1, <2>2 DEF RunAgrees, NoCommand
  <2>4. \A x \in h.timers : x.code # "update"
    BY <1>3, <1>7, <2>1 DEF RunAgrees
  <2>5. QED
    BY <2>2, <2>3, <2>4 DEF Running
<1>8. QED
  BY <1>2, <1>3, <1>4, <1>5, <1>6, <1>7 DEF h

\* A request that is settled without a response.
LEMMA FailedKeeps ==
  ASSUME SigInv, link # "down", NEW r \in host.timers, Failed(Without(host, r), r),
         UNCHANGED <<link, asked, verdicts>>, matched',
         toHost' \in Seq(Responses), ToSet(toHost)' \subseteq ToSet(toHost)
  PROVE  SigInv'
<1> DEFINE h == Without(host, r)
<1>1. /\ h \in Hosts /\ r \in Requests
      /\ h.queue = host.queue /\ h.update = host.update /\ h.sent = host.sent
      /\ h.nextId = host.nextId /\ h.toPeer = host.toPeer
      /\ h.timers = host.timers \ {r}
      /\ TimersAgree(h) /\ AnswersAgree(h) /\ RoomForNext(h) /\ UpdateAgrees(h, answers)
      /\ r.code = "update" =>
           /\ IsSlave /\ NoCommand(h) /\ host.update.doing \in Running
           /\ \A x \in h.timers : x.code # "update"
  BY SettledAgrees
<1>2. Failed(h, r)
  OBVIOUS
<1> HIDE DEF h
<1>3. CASE r.code = "update"
  <2> DEFINE status == -1
  <2>1. Done(h, status)
    BY <1>2, <1>3 DEF Failed
  <2>2. status \in {-1, 0, 1} /\ status # 0 /\ status # 1
    OBVIOUS
  <2> HIDE DEF status
  <2>3. QED
    BY <1>1, <1>3, <2>1, <2>2, DoneKeeps
<1>4. CASE r.code # "update"
  <2>1. host' = h /\ UNCHANGED <<answers, budget>>
    BY <1>2, <1>4 DEF Failed
  <2>2. answers \in Tellings /\ budget \in Budgets
    BY DEF SigInv, SigTypes
  <2>3. /\ host' \in Hosts /\ answers' \in Tellings /\ budget' \in Budgets
        /\ budget'.role = budget.role /\ TimersAgree(host') /\ AnswersAgree(host')
        /\ RoomForNext(host') /\ UpdateAgrees(host', answers')
    BY <1>1, <2>1, <2>2
  <2>4. QED
    BY <2>3, HandlerKeeps
<1>5. QED
  BY <1>3, <1>4

\* A request of which the timer runs out.
LEMMA RequestTimesOutKeeps ==
  ASSUME SigInv, NEW r \in host.timers, RequestTimesOut(r)
  PROVE  SigInv'
<1>1. /\ link # "down" /\ Failed(Without(host, r), r)
      /\ UNCHANGED <<link, toHost, asked, verdicts, matched>>
  BY DEF RequestTimesOut, Without, history
<1>2. matched /\ toHost \in Seq(Responses)
  BY DEF SigInv, SigTypes
<1>3. toHost' \in Seq(Responses) /\ ToSet(toHost)' \subseteq ToSet(toHost)
  BY <1>1, <1>2 DEF ToSet
<1>4. QED
  BY <1>1, <1>2, <1>3, FailedKeeps

\* The response to an update request, with the verdict of the peer on its parameters.
LEMMA UpdateAnsweredKeeps ==
  ASSUME SigInv, link # "down", NEW r \in host.timers, r.code = "update",
         NEW answer \in {"accept", "refuse"}, <<r.number, answer>> \in verdicts,
         UpdateAnswered(Without(host, r), answer),
         UNCHANGED <<link, asked, verdicts>>, matched',
         toHost' \in Seq(Responses), ToSet(toHost)' \subseteq ToSet(toHost)
  PROVE  SigInv'
<1> DEFINE h == Without(host, r)
<1>1. /\ h \in Hosts /\ r \in Requests
      /\ h.queue = host.queue /\ h.update = host.update /\ h.sent = host.sent
      /\ h.nextId = host.nextId /\ h.toPeer = host.toPeer
      /\ h.timers = host.timers \ {r}
      /\ TimersAgree(h) /\ AnswersAgree(h) /\ RoomForNext(h) /\ UpdateAgrees(h, answers)
      /\ IsSlave /\ host.update.doing = "asking" /\ NoCommand(h)
      /\ host.update.doing \in Running
      /\ r.number = host.queue[host.update.upTo]
      /\ \A x \in h.timers : x.code # "update"
  BY SettledAgrees
<1>2. UpdateAnswered(h, answer)
  OBVIOUS
<1>3. <<host.queue[host.update.upTo], answer>> \in verdicts
  BY <1>1
<1> HIDE DEF h
<1>4. CASE MustWait(answer)
  <2> DEFINE u == [h.update EXCEPT !.doing = "waiting", !.accept = TRUE]
             g == [h EXCEPT !.update = u]
  <2>1. /\ host' = [h EXCEPT !.update.doing = "waiting", !.update.accept = TRUE]
        /\ UNCHANGED <<answers, budget>>
    BY <1>2, <1>4 DEF UpdateAnswered
  <2>2. answer = "accept"
    BY <1>4 DEF MustWait
  <2>3. h.update \in Runs
    BY <1>1, HostFields
  <2>4. u \in Runs /\ u.doing = "waiting" /\ u.upTo = host.update.upTo
    BY <1>1, <2>3 DEF Runs, Running
  <2>5. host' = g
    BY <1>1, <2>1 DEF Hosts
  <2> HIDE DEF u
  <2>6. /\ g \in Hosts /\ g.queue = h.queue /\ g.update = u /\ g.command = h.command
        /\ g.sent = h.sent /\ g.nextId = h.nextId /\ g.toPeer = h.toPeer
        /\ g.active = h.active /\ g.timers = h.timers
    BY <1>1, <2>4, WithUpdate
  <2> HIDE DEF g
  <2>7. TimersAgree(g) /\ AnswersAgree(g) /\ (NextIsFree(h) => NextIsFree(g))
    BY <1>1, <2>6, SameIds
  <2>8. g.update.doing = "waiting" /\ g.update.upTo = host.update.upTo /\ g.queue = host.queue
    BY <1>1, <2>4, <2>6
  <2>9. RoomForNext(g)
    BY <1>1, <2>7, <2>8 DEF RoomForNext
  <2>10. UpdateAgrees(g, answers)
    <3>1. QueueIsLast(g, answers) /\ SentAgrees(g, answers) /\ Told(g, answers)
      BY <1>1, <2>6, <2>8 DEF UpdateAgrees, QueueIsLast, SentAgrees, Told
    <3>2. RunAgrees(g, answers)
      <4>1. RunAgrees(h, answers)
        BY <1>1 DEF UpdateAgrees
      <4>2. g.timers = h.timers /\ g.sent = h.sent /\ g.queue = h.queue
            /\ g.command = h.command /\ g.update.upTo = h.update.upTo
            /\ h.update.doing = "asking"
        BY <1>1, <2>6, <2>8
      <4>3. g.command # 0 => g.update.doing = "updating"
        BY <1>1, <4>2 DEF NoCommand
      <4>4. QED
        BY <1>1, <2>8, <4>1, <4>2, <4>3 DEF RunAgrees, LastSent, Running
    <3>3. Accepted(g)
      BY <1>3, <2>2, <2>8 DEF Accepted
    <3>4. QED
      BY <3>1, <3>2, <3>3 DEF UpdateAgrees
  <2>11. answers \in Tellings /\ budget \in Budgets
    BY DEF SigInv, SigTypes
  <2>12. /\ host' \in Hosts /\ answers' \in Tellings /\ budget' \in Budgets
         /\ budget'.role = budget.role /\ TimersAgree(host') /\ AnswersAgree(host')
         /\ RoomForNext(host') /\ UpdateAgrees(host', answers')
    BY <2>1, <2>5, <2>6, <2>7, <2>9, <2>10, <2>11
  <2>13. QED
    BY <2>12, HandlerKeeps
<1>5. CASE ~MustWait(answer)
  <2> DEFINE status == IF answer = "accept" THEN 0 ELSE 1
  <2>1. Done(h, status)
    BY <1>2, <1>5 DEF UpdateAnswered
  <2>2. /\ status \in {-1, 0, 1}
        /\ status = 0 => <<host.queue[host.update.upTo], "accept">> \in verdicts
        /\ status = 1 => <<host.queue[host.update.upTo], "refuse">> \in verdicts
    BY <1>3
  <2> HIDE DEF status
  <2>3. QED
    BY <1>1, <2>1, <2>2, DoneKeeps
<1>6. QED
  BY <1>4, <1>5

\* A response arrives: it is to the request that is active under its identifier, or to none.
LEMMA HandleResponseKeeps == SigInv /\ HandleResponse => SigInv'
<1> SUFFICES ASSUME SigInv, HandleResponse PROVE SigInv'
  OBVIOUS
<1> DEFINE m == Head(toHost)
           r == host.active[m.id]
           Ignored == r = None \/ (m.code # r.code /\ m.answer # "reject")
<1>1. /\ toHost # <<>> /\ link # "down" /\ toHost' = Tail(toHost)
      /\ UNCHANGED <<link, asked, verdicts>>
      /\ IF Ignored
         THEN UNCHANGED <<host, answers, matched, budget>>
         ELSE /\ matched' = (matched /\ m.number = r.number)
              /\ CASE m.answer = "reject" -> Failed(Without(host, r), r)
                   [] m.answer # "reject" /\ r.code = "update" ->
                        UpdateAnswered(Without(host, r), m.answer)
                   [] OTHER -> host' = Without(host, r) /\ UNCHANGED <<answers, budget>>
  BY DEF HandleResponse
<1>2. /\ SigTypes /\ TimersAgree(host) /\ AnswersAgree(host)
      /\ RoomForNext(host) /\ UpdateAgrees(host, answers) /\ matched /\ VerdictsAgree
  BY <1>1 DEF SigInv
<1>3. /\ toHost \in Seq(Responses) /\ host \in Hosts
      /\ answers \in Tellings /\ budget \in Budgets
  BY <1>2 DEF SigTypes
<1>4. /\ toHost' \in Seq(Responses) /\ ToSet(toHost') \subseteq ToSet(toHost)
      /\ m \in ToSet(toHost) /\ m \in Responses
  BY <1>1, <1>3, TailElements
<1>5. ToSet(toHost)' \subseteq ToSet(toHost)
  BY <1>4 DEF ToSet
<1>6. m.id \in 1 .. MaxId /\ m.answer \in Verdicts /\ <<m.number, m.answer>> \in verdicts
  BY <1>2, <1>4 DEF Responses, VerdictsAgree
<1> HIDE DEF m
<1>7. CASE Ignored
  <2>1. UNCHANGED <<host, answers, matched, budget>>
    BY <1>1, <1>7
  <2>2. /\ host' \in Hosts /\ answers' \in Tellings /\ budget' \in Budgets /\ matched'
        /\ budget'.role = budget.role /\ TimersAgree(host') /\ AnswersAgree(host')
        /\ RoomForNext(host') /\ UpdateAgrees(host', answers')
    BY <1>2, <1>3, <2>1
  <2>3. QED
    BY <1>1, <1>4, <1>5, <2>2, HandlerKeeps
<1>8. CASE ~Ignored
  <2>1. r # None /\ r \in host.timers /\ r.number = m.number
    <3>1. r # None
      BY <1>8
    <3>2. r.id = m.id /\ r \in host.timers
      BY <1>2, <1>6, <3>1 DEF TimersAgree
    <3>3. m \in OnTheWay(host)
      BY <1>4 DEF OnTheWay
    <3>4. QED
      BY <1>2, <3>1, <3>2, <3>3 DEF AnswersAgree
  <2>2. matched'
    BY <1>1, <1>2, <1>8, <2>1
  <2>3. CASE m.answer = "reject"
    <3>1. Failed(Without(host, r), r)
      BY <1>1, <1>8, <2>3
    <3> HIDE DEF r
    <3>2. QED
      BY <1>1, <1>4, <1>5, <2>1, <2>2, <3>1, FailedKeeps
  <2>4. CASE m.answer # "reject" /\ r.code = "update"
    <3>1. UpdateAnswered(Without(host, r), m.answer)
      BY <1>1, <1>8, <2>4
    <3>2. m.answer \in {"accept", "refuse"} /\ <<r.number, m.answer>> \in verdicts
      BY <1>6, <2>1, <2>4 DEF Verdicts
    <3> HIDE DEF r
    <3>3. QED
      BY <1>1, <1>4, <1>5, <2>1, <2>2, <2>4, <3>1, <3>2, UpdateAnsweredKeeps
  <2>5. CASE m.answer # "reject" /\ r.code # "update"
    <3>1. host' = Without(host, r) /\ UNCHANGED <<answers, budget>>
      BY <1>1, <1>8, <2>5
    <3> HIDE DEF r
    <3>2. Failed(Without(host, r), r)
      BY <2>5, <3>1 DEF Failed
    <3>3. QED
      BY <1>1, <1>4, <1>5, <2>1, <2>2, <3>2, FailedKeeps
  <2>6. QED
    BY <2>3, <2>4, <2>5
<1>9. QED
  BY <1>7, <1>8

\* The peer takes what is under way to it.
LEMMA PeerReceivesKeeps == SigInv /\ PeerReceives => SigInv'
<1> SUFFICES ASSUME SigInv, PeerReceives PROVE SigInv'
  OBVIOUS
<1> DEFINE g == [host EXCEPT !.toPeer = Tail(@)]
<1>1. /\ host.toPeer # <<>> /\ host' = g
      /\ asked' = asked \cup {Head(host.toPeer)}
      /\ UNCHANGED <<link, toHost, answers, verdicts, matched, strayed, budget>>
  BY DEF PeerReceives, history
<1>2. /\ SigTypes /\ (link # "down" => TimersAgree(host)) /\ AnswersAgree(host)
      /\ RoomForNext(host) /\ UpdateAgrees(host, answers) /\ matched /\ VerdictsAgree
  BY DEF SigInv
<1>3. host \in Hosts /\ answers \in Tellings
  BY <1>2 DEF SigTypes
<1>4. host.toPeer \in Seq(Requests)
  BY <1>3, HostFields
<1>5. /\ Tail(host.toPeer) \in Seq(Requests) /\ Head(host.toPeer) \in Requests
      /\ Head(host.toPeer) \in ToSet(host.toPeer)
      /\ ToSet(Tail(host.toPeer)) \subseteq ToSet(host.toPeer)
  BY <1>1, <1>4, TailElements
<1>6. /\ g \in Hosts /\ g.queue = host.queue /\ g.update = host.update
      /\ g.command = host.command /\ g.sent = host.sent /\ g.nextId = host.nextId
      /\ g.active = host.active /\ g.timers = host.timers
      /\ g.toPeer = Tail(host.toPeer)
  BY <1>3, <1>5 DEF Hosts
<1> HIDE DEF g
<1>7. SigTypes'
  BY <1>1, <1>2, <1>5, <1>6 DEF SigTypes
<1>8. IsSlave' = IsSlave
  BY <1>1 DEF IsSlave
<1>9. AnswersAgree(host)' /\ RoomForNext(host)'
  <2>1. OnTheWay(host)' \subseteq OnTheWay(host)
    <3>1. ToSet(toHost)' = ToSet(toHost)
      BY <1>1 DEF ToSet
    <3>2. ToSet(host.toPeer)' \subseteq ToSet(host.toPeer)
      BY <1>1, <1>5, <1>6 DEF ToSet
    <3>3. asked' \subseteq asked \cup ToSet(host.toPeer)
      BY <1>1, <1>5
    <3>4. OnTheWay(host)' = asked' \cup ToSet(toHost)' \cup ToSet(host.toPeer)'
      BY DEF OnTheWay, ToSet
    <3>5. QED
      BY <3>1, <3>2, <3>3, <3>4 DEF OnTheWay
  <2>2. QED
    BY <1>1, <1>2, <1>6, <1>8, <2>1, IdsPrimed
<1>10. UpdateAgrees(host, answers)'
  <2>1. UpdateAgrees(g, answers)
    <3>1. QueueIsLast(g, answers) /\ SentAgrees(g, answers) /\ Told(g, answers) /\ Accepted(g)
      BY <1>2, <1>6 DEF UpdateAgrees, QueueIsLast, SentAgrees, Told, Accepted
    <3>2. RunAgrees(g, answers)
      BY <1>2, <1>6 DEF UpdateAgrees, RunAgrees, LastSent
    <3>3. QED
      BY <3>1, <3>2 DEF UpdateAgrees
  <2>2. UpdateAgrees(host', answers')
    BY <1>1, <2>1
  <2>3. QED
    BY <1>1, <1>8, <2>2, UpdatePrimed
<1>11. (link # "down" => TimersAgree(host))'
  BY <1>1, <1>2, <1>6 DEF TimersAgree
<1>12. VerdictsAgree'
  BY <1>1, <1>2 DEF VerdictsAgree, ToSet
<1>13. QED
  BY <1>1, <1>2, <1>7, <1>9, <1>10, <1>11, <1>12 DEF SigInv

\* The peer answers, in the name of the request it answers.
LEMMA PeerAnswersKeeps ==
  ASSUME SigInv, NEW r \in asked, NEW answer \in Verdicts, PeerAnswers(r, answer)
  PROVE  SigInv'
<1> DEFINE m == [number |-> r.number, id |-> r.id, code |-> r.code, answer |-> answer]
<1>1. /\ asked' = asked \ {r} /\ toHost' = Append(toHost, m)
      /\ verdicts' = verdicts \cup {<<r.number, answer>>}
      /\ UNCHANGED <<link, host, answers, matched, strayed, budget>>
  BY DEF PeerAnswers
<1>2. SigTypes /\ VerdictsAgree
  BY DEF SigInv
<1>3. toHost \in Seq(Responses) /\ asked \subseteq Requests
  BY <1>2 DEF SigTypes
<1>4. m \in Responses /\ m.number = r.number /\ m.answer = answer /\ m.id = r.id
  BY <1>3 DEF Requests, Responses
<1> HIDE DEF m
<1>5. toHost' \in Seq(Responses) /\ ToSet(toHost') = ToSet(toHost) \cup {m}
  BY <1>1, <1>3, <1>4, AppendElement
<1>6. ToSet(toHost)' = ToSet(toHost) \cup {m}
  BY <1>5 DEF ToSet
<1>7. \A x \in OnTheWay(host)' : \E y \in OnTheWay(host) : y.id = x.id /\ y.number = x.number
  <2>1. OnTheWay(host)' = asked' \cup ToSet(toHost)' \cup ToSet(host.toPeer)'
    BY DEF OnTheWay, ToSet
  <2>2. ToSet(host.toPeer)' = ToSet(host.toPeer)
    BY <1>1 DEF ToSet
  <2>3. \A x \in OnTheWay(host)' : x \in OnTheWay(host) \/ x = m
    BY <1>1, <1>6, <2>1, <2>2 DEF OnTheWay
  <2>4. r \in OnTheWay(host)
    BY DEF OnTheWay
  <2>5. QED
    BY <1>4, <2>3, <2>4
<1>8. VerdictsAgree'
  <2>1. \A x \in ToSet(toHost)' : <<x.number, x.answer>> \in verdicts'
    BY <1>1, <1>2, <1>4, <1>6 DEF VerdictsAgree
  <2>2. QED
    BY <2>1 DEF VerdictsAgree
<1>9. link \in {"up", "closing", "down"} /\ link' = link
  BY <1>1, <1>2 DEF SigTypes
<1>10. /\ UNCHANGED <<host, answers, matched, budget>> /\ verdicts \subseteq verdicts'
       /\ asked' \in SUBSET Requests
  BY <1>1, <1>3
<1>11. QED
  BY <1>5, <1>7, <1>8, <1>9, <1>10, SameHostKeeps

\* Steps that leave this end and what it was told, with nothing new under way.
LEMMA QuietKeeps ==
  ASSUME SigInv, UNCHANGED <<host, toHost, answers, verdicts, matched, budget>>,
         link' \in {"up", "closing", "down"}, link = "down" => link' = "down",
         asked' \subseteq asked
  PROVE  SigInv'
<1>1. SigTypes /\ VerdictsAgree
  BY DEF SigInv
<1>2. asked' \in SUBSET Requests /\ toHost' \in Seq(Responses)
  BY <1>1 DEF SigTypes
<1>3. VerdictsAgree'
  BY <1>1 DEF VerdictsAgree, ToSet
<1>4. OnTheWay(host)' \subseteq OnTheWay(host)
  BY DEF OnTheWay, ToSet
<1>5. QED
  BY <1>2, <1>3, <1>4, SameHostKeeps

\* The link goes down: timers, commands and packets are gone, the queue stays as it is.
LEMMA LinkDownKeeps == SigInv /\ LinkDown => SigInv'
<1> SUFFICES ASSUME SigInv, LinkDown PROVE SigInv'
  OBVIOUS
<1> DEFINE g == [host EXCEPT !.timers = {}, !.toPeer = <<>>, !.command = 0]
<1>1. /\ link' = "down" /\ host' = g /\ toHost' = <<>> /\ asked' = {}
      /\ UNCHANGED <<answers, verdicts, matched, strayed, budget>>
  BY DEF LinkDown, history
<1>2. SigTypes /\ RoomForNext(host) /\ UpdateAgrees(host, answers) /\ matched
  BY DEF SigInv
<1>3. host \in Hosts
  BY <1>2 DEF SigTypes
<1>4. /\ g \in Hosts /\ g.queue = host.queue /\ g.update = host.update /\ g.command = 0
      /\ g.sent = host.sent /\ g.nextId = host.nextId /\ g.active = host.active
      /\ g.timers = {} /\ g.toPeer = <<>>
  BY <1>3, EmptySeq DEF Hosts
<1> HIDE DEF g
<1>5. SigTypes'
  BY <1>1, <1>2, <1>4, EmptySeq DEF SigTypes
<1>6. IsSlave' = IsSlave
  BY <1>1 DEF IsSlave
<1>7. ToSet(toHost)' = {} /\ ToSet(host.toPeer)' = {}
  BY <1>1, <1>4 DEF ToSet
<1>8. OnTheWay(host)' = {}
  BY <1>1, <1>7 DEF OnTheWay, ToSet
<1>9. AnswersAgree(host)' /\ RoomForNext(host)'
  <2>1. AnswersAgree(host)'
    BY <1>8 DEF AnswersAgree, OnTheWay
  <2>2. NextIsFree(host)'
    BY <1>1, <1>4, <1>8 DEF NextIsFree, OnTheWay
  <2>3. QED
    BY <2>1, <2>2 DEF RoomForNext
<1>10. UpdateAgrees(g, answers)
  <2>1. QueueIsLast(g, answers) /\ SentAgrees(g, answers) /\ Told(g, answers) /\ Accepted(g)
    BY <1>2, <1>4 DEF UpdateAgrees, QueueIsLast, SentAgrees, Told, Accepted
  <2>2. RunAgrees(g, answers)
    BY <1>2, <1>4 DEF UpdateAgrees, RunAgrees, LastSent
  <2>3. QED
    BY <2>1, <2>2 DEF UpdateAgrees
<1>11. UpdateAgrees(host, answers)'
  <2>1. UpdateAgrees(host', answers')
    BY <1>1, <1>10
  <2>2. QED
    BY <1>1, <1>6, <2>1, UpdatePrimed
<1>12. VerdictsAgree'
  BY <1>7 DEF VerdictsAgree
<1>13. QED
  BY <1>1, <1>2, <1>5, <1>9, <1>11, <1>12 DEF SigInv

\* Every step keeps the invariant.
LEMMA NextKeeps == SigInv /\ [Next]_vars => SigInv'
<1> SUFFICES ASSUME SigInv, [Next]_vars PROVE SigInv'
  OBVIOUS
<1>1. ASSUME NEW s \in 0 .. 1, CommandEnds(s) PROVE SigInv'
  BY <1>1, CommandEndsKeeps
<1>2. ASSUME NEW r \in host.timers, RequestTimesOut(r) PROVE SigInv'
  BY <1>2, RequestTimesOutKeeps
<1>3. ASSUME NEW r \in asked, NEW a \in {"accept", "refuse", "reject"}, PeerAnswers(r, a)
      PROVE  SigInv'
  BY <1>3, PeerAnswersKeeps DEF Verdicts
<1>4. link \in {"up", "closing", "down"}
  BY DEF SigInv, SigTypes
<1>5. ASSUME NEW r \in asked, PeerIgnores(r) PROVE SigInv'
  BY <1>4, <1>5, QuietKeeps DEF PeerIgnores, history
<1>6. CASE AnswerUpdateRequest
  BY <1>4, <1>6, QuietKeeps DEF AnswerUpdateRequest
<1>7. CASE Disconnect
  BY <1>7, QuietKeeps DEF Disconnect, history
<1>8. CASE UNCHANGED vars
  BY <1>4, <1>8, QuietKeeps DEF vars
<1>9. CASE Works
  BY <1>1, <1>2, <1>3, <1>5, <1>9, RetryTimerKeeps, UpdateTimerKeeps, HandleResponseKeeps,
     PeerReceivesKeeps DEF Works
<1>10. QED
  BY <1>6, <1>7, <1>8, <1>9, UpdateConnParamsKeeps, ConnectKeeps, ConnectionUpdateKeeps,
     HandleUpdateRequestKeeps, LinkDownKeeps DEF Next

-----------------------------------------------------------------------------
(* The theorems. *)

\* Identifiers, timers, the queue of updateConnParams with its run, and what was sent and
\* told agree at every step of the handlers of lib/ble-manager.js.
THEOREM SignalingInvariant == Spec => []SigInv
<1>1. QED
  BY InitSig, NextKeeps, PTL DEF Spec

\* Each response reaches the request it answers, and while the link is there the active
\* identifiers are those of the requests whose timers run.
THEOREM RequestsOwn == Spec => []RequestsAreTheirOwn
<1>1. SigInv => RequestsAreTheirOwn
  <2> SUFFICES ASSUME SigInv PROVE RequestsAreTheirOwn
    OBVIOUS
  <2>1. ASSUME link # "down"
        PROVE  {host.active[i] : i \in 1 .. MaxId} \ {None} = host.timers
    <3>1. TimersAgree(host) /\ host \in Hosts
      BY <2>1 DEF SigInv, SigTypes
    <3>2. \A r \in host.timers : r \in Requests /\ r # None /\ r.id \in 1 .. MaxId
      BY <3>1, HostFields, NoneIsNone
    <3>3. QED
      BY <3>1, <3>2 DEF TimersAgree
  <2>2. QED
    BY <2>1 DEF SigInv, RequestsAreTheirOwn
<1>2. QED
  BY <1>1, SignalingInvariant, PTL

\* There is never a second update request or command while one is outstanding, and with
\* nothing left to do the parameters sent last are those asked for last.
THEOREM UpdatesSerial == Spec => []UpdatesAreSerial
<1>1. SigInv => UpdatesAreSerial
  <2> SUFFICES ASSUME SigInv PROVE UpdatesAreSerial
    OBVIOUS
  <2>1. RunAgrees(host, answers)
    BY DEF SigInv, UpdateAgrees
  <2> DEFINE U == {r \in host.timers : r.code = "update"}
  <2>2. \A r, s \in U : r = s
    BY <2>1 DEF RunAgrees
  <2>3. Cardinality(U) <= 1
    <3> HIDE DEF U
    <3>1. CASE U = {}
      BY <3>1, FS_EmptySet
    <3>2. CASE U # {}
      <4>1. PICK r \in U : TRUE
        BY <3>2
      <4>2. U = {r}
        BY <2>2, <4>1
      <4>3. QED
        BY <4>2, FS_Singleton
    <3>3. QED
      BY <3>1, <3>2
  <2>4. OneUpdateAtATime
    BY <2>1, <2>3 DEF RunAgrees, OneUpdateAtATime
  <2>5. LastParametersWin
    BY <2>1 DEF RunAgrees, LastParametersWin, LastSent
  <2>6. QED
    BY <2>4, <2>5 DEF UpdatesAreSerial
<1>2. QED
  BY <1>1, SignalingInvariant, PTL

\* A callback of updateConnParams is called at most once, and with what became of its own
\* parameters.
THEOREM AnswersTruthful == Spec => []AnswersAreTruthful
<1>1. SigInv => AnswersAreTruthful
  <2> SUFFICES ASSUME SigInv, NEW k \in DOMAIN answers
               PROVE  /\ Len(answers[k]) <= 1
                      /\ \A i \in DOMAIN answers[k] :
                           LET status == answers[k][i]
                           IN IsSlave => /\ status = 0 => <<k, "accept">> \in verdicts
                                         /\ status = 1 => <<k, "refuse">> \in verdicts
                                         /\ status = -1 => /\ k \in ToSet(host.sent)
                                                           /\ \A r \in host.timers : r.number # k
                                         /\ status = -2 => k \notin ToSet(host.sent)
    BY DEF AnswersAreTruthful
  <2>1. Told(host, answers) /\ answers \in Tellings
    BY DEF SigInv, UpdateAgrees, SigTypes
  <2>2. k \in 1 .. Len(answers) /\ answers[k] \in Seq(Int)
    BY <2>1, TellingProperties
  <2>3. Len(answers[k]) <= 1 /\ Len(answers[k]) \in Nat /\ DOMAIN answers[k] = 1 .. Len(answers[k])
    BY <2>1, <2>2, LenProperties DEF Told
  <2>4. ASSUME NEW i \in DOMAIN answers[k], IsSlave
        PROVE  LET status == answers[k][i]
               IN /\ status = 0 => <<k, "accept">> \in verdicts
                  /\ status = 1 => <<k, "refuse">> \in verdicts
                  /\ status = -1 => /\ k \in ToSet(host.sent)
                                    /\ \A r \in host.timers : r.number # k
                  /\ status = -2 => k \notin ToSet(host.sent)
    <3>1. i = 1 /\ Len(answers[k]) = 1
      BY <2>3, <2>4
    <3>2. QED
      BY <2>1, <2>2, <2>4, <3>1 DEF Told
  <2>5. QED
    BY <2>3, <2>4
<1>2. QED
  BY <1>1, SignalingInvariant, PTL
=============================================================================
