------------------------ MODULE ManagerServesProofs -------------------------
(***************************************************************************)
(* Proofs about the manager, second part, for any devices, scanners and    *)
(* connects of which at most one user at a time needs the white list:      *)
(* the invariant ServesInv says that what is under way leads where the     *)
(* users want, so the controller's list is the host's, scans report every  *)
(* advertiser asked for, attempts reach every device asked for, and no     *)
(* connection is made that nobody asked for.                               *)
(***************************************************************************)
EXTENDS ManagerProofs

-----------------------------------------------------------------------------
(* The commands and events under way, as sets. *)

Members(s) == {s[i] : i \in DOMAIN s}

\* What the controller has still to do, what it has done and not yet been heard of, and
\* the devices (None for a cancel) with which the attempts on their way to the host ended.
Waiting(q, ev) == Members(IF Has(ev, Reports) THEN Tail(q) ELSE q)
Done(q, ev) == IF Has(ev, Reports) THEN {Head(q)} ELSE {}
Reached(ev) == {e.device : e \in Members(ev) \cap Completions}

ScanOffs == {c \in Command : c.op = "scanOff"}
ScanOns == {c \in Command : c.op = "scanOn"}
Params == {c \in Command : c.op = "scanParameters"}

InAttempt(h) == h.connectCommandInProgress \/ h.createConnectionIsOutstanding

\* Nobody filters scans, so the scanner leaves the white list to the initiator.
NoFilters(h, w, x, b) ==
  /\ \A k \in b.kinds : k.filters = {}
  /\ \A s \in Live(h) : h.scanners[s].filters = {}
  /\ ~h.policy /\ h.whiteListUsage # "scanner"
  /\ (w \cup x) \cap ListBy("scanner") = {}
  /\ \A c \in (w \cup x) \cap Params : ~c.policy
  /\ (w \cup x) \cap ScannerWork # {} => ~h.scanChange.policy /\ ~h.scanChange.updateList

\* Never two calls at a time, or no room for two devices.
FewCalls(h, b) ==
  \/ WhiteListSize <= 1
  \/ h.pending = {} /\ b.connects <= 1
  \/ (\A c, d \in h.pending : c = d) /\ b.connects = 0

NoWhiteList(h, w, x, b) ==
  /\ FewCalls(h, b)
  /\ InAttempt(h) => ~h.attempt.useWhiteList
  /\ (w \cup x) \cap ListBy("initiator") = {}

Alone(h, w, x, b) == ~h.stopScanCallback /\ (NoFilters(h, w, x, b) \/ NoWhiteList(h, w, x, b))

\* How far the controller has come with the scan.
ScanPhase(h, w, x, ok, ctl) ==
  /\ (w \cup x) \cap ScannerOps = {} => (h.scanEnabled <=> ctl.scanning)
  /\ w \cap ScanOffs # {} => h.scanEnabled /\ ctl.scanning
  /\ x \cap ScanOffs # {} => h.scanEnabled /\ ~ctl.scanning
  /\ w \cap ScanOns # {} => ~h.scanEnabled /\ ~ctl.scanning
  /\ x \cap ScanOns # {} => ~h.scanEnabled /\ ctl.scanning /\ ok
  /\ (w \cup x) \cap (Params \cup ListBy("scanner")) # {} => ~h.scanEnabled /\ ~ctl.scanning
  /\ \A c \in x \cap Params : ok /\ ctl.active = c.active /\ ctl.policy = c.policy
  /\ x \cap Params = {} => h.active = ctl.active /\ h.policy = ctl.policy

\* At rest, the scan is what the live scanners want.
Settled(h) ==
  ~h.scannerCommandInProgress =>
    /\ h.scanEnabled <=> Live(h) # {}
    /\ h.scanEnabled =>
         /\ h.active <=> \E s \in Live(h) : h.scanners[s].active
         /\ h.policy => /\ \A s \in Live(h) : h.scanners[s].filters # {}
                        /\ h.currentWhiteList = LiveFilters(h)

\* The commands for the list lead from what the controller has to what was asked for.
ListPhase(h, w, x, ok, list, who) ==
  LET u == h.update[who]
  IN /\ \A c \in w \cap ListBy(who) :
          IF c.last THEN c.op = "clear" /\ who = "scanner"
          ELSE /\ Leads(After(list, c), u.ops, u.newList, who)
               /\ c.op = "add" => After(list, c) \subseteq u.newList
     /\ \A c \in x \cap ListBy(who) :
          IF c.last THEN list = {} /\ who = "scanner"
          ELSE ok => Leads(list, u.ops, u.newList, who)
     /\ who = "initiator" /\ (w \cup x) \cap ListBy(who) # {} =>
          /\ x \cap ListBy(who) # {} => ok
          /\ Cardinality(u.newList) <= WhiteListSize
          /\ h.attempt.useWhiteList /\ u.newList = h.attempt.devices

\* The attempt is for the calls it was made for, and it is what the controller was told.
Goal(h, w, x, ctl, reached) ==
  InAttempt(h) =>
    LET a == h.attempt
    IN /\ a.devices = {h.device[c] : c \in a.conns}
       /\ a.useWhiteList => Cardinality(a.devices) <= WhiteListSize
       /\ ~a.useWhiteList => \E d \in Device : a.devices = {d}
       /\ (w \cup x) \cap CreateOps \subseteq {CreateFor(a)}
       /\ ctl.initiating # None => ctl.initiating = CreateFor(a)
       /\ reached \subseteq a.devices \cup {None}
       /\ a.useWhiteList /\ (w \cup x) \cap ListBy("initiator") = {} =>
            h.currentWhiteList = a.devices

AtRest(h) ==
  ~h.connectCommandInProgress /\ ~h.cancelCommandInProgress =>
    IF h.createConnectionIsOutstanding THEN h.attempt.devices = Wanted(h) ELSE h.pending = {}

Agree(h, w, x, list) == (w \cup x) \cap ListCommandBy = {} => h.currentWhiteList = list

Held(h, w, x, ok, ctl, reached, b) ==
  /\ Alone(h, w, x, b) /\ ScanPhase(h, w, x, ok, ctl)
  /\ \A who \in Who : ListPhase(h, w, x, ok, ctl.list, who)
  /\ Goal(h, w, x, ctl, reached) /\ IsFiniteSet(h.pending)

Serving(h, w, x, ok, ctl, reached, b) ==
  /\ Agree(h, w, x, ctl.list)
  /\ h.crashed = "no" => Held(h, w, x, ok, ctl, reached, b) /\ Settled(h) /\ AtRest(h)

\* The invariant of the commands and the flags, said of those sets.
AtMostOne(w, x, S) == (\A c, d \in (w \cup x) \cap S : c = d) /\ (x \cap S # {} => w \cap S = {})

Tidy(h, w, x, ok, initiating, reached) ==
  /\ w \subseteq Command /\ x \subseteq Command
  /\ CallsOk(h)
  /\ h.scannerCommandInProgress <=> (w \cup x) \cap ScannerOps # {}
  /\ (w \cup x) \cap ScannerWork # {} => h.scanChange \in Change
  /\ h.connectCommandInProgress <=> h.stopScanCallback \/ (w \cup x) \cap InitiatorOps # {}
  /\ AtMostOne(w, x, ScannerOps) /\ AtMostOne(w, x, InitiatorOps)
  /\ (initiating # None \/ reached # {}) <=>
       (h.createConnectionIsOutstanding \/ (ok /\ x \cap CreateOps # {}))
  /\ initiating = None \/ reached = {}

LEMMA MembersOfAppend ==
  ASSUME NEW U, NEW q \in Seq(U), NEW e \in U
  PROVE  Members(Append(q, e)) = Members(q) \cup {e}
<1> DEFINE a == Append(q, e)
<1>1. /\ Len(q) \in Nat /\ DOMAIN q = 1 .. Len(q)
      /\ DOMAIN a = 1 .. Len(q) + 1
      /\ \A i \in 1 .. Len(q) : a[i] = q[i]
      /\ a[Len(q) + 1] = e
  BY AppendFacts
<1> HIDE DEF a
<1>2. Members(a) = Members(q) \cup {e}
  BY <1>1 DEF Members
<1>3. QED
  BY <1>2 DEF a

LEMMA MembersOfTail ==
  ASSUME NEW U, NEW q \in Seq(U), q # <<>>
  PROVE  /\ Members(q) = {Head(q)} \cup Members(Tail(q))
         /\ \A S : One(q, S) /\ Head(q) \in S => Members(Tail(q)) \cap S = {}
<1> DEFINE t == Tail(q)
<1>1. /\ Head(q) = q[1] /\ Len(q) \in Nat \ {0} /\ DOMAIN q = 1 .. Len(q)
      /\ DOMAIN t = 1 .. Len(q) - 1
      /\ \A i \in 1 .. Len(q) - 1 : t[i] = q[i + 1]
  BY TailFacts
<1> HIDE DEF t
<1>2. ASSUME NEW i \in DOMAIN q
      PROVE  i = 1 \/ (i - 1 \in DOMAIN t /\ t[i - 1] = q[i])
  BY <1>1
<1>3. ASSUME NEW i \in DOMAIN t
      PROVE  i + 1 \in DOMAIN q /\ t[i] = q[i + 1]
  BY <1>1
<1>4. 1 \in DOMAIN q
  BY <1>1
<1>5. Members(q) = {Head(q)} \cup Members(t)
  BY <1>1, <1>2, <1>3, <1>4 DEF Members
<1>6. \A S : One(q, S) /\ Head(q) \in S => ~Has(t, S)
  BY TailHas DEF t
<1>7. QED
  BY <1>5, <1>6 DEF t, Members, Has

LEMMA MembersHave ==
  ASSUME NEW U, NEW q \in Seq(U)
  PROVE  /\ Members(q) \subseteq U
         /\ \A S : Has(q, S) <=> Members(q) \cap S # {}
         /\ \A S : One(q, S) => \A c, d \in Members(q) \cap S : c = d
<1>1. DOMAIN q = 1 .. Len(q) /\ \A i \in 1 .. Len(q) : q[i] \in U
  BY ElementOfSeq, LenProperties
<1>2. QED
  BY <1>1 DEF Members, Has, One

LEMMA MembersOfEmpty == Members(<<>>) = {}
BY DEF Members

LEMMA ViewIs ==
  ASSUME NEW q \in Seq(Command), NEW ev \in Seq(Event), EventsOk(q, ev)
  PROVE  LET w == Waiting(q, ev)
             x == Done(q, ev)
         IN /\ w \cup x = Members(q) /\ w \subseteq Command /\ x \subseteq Command
            /\ \A S : Has(q, S) <=> (w \cup x) \cap S # {}
            /\ \A S : One(q, S) => AtMostOne(w, x, S)
            /\ Reached(ev) # {} <=> Has(ev, Completions)
            /\ CreateGranted(q, ev) <=> Has(ev, Grants) /\ x \cap CreateOps # {}
<1> DEFINE w == Waiting(q, ev)
           x == Done(q, ev)
<1>1. /\ Members(q) \subseteq Command
      /\ \A S : Has(q, S) <=> Members(q) \cap S # {}
      /\ \A S : One(q, S) => \A c, d \in Members(q) \cap S : c = d
  BY MembersHave
<1>2. Reached(ev) # {} <=> Has(ev, Completions)
  BY MembersHave DEF Reached
<1>3. Has(ev, Grants) => Has(ev, Reports)
  BY DEF Has, Grants
<1>4. CASE ~Has(ev, Reports)
  <2>1. w = Members(q) /\ x = {}
    BY <1>4 DEF Waiting, Done
  <2>2. QED
    BY <1>1, <1>2, <1>3, <1>4, <2>1 DEF AtMostOne, CreateGranted
<1>5. CASE Has(ev, Reports)
  <2>1. w = Members(Tail(q)) /\ x = {Head(q)} /\ q # <<>>
    BY <1>5 DEF Waiting, Done, EventsOk
  <2>2. /\ Members(q) = {Head(q)} \cup Members(Tail(q))
        /\ \A S : One(q, S) /\ Head(q) \in S => Members(Tail(q)) \cap S = {}
    BY <2>1, MembersOfTail
  <2>3. w \cup x = Members(q)
    BY <2>1, <2>2
  <2>4. \A S : One(q, S) => AtMostOne(w, x, S)
    BY <1>1, <2>1, <2>2, <2>3 DEF AtMostOne
  <2>5. CreateGranted(q, ev) <=> Has(ev, Grants) /\ x \cap CreateOps # {}
    BY <2>1 DEF CreateGranted
  <2>6. QED
    BY <1>1, <1>2, <2>3, <2>4, <2>5
<1>6. QED
  BY <1>4, <1>5

LEMMA TidyIs ==
  ASSUME NEW h, NEW q, NEW initiating, NEW ev \in Seq(Event), h.crashed = "no",
         InStep(h, q, initiating, ev)
  PROVE  Tidy(h, Waiting(q, ev), Done(q, ev), Has(ev, Grants), initiating, Reached(ev))
<1>1. /\ q \in Seq(Command) /\ EventsOk(q, ev) /\ CallsOk(h) /\ QueueOk(h, q)
      /\ PursuitOk(h, q, initiating, ev)
  BY DEF InStep, Flow, QueueOk
<1> DEFINE w == Waiting(q, ev)
           x == Done(q, ev)
<1>2. /\ w \subseteq Command /\ x \subseteq Command
      /\ \A S : Has(q, S) <=> (w \cup x) \cap S # {}
      /\ \A S : One(q, S) => AtMostOne(w, x, S)
      /\ Reached(ev) # {} <=> Has(ev, Completions)
      /\ CreateGranted(q, ev) <=> Has(ev, Grants) /\ x \cap CreateOps # {}
  BY <1>1, ViewIs
<1> HIDE DEF w, x
<1>3. /\ h.scannerCommandInProgress <=> (w \cup x) \cap ScannerOps # {}
      /\ (w \cup x) \cap ScannerWork # {} => h.scanChange \in Change
      /\ h.connectCommandInProgress <=> h.stopScanCallback \/ (w \cup x) \cap InitiatorOps # {}
      /\ AtMostOne(w, x, ScannerOps) /\ AtMostOne(w, x, InitiatorOps)
  BY <1>1, <1>2 DEF QueueOk
<1>4. /\ (initiating # None \/ Reached(ev) # {}) <=>
           (h.createConnectionIsOutstanding \/ (Has(ev, Grants) /\ x \cap CreateOps # {}))
      /\ initiating = None \/ Reached(ev) = {}
  BY <1>1, <1>2 DEF PursuitOk
<1>5. QED
  BY <1>1, <1>2, <1>3, <1>4 DEF Tidy, w, x

\* The controller answers the first command.
LEMMA ViewOfAnswer ==
  ASSUME NEW q \in Seq(Command), q # <<>>, NEW ev \in Seq(Event), ~Has(ev, Reports),
         NEW ok \in BOOLEAN
  PROVE  LET e == Append(ev, Answer(ok))
         IN /\ Done(q, ev) = {} /\ Waiting(q, ev) = {Head(q)} \cup Waiting(q, e)
            /\ Done(q, e) = {Head(q)} /\ (Has(e, Grants) <=> ok) /\ Has(e, Reports)
            /\ Reached(e) = Reached(ev) /\ e \in Seq(Event)
<1> DEFINE a == Answer(ok)
           e == Append(ev, a)
<1>1. a \in Event /\ a \in Reports /\ a \notin Completions /\ (a \in Grants <=> ok)
  BY EventKinds
<1>2. ~Has(ev, Grants)
  BY DEF Has, Grants
<1> HIDE DEF a
<1>3. Has(e, Reports) /\ (Has(e, Grants) <=> ok) /\ e \in Seq(Event)
  BY <1>1, <1>2, AppendHas, AppendFacts
<1>4. Members(e) = Members(ev) \cup {a}
  BY <1>1, MembersOfAppend
<1> HIDE DEF e
<1>5. Reached(e) = Reached(ev)
  BY <1>1, <1>4 DEF Reached
<1>6. Waiting(q, ev) = Members(q) /\ Done(q, ev) = {} /\ Waiting(q, e) = Members(Tail(q))
      /\ Done(q, e) = {Head(q)}
  BY <1>3 DEF Waiting, Done
<1>7. QED
  BY <1>3, <1>5, <1>6, MembersOfTail DEF e, a

\* An attempt ends.
LEMMA ViewOfCompletion ==
  ASSUME NEW q, NEW ev \in Seq(Event), NEW d \in Device \cup {None}
  PROVE  LET e == Append(ev, Complete(d))
         IN /\ Waiting(q, e) = Waiting(q, ev) /\ Done(q, e) = Done(q, ev)
            /\ Has(e, Grants) <=> Has(ev, Grants)
            /\ Reached(e) = Reached(ev) \cup {d}
<1> DEFINE a == Complete(d)
           e == Append(ev, a)
<1>1. /\ a \in Event /\ a \notin Reports /\ a \in Completions /\ a \notin Grants
  BY EventKinds
<1>2. a.device = d
  BY DEF Complete
<1> HIDE DEF a
<1>3. /\ Has(e, Reports) <=> Has(ev, Reports)
      /\ Has(e, Grants) <=> Has(ev, Grants)
      /\ Members(e) = Members(ev) \cup {a}
  BY <1>1, AppendHas, MembersOfAppend
<1> HIDE DEF e
<1>4. Reached(e) = Reached(ev) \cup {d}
  BY <1>1, <1>2, <1>3 DEF Reached
<1>5. QED
  BY <1>3, <1>4 DEF Waiting, Done, e, a

LEMMA ViewOfLoss ==
  ASSUME NEW q, NEW ev \in Seq(Event), NEW a \in Event, a.type = "gone"
  PROVE  LET e == Append(ev, a)
         IN /\ Waiting(q, e) = Waiting(q, ev) /\ Done(q, e) = Done(q, ev)
            /\ Has(e, Grants) <=> Has(ev, Grants)
            /\ Reached(e) = Reached(ev)
<1> DEFINE e == Append(ev, a)
<1>1. /\ a \notin Reports /\ a \notin Completions /\ a \notin Grants
  BY EventKinds
<1>2. /\ Has(e, Reports) <=> Has(ev, Reports)
      /\ Has(e, Grants) <=> Has(ev, Grants)
      /\ Members(e) = Members(ev) \cup {a}
  BY <1>1, AppendHas, MembersOfAppend
<1> HIDE DEF e
<1>3. QED
  BY <1>1, <1>2 DEF Waiting, Done, Reached, e

\* What a piece of the program sent waits.
LEMMA MembersOfSent ==
  ASSUME NEW q \in Seq(Command), NEW out, out = <<>> \/ \E c \in Command : out = <<c>>
  PROVE  /\ Members(q \o out) = Members(q) \cup Members(out)
         /\ q # <<>> => Head(q \o out) = Head(q) /\ Tail(q \o out) = Tail(q) \o out /\ q \o out # <<>>
<1>1. ASSUME out = <<>>
      PROVE  /\ Members(q \o out) = Members(q) \cup Members(out)
             /\ q # <<>> => Head(q \o out) = Head(q) /\ Tail(q \o out) = Tail(q) \o out /\ q \o out # <<>>
  <2>1. q \o out = q /\ (q # <<>> => Tail(q) \o out = Tail(q))
    BY <1>1, ConcatSent, TailFacts
  <2>2. Members(out) = {}
    BY <1>1, MembersOfEmpty
  <2>3. QED
    BY <2>1, <2>2
<1>2. ASSUME NEW c \in Command, out = <<c>>
      PROVE  /\ Members(q \o out) = Members(q) \cup Members(out)
             /\ q # <<>> => Head(q \o out) = Head(q) /\ Tail(q \o out) = Tail(q) \o out /\ q \o out # <<>>
  <2>1. q \o out = Append(q, c) /\ (q # <<>> => Tail(q) \in Seq(Command) /\ Tail(q) \o out = Append(Tail(q), c))
    BY <1>2, ConcatSent, TailFacts
  <2>2. Members(out) = {c}
    <3>1. DOMAIN out = {1} /\ out[1] = c
      BY <1>2
    <3>2. QED
      BY <3>1 DEF Members
  <2>3. Members(Append(q, c)) = Members(q) \cup {c}
    BY MembersOfAppend
  <2>4. q # <<>> => Head(Append(q, c)) = Head(q) /\ Tail(Append(q, c)) = Append(Tail(q), c)
    BY HeadTailAppend
  <2>5. Append(q, c) # <<>>
    BY AppendFacts
  <2>6. QED
    BY <2>1, <2>2, <2>3, <2>4, <2>5
<1>3. QED
  BY <1>1, <1>2

LEMMA ViewOfCall ==
  ASSUME NEW q \in Seq(Command), NEW ev, Has(ev, Reports) => q # <<>>,
         NEW out, out = <<>> \/ \E c \in Command : out = <<c>>
  PROVE  /\ Waiting(q \o out, ev) = Waiting(q, ev) \cup Members(out)
         /\ Done(q \o out, ev) = Done(q, ev)
<1>1. CASE Has(ev, Reports)
  <2>1. q # <<>> /\ Tail(q) \in Seq(Command)
    BY <1>1, TailFacts
  <2>2. Head(q \o out) = Head(q) /\ Tail(q \o out) = Tail(q) \o out
    BY <2>1, MembersOfSent
  <2>3. Members(Tail(q) \o out) = Members(Tail(q)) \cup Members(out)
    BY <2>1, MembersOfSent
  <2>4. QED
    BY <1>1, <2>2, <2>3 DEF Waiting, Done
<1>2. CASE ~Has(ev, Reports)
  BY <1>2, MembersOfSent DEF Waiting, Done
<1>3. QED
  BY <1>1, <1>2

\* The host takes an answer and with it the first command.
LEMMA ViewOfAnswerTaken ==
  ASSUME NEW q \in Seq(Command), q # <<>>, NEW ev \in Seq(Event), ev # <<>>, Head(ev) \in Reports,
         EventsOk(q, ev), NEW out, out = <<>> \/ \E c \in Command : out = <<c>>
  PROVE  LET r == Tail(q) \o out
             e == Tail(ev)
         IN /\ Done(q, ev) = {Head(q)} /\ (Has(ev, Grants) <=> Head(ev).ok)
            /\ Waiting(r, e) = Waiting(q, ev) \cup Members(out) /\ Done(r, e) = {}
            /\ Reached(e) = Reached(ev) /\ ~Has(e, Grants)
<1> DEFINE r == Tail(q) \o out
           e == Tail(ev)
<1>1. Head(ev) \notin Completions /\ (Head(ev) \in Grants <=> Head(ev).ok)
  BY DEF Reports, Completions, Grants
<1>2. /\ ~Has(e, Reports) /\ Has(ev, Reports) /\ ~Has(e, Grants) /\ (Has(ev, Grants) <=> Head(ev).ok)
      /\ Members(ev) = {Head(ev)} \cup Members(e)
  BY <1>1, EventTaken, TailHas, MembersOfTail
<1> HIDE DEF e
<1>3. Reached(e) = Reached(ev)
  BY <1>1, <1>2 DEF Reached
<1>4. Members(r) = Members(Tail(q)) \cup Members(out)
  BY TailFacts, MembersOfSent
<1>5. Waiting(q, ev) = Members(Tail(q)) /\ Done(q, ev) = {Head(q)} /\ Waiting(r, e) = Members(r)
      /\ Done(r, e) = {}
  BY <1>2 DEF Waiting, Done
<1>6. QED
  BY <1>2, <1>3, <1>4, <1>5 DEF e

\* The host takes another event.
LEMMA ViewOfEventTaken ==
  ASSUME NEW q, NEW ev \in Seq(Event), ev # <<>>, Head(ev) \notin Reports, EventsOk(q, ev)
  PROVE  LET e == Tail(ev)
         IN /\ Waiting(q, e) = Waiting(q, ev) /\ Done(q, e) = Done(q, ev)
            /\ Has(e, Grants) <=> Has(ev, Grants)
            /\ Has(e, Reports) <=> Has(ev, Reports)
            /\ Head(ev) \notin Completions => Reached(e) = Reached(ev)
            /\ Head(ev) \in Completions => Reached(e) = {} /\ Head(ev).device \in Reached(ev)
<1> DEFINE e == Tail(ev)
<1>1. Head(ev) \notin Grants
  BY DEF Grants
<1>2. /\ Has(e, Reports) <=> Has(ev, Reports)
      /\ Has(e, Grants) <=> Has(ev, Grants)
      /\ Members(ev) = {Head(ev)} \cup Members(e)
      /\ e \in Seq(Event)
  BY <1>1, TailHas, MembersOfTail, TailFacts
<1>3. Head(ev) \in Completions => ~Has(e, Completions)
  BY EventTaken
<1> HIDE DEF e
<1>4. Head(ev) \in Completions => Members(e) \cap Completions = {}
  BY <1>2, <1>3, MembersHave
<1>5. /\ Head(ev) \notin Completions => Reached(e) = Reached(ev)
      /\ Head(ev) \in Completions => Reached(e) = {} /\ Head(ev).device \in Reached(ev)
  BY <1>2, <1>4 DEF Reached
<1>6. QED
  BY <1>2, <1>5 DEF Waiting, Done, e

-----------------------------------------------------------------------------
(* The sorts of commands. *)

LEMMA Sorts ==
  /\ ScannerOps = ScanOffs \cup ScanOns \cup Params \cup ListBy("scanner")
  /\ ScannerWork = ScanOns \cup Params \cup ListBy("scanner")
  /\ InitiatorOps = CreateOps \cup ListBy("initiator")
  /\ ListCommandBy = ListBy("scanner") \cup ListBy("initiator")
  /\ Command = ScanOffs \cup ScanOns \cup Params \cup CreateOps \cup CancelOps \cup ListCommandBy
<1>1. \A c \in ListBy("scanner") : c \in Command /\ c.op \in ListOp /\ c.who = "scanner"
  BY ListByIsCommand DEF ListBy, ListOp, Who
<1>2. \A c \in ListBy("initiator") : c \in Command /\ c.op \in ListOp /\ c.who = "initiator"
  BY ListByIsCommand DEF ListBy, ListOp, Who
<1>3. \A c \in Command : c.op \in ListOp => c \in ListCommandBy
  BY DEF Command, CreateCommand, ListOp
<1>4. ListCommandBy = ListBy("scanner") \cup ListBy("initiator")
  BY DEF ListCommandBy
<1>5. \A c \in Command : c.op \in {"scanOff", "scanOn", "scanParameters", "create", "cancel"} \/ c.op \in ListOp
  BY FirstCommand
<1>6. "scanner" # "initiator"
  OBVIOUS
<1> HIDE DEF ListBy, Command
<1>7. ScannerWork = ScanOns \cup Params \cup ListBy("scanner")
  BY <1>1, <1>2, <1>3, <1>4 DEF ScannerWork, ScanOns, Params
<1>8. ScannerOps = ScanOffs \cup ScanOns \cup Params \cup ListBy("scanner")
  BY <1>7 DEF ScannerOps, ScanOffs
<1>9. InitiatorOps = CreateOps \cup ListBy("initiator")
  BY <1>1, <1>2, <1>3, <1>4 DEF InitiatorOps, CreateOps
<1>10. Command = ScanOffs \cup ScanOns \cup Params \cup CreateOps \cup CancelOps \cup ListCommandBy
  BY <1>1, <1>2, <1>3, <1>4, <1>5 DEF ScanOffs, ScanOns, Params, CreateOps, CancelOps
<1>11. QED
  BY <1>4, <1>7, <1>8, <1>9, <1>10

LEMMA SortsDiffer ==
  /\ \A c \in ScanOffs : c \notin ScanOns \cup Params \cup CreateOps \cup CancelOps
  /\ \A c \in ScanOns : c \notin ScanOffs \cup Params \cup CreateOps \cup CancelOps
  /\ \A c \in Params : c \notin ScanOffs \cup ScanOns \cup CreateOps \cup CancelOps
  /\ \A c \in CreateOps : c \notin ScanOffs \cup ScanOns \cup Params \cup CancelOps
  /\ \A c \in CancelOps : c \notin ScanOffs \cup ScanOns \cup Params \cup CreateOps
  /\ \A c \in ListBy("scanner") :
       c \notin ScanOffs \cup ScanOns \cup Params \cup CreateOps \cup CancelOps \cup ListBy("initiator")
  /\ \A c \in ListBy("initiator") :
       c \notin ScanOffs \cup ScanOns \cup Params \cup CreateOps \cup CancelOps \cup ListBy("scanner")
BY DEF ScanOffs, ScanOns, Params, CreateOps, CancelOps, ListBy

-----------------------------------------------------------------------------
(* The controller does a command. *)

LEMMA ExecutedDoes ==
  ASSUME controller \in ControllerType, NEW c \in Command
  PROVE  LET k == Executed(c)
         IN /\ k.scanning = IF c \in ScanOffs THEN FALSE
                            ELSE IF c \in ScanOns THEN TRUE ELSE controller.scanning
            /\ k.active = IF c \in Params THEN c.active ELSE controller.active
            /\ k.policy = IF c \in Params THEN c.policy ELSE controller.policy
            /\ k.list = IF c \in ListCommandBy THEN After(controller.list, c) ELSE controller.list
            /\ k.initiating = IF c \in CreateOps THEN c
                              ELSE IF c \in CancelOps THEN None ELSE controller.initiating
<1> DEFINE k == Executed(c)
<1>1. CASE c \in ScanOffs
  <2>1. k = [controller EXCEPT !.scanning = FALSE]
    BY <1>1 DEF Executed, ScanOffs
  <2>2. c \notin ScanOns \cup Params \cup CreateOps \cup CancelOps \cup ListCommandBy
    BY <1>1, Sorts, SortsDiffer
  <2>3. QED
    BY <1>1, <2>1, <2>2 DEF ControllerType
<1>2. CASE c \in ScanOns
  <2>1. k = [controller EXCEPT !.scanning = TRUE, !.filterDuplicates = c.filterDuplicates]
    BY <1>2 DEF Executed, ScanOns
  <2>2. c \notin ScanOffs \cup Params \cup CreateOps \cup CancelOps \cup ListCommandBy
    BY <1>2, Sorts, SortsDiffer
  <2>3. QED
    BY <1>2, <2>1, <2>2 DEF ControllerType
<1>3. CASE c \in Params
  <2>1. k = [controller EXCEPT !.active = c.active, !.policy = c.policy]
    BY <1>3 DEF Executed, Params
  <2>2. c \notin ScanOffs \cup ScanOns \cup CreateOps \cup CancelOps \cup ListCommandBy
    BY <1>3, Sorts, SortsDiffer
  <2>3. QED
    BY <1>3, <2>1, <2>2 DEF ControllerType
<1>4. CASE c \in CreateOps
  <2>1. k = [controller EXCEPT !.initiating = c]
    BY <1>4 DEF Executed, CreateOps
  <2>2. c \notin ScanOffs \cup ScanOns \cup Params \cup CancelOps \cup ListCommandBy
    BY <1>4, Sorts, SortsDiffer
  <2>3. QED
    BY <1>4, <2>1, <2>2 DEF ControllerType
<1>5. CASE c \in CancelOps
  <2>1. k = [controller EXCEPT !.initiating = None]
    BY <1>5 DEF Executed, CancelOps
  <2>2. c \notin ScanOffs \cup ScanOns \cup Params \cup CreateOps \cup ListCommandBy
    BY <1>5, Sorts, SortsDiffer
  <2>3. QED
    BY <1>5, <2>1, <2>2 DEF ControllerType
<1>6. CASE c \in ListCommandBy
  <2>1. c.op \in {"clear", "add", "remove"}
    BY <1>6 DEF ListCommandBy, ListBy
  <2>2. k = [controller EXCEPT !.list = After(controller.list, c)]
    BY <2>1 DEF Executed, After, ControllerType
  <2>3. c \notin ScanOffs \cup ScanOns \cup Params \cup CreateOps \cup CancelOps
    BY <1>6, Sorts, SortsDiffer
  <2> HIDE DEF k
  <2>4. QED
    BY <1>6, <2>2, <2>3 DEF ControllerType, k
<1>7. QED
  BY <1>1, <1>2, <1>3, <1>4, <1>5, <1>6, Sorts

\* A command for the list comes when nobody uses the list.
LEMMA ListIsFree ==
  ASSUME NEW h, NEW w, NEW ok, NEW reached, NEW b,
         Tidy(h, w, {}, ok, controller.initiating, reached),
         Held(h, w, {}, ok, controller, reached, b), NEW c \in w \cap ListCommandBy
  PROVE  ~WhiteListInUse
<1>1. Alone(h, w, {}, b) /\ ScanPhase(h, w, {}, ok, controller) /\ Goal(h, w, {}, controller, reached)
  BY DEF Held
<1>2. CASE c \in ListBy("scanner")
  <2>1. ~controller.scanning
    BY <1>1, <1>2 DEF ScanPhase
  <2>2. NoWhiteList(h, w, {}, b)
    BY <1>1, <1>2 DEF Alone, NoFilters
  <2>3. ASSUME controller.initiating # None
        PROVE  ~controller.initiating.useWhiteList
    <3>1. InAttempt(h)
      BY <2>3 DEF Tidy, InAttempt
    <3>2. controller.initiating = CreateFor(h.attempt) /\ ~h.attempt.useWhiteList
      BY <1>1, <2>2, <2>3, <3>1 DEF Goal, NoWhiteList
    <3>3. QED
      BY <3>2 DEF CreateFor
  <2>4. QED
    BY <2>1, <2>3 DEF WhiteListInUse
<1>3. CASE c \in ListBy("initiator")
  <2>1. c \in InitiatorOps
    BY <1>3, Sorts
  <2>2. h.connectCommandInProgress
    BY <2>1 DEF Tidy
  <2>3. controller.initiating = None
    BY <2>2 DEF Tidy, CallsOk
  <2>4. NoFilters(h, w, {}, b)
    BY <1>1, <1>3 DEF Alone, NoWhiteList
  <2>5. ~controller.policy
    BY <1>1, <2>4 DEF ScanPhase, NoFilters
  <2>6. QED
    BY <2>3, <2>5 DEF WhiteListInUse
<1>4. QED
  BY <1>2, <1>3, Sorts

LEMMA FewerFit ==
  ASSUME NEW S \in SUBSET Device, NEW T, T \subseteq S
  PROVE  /\ IsFiniteSet(S) /\ IsFiniteSet(T)
         /\ Cardinality(T) \in Nat /\ Cardinality(S) \in Nat /\ Cardinality(T) <= Cardinality(S)
<1>1. IsFiniteSet(S)
  BY FS_Subset, ManagerAssumption
<1>2. IsFiniteSet(T) /\ Cardinality(T) <= Cardinality(S)
  BY <1>1, FS_Subset
<1>3. QED
  BY <1>1, <1>2, FS_CardinalityType

\* What the controller refuses of the commands the manager sends: the list of a scanner
\* that does not fit, a device it has a link to, a cancel that comes too late.
LEMMA RefusesLittle ==
  ASSUME NEW h \in Host, NEW w, NEW ok, NEW reached, NEW b,
         Tidy(h, w, {}, ok, controller.initiating, reached),
         Held(h, w, {}, ok, controller, reached, b), NEW c \in w, Refuses(c)
  PROVE  \/ c \in ListBy("scanner") /\ ~c.last
         \/ c \in CreateOps \/ c \in CancelOps
<1>1. c \in Command
  BY DEF Tidy
<1>2. CASE c \in ScanOffs \cup ScanOns
  BY <1>2 DEF ScanOffs, ScanOns, Refuses
<1>3. CASE c \in Params
  <2>1. ~controller.scanning
    BY <1>3 DEF Held, ScanPhase
  <2>2. QED
    BY <1>3, <2>1 DEF Params, Refuses
<1>4. CASE c \in ListCommandBy
  <2>1. c.op \in {"clear", "add", "remove"}
    BY <1>4 DEF ListCommandBy, ListBy
  <2>2. ~WhiteListInUse
    BY <1>4, ListIsFree
  <2>3. c.op = "add" /\ Cardinality(controller.list \cup {c.device}) > WhiteListSize
    BY <2>1, <2>2 DEF Refuses
  <2>4. CASE c \in ListBy("scanner")
    <3>1. ListPhase(h, w, {}, ok, controller.list, "scanner")
      BY DEF Held, Who
    <3>2. c.last => c.op = "clear"
      BY <2>4, <3>1 DEF ListPhase
    <3>3. QED
      BY <2>3, <2>4, <3>2
  <2>5. CASE c \in ListBy("initiator")
    <3> DEFINE new == h.update["initiator"].newList
    <3>1. ListPhase(h, w, {}, ok, controller.list, "initiator")
      BY DEF Held, Who
    <3>2. /\ ~c.last /\ After(controller.list, c) \subseteq new
          /\ Cardinality(new) <= WhiteListSize
      BY <2>3, <2>5, <3>1 DEF ListPhase
    <3>3. new \in SUBSET Device
      BY DEF Host, Update, Who
    <3> HIDE DEF new
    <3>4. controller.list \cup {c.device} \subseteq new
      BY <2>3, <3>2 DEF After
    <3>5. QED
      BY <2>3, <3>2, <3>3, <3>4, FewerFit, ManagerAssumption
  <2>6. QED
    BY <1>4, <2>4, <2>5, Sorts
<1>5. QED
  BY <1>1, <1>2, <1>3, <1>4, Sorts

\* What is still to be done and what was just done.
Moves(w, v, c) ==
  w = {c} \cup v /\ AtMostOne(v, {c}, ScannerOps) /\ AtMostOne(v, {c}, InitiatorOps)

LEMMA MovedAlone ==
  ASSUME NEW h, NEW w, NEW v, NEW c, Moves(w, v, c), NEW b, Alone(h, w, {}, b)
  PROVE  Alone(h, v, {c}, b)
<1>1. w \cup {} = v \cup {c}
  BY DEF Moves
<1>2. QED
  BY <1>1 DEF Alone, NoFilters, NoWhiteList

LEMMA RefusalServes ==
  ASSUME NEW h, NEW w, NEW v, NEW c, Moves(w, v, c), NEW ctl, NEW reached, NEW b, NEW ok,
         Held(h, w, {}, ok, ctl, reached, b),
         (c \in ListBy("scanner") /\ ~c.last) \/ c \in CreateOps \/ c \in CancelOps
  PROVE  Held(h, v, {c}, FALSE, ctl, reached, b)
<1>1. w \cup {} = v \cup {c}
  BY DEF Moves
<1>2. c \notin ScanOffs \cup ScanOns \cup Params \cup ListBy("initiator")
  BY SortsDiffer, Sorts DEF CreateOps, CancelOps, ListBy
<1>3. Alone(h, v, {c}, b)
  BY MovedAlone DEF Held
<1>4. ScanPhase(h, v, {c}, FALSE, ctl)
  BY <1>1, <1>2 DEF Held, ScanPhase
<1>5. ASSUME NEW who \in Who
      PROVE  ListPhase(h, v, {c}, FALSE, ctl.list, who)
  <2>1. ListPhase(h, w, {}, ok, ctl.list, who)
    BY DEF Held
  <2>2. c \in ListBy(who) => who = "scanner" /\ ~c.last
    BY <1>2, SortsDiffer DEF Who
  <2>3. QED
    BY <1>1, <2>1, <2>2 DEF ListPhase
<1>6. Goal(h, v, {c}, ctl, reached)
  BY <1>1 DEF Held, Goal
<1>7. QED
  BY <1>3, <1>4, <1>5, <1>6 DEF Held

LEMMA ExecutionScans ==
  ASSUME NEW h \in Host, NEW w, NEW v, NEW c \in Command, Moves(w, v, c), NEW ok,
         controller \in ControllerType, ScanPhase(h, w, {}, ok, controller)
  PROVE  ScanPhase(h, v, {c}, TRUE, Executed(c))
<1> DEFINE k == Executed(c)
<1>1. w \cup {} = v \cup {c} /\ c \in w /\ v \subseteq w
  BY DEF Moves
<1>2. /\ k.scanning = IF c \in ScanOffs THEN FALSE
                      ELSE IF c \in ScanOns THEN TRUE ELSE controller.scanning
      /\ k.active = IF c \in Params THEN c.active ELSE controller.active
      /\ k.policy = IF c \in Params THEN c.policy ELSE controller.policy
  BY ExecutedDoes
<1> HIDE DEF k
<1>3. CASE c \in ScannerOps
  <2>1. v \cap ScannerOps = {}
    BY <1>3 DEF Moves, AtMostOne
  <2>2. v \cap (ScanOffs \cup ScanOns \cup Params \cup ListBy("scanner")) = {}
    BY <2>1, Sorts
  <2>3. CASE c \in ScanOffs
    <3>1. c \notin ScanOns \cup Params \cup ListBy("scanner")
      BY <2>3, SortsDiffer
    <3>2. h.scanEnabled /\ ~k.scanning
      BY <1>1, <1>2, <2>3 DEF ScanPhase
    <3>3. QED
      BY <1>1, <1>2, <1>3, <2>2, <2>3, <3>1, <3>2 DEF ScanPhase, k
  <2>4. CASE c \in ScanOns
    <3>1. c \notin ScanOffs \cup Params \cup ListBy("scanner")
      BY <2>4, SortsDiffer
    <3>2. ~h.scanEnabled /\ k.scanning
      BY <1>1, <1>2, <2>4, <3>1 DEF ScanPhase
    <3>3. QED
      BY <1>1, <1>2, <1>3, <2>2, <2>4, <3>1, <3>2 DEF ScanPhase, k
  <2>5. CASE c \in Params
    <3>1. c \notin ScanOffs \cup ScanOns \cup ListBy("scanner")
      BY <2>5, SortsDiffer
    <3>2. ~h.scanEnabled /\ ~k.scanning
      BY <1>1, <1>2, <2>5, <3>1 DEF ScanPhase
    <3>3. QED
      BY <1>1, <1>2, <1>3, <2>2, <2>5, <3>1, <3>2 DEF ScanPhase, k
  <2>6. CASE c \in ListBy("scanner")
    <3>1. c \notin ScanOffs \cup ScanOns \cup Params
      BY <2>6, SortsDiffer
    <3>2. ~h.scanEnabled /\ ~k.scanning
      BY <1>1, <1>2, <2>6, <3>1 DEF ScanPhase
    <3>3. QED
      BY <1>1, <1>2, <1>3, <2>2, <2>6, <3>1, <3>2 DEF ScanPhase, k
  <2>7. QED
    BY <1>3, <2>3, <2>4, <2>5, <2>6, Sorts
<1>4. CASE c \notin ScannerOps
  <2>1. c \notin ScanOffs \cup ScanOns \cup Params \cup ListBy("scanner")
    BY <1>4, Sorts
  <2>2. QED
    BY <1>1, <1>2, <2>1 DEF ScanPhase, k
<1>5. QED
  BY <1>3, <1>4

LEMMA ExecutionLists ==
  ASSUME NEW h \in Host, NEW w, NEW v, NEW c \in Command, Moves(w, v, c), NEW ok, NEW b,
         controller \in ControllerType, Alone(h, w, {}, b), NEW who \in Who,
         ListPhase(h, w, {}, ok, controller.list, who)
  PROVE  ListPhase(h, v, {c}, TRUE, Executed(c).list, who)
<1> DEFINE k == Executed(c)
           u == h.update[who]
<1>1. w \cup {} = v \cup {c} /\ c \in w /\ v \subseteq w
  BY DEF Moves
<1>2. k.list = IF c \in ListCommandBy THEN After(controller.list, c) ELSE controller.list
  BY ExecutedDoes
<1> HIDE DEF k
<1>3. CASE c \in ListBy(who)
  <2>1. k.list = After(controller.list, c)
    BY <1>2, <1>3, Sorts DEF Who
  <2>2. v \cap ListBy(who) = {}
    <3>1. CASE who = "scanner"
      BY <1>3, <3>1, Sorts DEF Moves, AtMostOne
    <3>2. CASE who = "initiator"
      BY <1>3, <3>2, Sorts DEF Moves, AtMostOne
    <3>3. QED
      BY <3>1, <3>2 DEF Who
  <2>3. IF c.last THEN c.op = "clear" /\ who = "scanner"
        ELSE Leads(After(controller.list, c), u.ops, u.newList, who)
    BY <1>1, <1>3 DEF ListPhase
  <2>4. c.last => k.list = {} /\ who = "scanner"
    BY <2>1, <2>3 DEF After
  <2>5. who = "initiator" =>
          /\ Cardinality(u.newList) <= WhiteListSize
          /\ h.attempt.useWhiteList /\ u.newList = h.attempt.devices
    BY <1>1, <1>3 DEF ListPhase
  <2>6. QED
    BY <2>1, <2>2, <2>3, <2>4, <2>5 DEF ListPhase, k
<1>4. CASE c \in ListCommandBy /\ c \notin ListBy(who)
  <2>1. (v \cup {c}) \cap ListBy(who) = {}
    <3>1. CASE who = "scanner"
      BY <1>1, <1>4, <3>1, Sorts DEF Alone, NoFilters, NoWhiteList
    <3>2. CASE who = "initiator"
      BY <1>1, <1>4, <3>2, Sorts DEF Alone, NoFilters, NoWhiteList
    <3>3. QED
      BY <3>1, <3>2 DEF Who
  <2>2. QED
    BY <2>1 DEF ListPhase
<1>5. CASE c \notin ListCommandBy
  <2>1. k.list = controller.list /\ c \notin ListBy(who)
    BY <1>2, <1>5, Sorts DEF Who
  <2>2. QED
    BY <1>1, <2>1 DEF ListPhase, k
<1>6. QED
  BY <1>3, <1>4, <1>5

\* The controller carries a command out.
LEMMA ExecutionServes ==
  ASSUME NEW h \in Host, NEW w, NEW v, NEW c \in Command, Moves(w, v, c), NEW ok, NEW reached,
         NEW b, controller \in ControllerType, Held(h, w, {}, ok, controller, reached, b)
  PROVE  Held(h, v, {c}, TRUE, Executed(c),
              IF c \in CancelOps THEN reached \cup {None} ELSE reached, b)
<1> DEFINE k == Executed(c)
           r == IF c \in CancelOps THEN reached \cup {None} ELSE reached
<1>1. w \cup {} = v \cup {c} /\ c \in w
  BY DEF Moves
<1>2. Alone(h, v, {c}, b) /\ ScanPhase(h, v, {c}, TRUE, k)
  BY MovedAlone, ExecutionScans DEF Held
<1>3. \A who \in Who : ListPhase(h, v, {c}, TRUE, k.list, who)
  BY ExecutionLists DEF Held
<1>4. Goal(h, v, {c}, k, r)
  <2>1. k.initiating = IF c \in CreateOps THEN c
                       ELSE IF c \in CancelOps THEN None ELSE controller.initiating
    BY ExecutedDoes
  <2>2. Goal(h, w, {}, controller, reached)
    BY DEF Held
  <2> HIDE DEF k
  <2>3. QED
    BY <1>1, <2>1, <2>2 DEF Goal
<1>5. QED
  BY <1>2, <1>3, <1>4 DEF Held

\* The controller connects to a device the attempt is for.
LEMMA TargetsAreWanted ==
  ASSUME NEW h \in Host, NEW w, NEW x, NEW ok, NEW reached, NEW b,
         Tidy(h, w, x, ok, controller.initiating, reached),
         Agree(h, w, x, controller.list), Held(h, w, x, ok, controller, reached, b),
         controller.initiating # None
  PROVE  InAttempt(h) /\ Targets = h.attempt.devices
<1>1. Alone(h, w, x, b) /\ Goal(h, w, x, controller, reached)
  BY DEF Held
<1>2. h.createConnectionIsOutstanding \/ x \cap CreateOps # {}
  BY DEF Tidy
<1>3. x \cap CreateOps # {} => h.connectCommandInProgress
  BY Sorts DEF Tidy
<1>4. InAttempt(h) /\ h.attempt \in Attempt
  BY <1>2, <1>3 DEF InAttempt, Tidy, CallsOk
<1>5. (w \cup x) \cap ListBy("initiator") = {}
  <2>1. CASE h.createConnectionIsOutstanding
    <3>1. ~h.connectCommandInProgress
      BY <2>1 DEF Tidy, CallsOk
    <3>2. QED
      BY <3>1, Sorts DEF Tidy
  <2>2. CASE x \cap CreateOps # {}
    BY <2>2, Sorts, SortsDiffer DEF Tidy, AtMostOne
  <2>3. QED
    BY <1>2, <2>1, <2>2
<1>6. controller.initiating = CreateFor(h.attempt)
  BY <1>1, <1>4 DEF Goal
<1> DEFINE a == h.attempt
<1>7. CASE a.useWhiteList
  <2>1. NoFilters(h, w, x, b)
    BY <1>1, <1>4, <1>7 DEF Alone, NoWhiteList
  <2>2. (w \cup x) \cap ListCommandBy = {}
    BY <1>5, <2>1, Sorts DEF NoFilters
  <2>3. controller.list = a.devices
    BY <1>1, <1>4, <1>5, <1>7, <2>2 DEF Agree, Goal
  <2>4. QED
    BY <1>4, <1>6, <1>7, <2>3 DEF Targets, CreateFor
<1>8. CASE ~a.useWhiteList
  <2>1. PICK d \in Device : a.devices = {d}
    BY <1>1, <1>4, <1>8 DEF Goal
  <2>2. InOrder[a.devices][1] \in a.devices
    BY <1>4, <1>8, CreateForIs
  <2>3. controller.initiating.device = d
    BY <1>6, <1>8, <2>1, <2>2 DEF CreateFor
  <2>4. QED
    BY <1>4, <1>6, <1>8, <2>1, <2>3 DEF Targets, CreateFor
<1>9. QED
  BY <1>7, <1>8

LEMMA ConnectionServes ==
  ASSUME NEW h \in Host, NEW w, NEW x, NEW ok, NEW reached, NEW b,
         Tidy(h, w, x, ok, controller.initiating, reached),
         Agree(h, w, x, controller.list), Held(h, w, x, ok, controller, reached, b),
         NEW d \in Targets, NEW ctl,
         ctl.scanning = controller.scanning, ctl.active = controller.active,
         ctl.policy = controller.policy, ctl.list = controller.list, ctl.initiating = None
  PROVE  Held(h, w, x, ok, ctl, reached \cup {d}, b)
<1>1. controller.initiating # None
  BY DEF Targets
<1>2. InAttempt(h) /\ d \in h.attempt.devices
  BY <1>1, TargetsAreWanted
<1>3. Goal(h, w, x, ctl, reached \cup {d})
  BY <1>2 DEF Held, Goal
<1>4. ScanPhase(h, w, x, ok, ctl)
  BY DEF Held, ScanPhase
<1>5. QED
  BY <1>3, <1>4 DEF Held

-----------------------------------------------------------------------------
(* What leaves a part of the invariant alone. *)

LEMMA MembersOfOne ==
  ASSUME NEW c, NEW out, out = <<c>>
  PROVE  Members(out) = {c}
<1>1. DOMAIN out = {1} /\ out[1] = c
  OBVIOUS
<1>2. QED
  BY <1>1 DEF Members

LEMMA GoalKept ==
  ASSUME NEW h, NEW g, NEW w, NEW x, NEW S, NEW ctl, NEW reached, Goal(h, w, x, ctl, reached),
         SameCalls(g, h), g.currentWhiteList = h.currentWhiteList,
         S \cap CreateOps = {}, S \cap ListBy("initiator") = {}
  PROVE  Goal(g, w \cup S, x, ctl, reached)
<1>1. /\ (w \cup S \cup x) \cap CreateOps = (w \cup x) \cap CreateOps
      /\ (w \cup S \cup x) \cap ListBy("initiator") = (w \cup x) \cap ListBy("initiator")
  OBVIOUS
<1>2. QED
  BY <1>1 DEF Goal, InAttempt, SameCalls

LEMMA AtRestKept ==
  ASSUME NEW h, NEW g, AtRest(h), SameCalls(g, h)
  PROVE  AtRest(g)
<1>1. Wanted(g) = Wanted(h)
  BY DEF Wanted, SameCalls
<1>2. QED
  BY <1>1 DEF AtRest, SameCalls

LEMMA ListPhaseKept ==
  ASSUME NEW h, NEW g, NEW w, NEW x, NEW S, NEW ok, NEW list, NEW who \in Who,
         ListPhase(h, w, x, ok, list, who), g.update[who] = h.update[who], g.attempt = h.attempt,
         S \cap ListBy(who) = {}
  PROVE  ListPhase(g, w \cup S, x, ok, list, who)
<1>1. /\ (w \cup S) \cap ListBy(who) = w \cap ListBy(who)
      /\ (w \cup S \cup x) \cap ListBy(who) = (w \cup x) \cap ListBy(who)
  OBVIOUS
<1>2. QED
  BY <1>1 DEF ListPhase

LEMMA ScanPhaseKept ==
  ASSUME NEW h, NEW g, NEW w, NEW x, NEW S, NEW ok, NEW ctl,
         ScanPhase(h, w, x, ok, ctl), SameScanners(g, h), S \cap ScannerOps = {}
  PROVE  ScanPhase(g, w \cup S, x, ok, ctl)
<1>1. /\ (w \cup S \cup x) \cap ScannerOps = (w \cup x) \cap ScannerOps
      /\ (w \cup S) \cap ScanOffs = w \cap ScanOffs /\ (w \cup S) \cap ScanOns = w \cap ScanOns
      /\ (w \cup S \cup x) \cap (Params \cup ListBy("scanner"))
           = (w \cup x) \cap (Params \cup ListBy("scanner"))
  BY Sorts
<1>2. QED
  BY <1>1 DEF ScanPhase, SameScanners

LEMMA SettledKept ==
  ASSUME NEW h, NEW g, Settled(h), SameScanners(g, h),
         g.scannerCommandInProgress = h.scannerCommandInProgress,
         g.currentWhiteList = h.currentWhiteList \/ ~h.policy
  PROVE  Settled(g)
<1>1. Live(g) = Live(h) /\ LiveFilters(g) = LiveFilters(h)
  BY DEF Live, LiveFilters, SameScanners
<1>2. QED
  BY <1>1 DEF Settled, SameScanners

LEMMA AgreeKept ==
  ASSUME NEW h, NEW g, NEW w, NEW x, NEW S, NEW list, Agree(h, w, x, list),
         g.currentWhiteList = h.currentWhiteList
  PROVE  Agree(g, w \cup S, x, list)
BY DEF Agree

\* A scanner's command is no matter of the connections, and the other way round.
LEMMA FewCallsKept ==
  ASSUME NEW h, NEW g, NEW b, FewCalls(h, b), g.pending \subseteq h.pending
  PROVE  FewCalls(g, b)
BY DEF FewCalls

-----------------------------------------------------------------------------
(* triggerScannerChange *)

LEMMA WantedIsSettled ==
  ASSUME NEW h \in Host, IsAsWanted(h)
  PROVE  Settled(h)
<1> DEFINE c == ScanFor(h)
<1>1. /\ c.active <=> \E s \in Live(h) : h.scanners[s].active
      /\ c.policy <=> /\ h.whiteListUsage = "none"
                      /\ \A s \in Live(h) : h.scanners[s].filters # {}
      /\ c.policy => c.devices = LiveFilters(h)
      /\ c.updateList <=> c.policy /\ h.currentWhiteList # c.devices
      /\ c \in Change
  BY ScanForIs
<1> HIDE DEF c
<1>2. IF Live(h) = {} THEN ~h.scanEnabled
      ELSE h.scanEnabled /\ h.active = c.active /\ h.policy = c.policy /\ ~c.updateList
  BY DEF IsAsWanted, c
<1>3. c.active \in BOOLEAN /\ c.policy \in BOOLEAN /\ c.updateList \in BOOLEAN
      /\ h.active \in BOOLEAN /\ h.policy \in BOOLEAN /\ h.scanEnabled \in BOOLEAN
  BY <1>1 DEF Change, Host
<1>4. QED
  BY <1>1, <1>2, <1>3 DEF Settled

LEMMA LeavesScanServes ==
  ASSUME NEW m, Idle(m), NEW w, NEW x, NEW ok, NEW ctl, NEW reached, NEW b,
         Agree(m, w, x, ctl.list), Held(m, w, x, ok, ctl, reached, b), AtRest(m),
         NEW g, LeavesScan(g, m)
  PROVE  Serving(g, w \cup Members(g.out), x, ok, ctl, reached, b)
<1>1. Members(g.out) = {}
  BY MembersOfEmpty DEF LeavesScan
<1>2. Agree(g, w \cup {}, x, ctl.list)
  BY AgreeKept DEF LeavesScan, SameLists
<1>3. /\ ScanPhase(g, w \cup {}, x, ok, ctl)
      /\ \A who \in Who : ListPhase(g, w \cup {}, x, ok, ctl.list, who)
      /\ Goal(g, w \cup {}, x, ctl, reached) /\ AtRest(g)
  BY ScanPhaseKept, ListPhaseKept, GoalKept, AtRestKept
     DEF Held, LeavesScan, SameLists, SameCalls
<1>4. Live(g) = Live(m) /\ LiveFilters(g) = LiveFilters(m)
  BY DEF Live, LiveFilters, LeavesScan, SameScanners
<1>5. Alone(g, w \cup {}, x, b)
  BY <1>4 DEF Held, Alone, NoFilters, NoWhiteList, FewCalls, InAttempt, LeavesScan, SameCalls,
              SameFlags, SameLists, SameScanners
<1>6. Settled(g)
  <2>1. CASE m.scannerCommandInProgress
    BY <2>1 DEF LeavesScan, Settled
  <2>2. CASE ~m.scannerCommandInProgress
    <3>1. Settled(m)
      BY <2>2, WantedIsSettled DEF LeavesScan, Idle
    <3>2. QED
      BY <3>1, SettledKept DEF LeavesScan, SameLists
  <2>3. QED
    BY <2>1, <2>2
<1>7. IsFiniteSet(g.pending)
  BY DEF Held, LeavesScan, SameCalls
<1>8. QED
  BY <1>1, <1>2, <1>3, <1>5, <1>6, <1>7 DEF Serving, Held

LEMMA StopsScanServes ==
  ASSUME NEW m, Idle(m), NEW w, NEW x, NEW ok, NEW ctl, NEW reached, NEW b,
         Agree(m, w, x, ctl.list), Held(m, w, x, ok, ctl, reached, b), AtRest(m),
         (w \cup x) \cap ScannerOps # {} => m.scannerCommandInProgress,
         NEW g, StopsScan(g, m)
  PROVE  Serving(g, w \cup Members(g.out), x, ok, ctl, reached, b)
<1> DEFINE c == ScanOff
           v == w \cup {c}
<1>1. Members(g.out) = {c}
  BY MembersOfOne DEF StopsScan
<1>2. c \in ScanOffs
  BY DEF StopsScan, ScanOff, ScanOffs
<1> HIDE DEF c
<1>3. c \notin ScanOns \cup Params \cup CreateOps \cup ListBy("scanner") \cup ListBy("initiator")
  BY <1>2, SortsDiffer
<1>4. c \notin ScannerWork
  BY <1>3, Sorts
<1>5. Agree(g, v, x, ctl.list) /\ AtRest(g) /\ Goal(g, v, x, ctl, reached)
  BY <1>3, AgreeKept, AtRestKept, GoalKept DEF Held, StopsScan, SameLists
<1>6. ASSUME NEW who \in Who
      PROVE  ListPhase(g, v, x, ok, ctl.list, who)
  <2>1. {c} \cap ListBy(who) = {}
    BY <1>3 DEF Who
  <2>2. QED
    BY <2>1, ListPhaseKept DEF Held, StopsScan, SameLists, SameCalls
<1>7. ScanPhase(g, v, x, ok, ctl)
  <2>1. (w \cup x) \cap ScannerOps = {} /\ m.scanEnabled
    BY DEF StopsScan
  <2>2. ctl.scanning
    BY <2>1 DEF Held, ScanPhase
  <2>3. w \cap ScanOns = {} /\ x \cap ScanOns = {} /\ x \cap ScanOffs = {} /\ x \cap Params = {}
        /\ (w \cup x) \cap (Params \cup ListBy("scanner")) = {}
    BY <2>1, Sorts
  <2>4. c \in ScannerOps
    BY <1>2, Sorts
  <2>5. g.scanEnabled /\ g.active = ctl.active /\ g.policy = ctl.policy
    BY <2>1, <2>3 DEF Held, ScanPhase, StopsScan, SameScanners
  <2>6. QED
    BY <1>3, <2>2, <2>3, <2>4, <2>5 DEF ScanPhase
<1>8. Alone(g, v, x, b)
  <2>1. Live(g) = Live(m)
    BY DEF Live, StopsScan, SameScanners
  <2>2. QED
    BY <1>3, <1>4, <2>1 DEF Held, Alone, NoFilters, NoWhiteList, FewCalls, InAttempt, StopsScan,
                            SameCalls, SameFlags, SameLists, SameScanners
<1>9. Settled(g)
  BY DEF Settled, StopsScan
<1>10. IsFiniteSet(g.pending)
  BY DEF Held, StopsScan, SameCalls
<1>11. QED
  BY <1>1, <1>5, <1>6, <1>7, <1>8, <1>9, <1>10 DEF Serving, Held

-----------------------------------------------------------------------------
\* A command for a scan that is off.
LEMMA ScanWorkServes ==
  ASSUME NEW m, NEW w, NEW x, NEW ok, NEW ctl, NEW reached, NEW b,
         Agree(m, w, x, ctl.list), ScanPhase(m, w, x, ok, ctl), Goal(m, w, x, ctl, reached),
         AtRest(m), IsFiniteSet(m.pending), (w \cup x) \cap ScannerOps = {}, ~m.scanEnabled,
         NEW g, SameCalls(g, m), SameScanners(g, m), g.currentWhiteList = m.currentWhiteList,
         g.scannerCommandInProgress, NEW e \in ScannerWork, g.out = <<e>>,
         Alone(g, w \cup {e}, x, b),
         \A who \in Who : ListPhase(g, w \cup {e}, x, ok, ctl.list, who)
  PROVE  Serving(g, w \cup Members(g.out), x, ok, ctl, reached, b)
<1> DEFINE v == w \cup {e}
<1>1. Members(g.out) = {e}
  BY MembersOfOne
<1>2. e \notin ScanOffs \cup CreateOps \cup ListBy("initiator") /\ e \in ScannerOps
  BY Sorts, SortsDiffer
<1>3. Agree(g, v, x, ctl.list) /\ AtRest(g) /\ Goal(g, v, x, ctl, reached)
  BY <1>2, AgreeKept, AtRestKept, GoalKept
<1>4. ScanPhase(g, v, x, ok, ctl)
  <2>1. w \cap ScanOffs = {} /\ x \cap ScanOffs = {} /\ x \cap ScanOns = {} /\ x \cap Params = {}
    BY Sorts
  <2>2. ~ctl.scanning /\ m.active = ctl.active /\ m.policy = ctl.policy
    BY <2>1 DEF ScanPhase
  <2>3. ~g.scanEnabled /\ g.active = ctl.active /\ g.policy = ctl.policy
    BY <2>2 DEF SameScanners
  <2>4. QED
    BY <1>2, <2>1, <2>2, <2>3 DEF ScanPhase
<1>5. Settled(g)
  BY DEF Settled
<1>6. IsFiniteSet(g.pending)
  BY DEF SameCalls
<1>7. QED
  BY <1>1, <1>3, <1>4, <1>5, <1>6 DEF Serving, Held

LEMMA SetsScanServes ==
  ASSUME NEW m, Idle(m), NEW w, NEW x, NEW ok, NEW ctl, NEW reached, NEW b,
         Agree(m, w, x, ctl.list), Held(m, w, x, ok, ctl, reached, b), AtRest(m),
         (w \cup x) \cap ScannerOps # {} => m.scannerCommandInProgress,
         NEW g, SetsScan(g, m)
  PROVE  Serving(g, w \cup Members(g.out), x, ok, ctl, reached, b)
<1> DEFINE c == ScanFor(m)
<1>1. /\ c \in Change
      /\ c.policy <=> /\ m.whiteListUsage = "none"
                      /\ \A s \in Live(m) : m.scanners[s].filters # {}
      /\ c.updateList <=> c.policy /\ m.currentWhiteList # c.devices
  BY ScanForIs DEF Idle
<1>2. c.policy \in BOOLEAN /\ c.updateList \in BOOLEAN /\ c.active \in BOOLEAN
      /\ c.filterDuplicates \in BOOLEAN
  BY <1>1 DEF Change
<1> DEFINE user == IF c.policy THEN "scanner" ELSE m.whiteListUsage
<1>3. /\ ~m.scannerCommandInProgress /\ ~m.stopScanCallback /\ ~m.scanEnabled /\ Live(m) # {}
      /\ SameCalls(g, m) /\ SameFlags(g, m) /\ SameScanners(g, m)
      /\ g.scanChange = c /\ g.scannerCommandInProgress
      /\ \/ /\ g.out = <<ScanParameters(c)>> /\ ScanParameters(c) \in Command
            /\ g.whiteListUsage = user /\ g.update = m.update
            /\ g.currentWhiteList = m.currentWhiteList
         \/ /\ m.active = c.active /\ m.policy = c.policy /\ c.updateList
            /\ g.whiteListUsage = user /\ BeginsUpdate(g, m, "scanner", c.devices)
         \/ /\ m.active = c.active /\ m.policy = c.policy /\ ~c.updateList
            /\ SameLists(g, m)
            /\ g.out = <<ScanOn(c.filterDuplicates)>> /\ ScanOn(c.filterDuplicates) \in Command
  BY DEF SetsScan
<1> HIDE DEF c
<1>4. (w \cup x) \cap ScannerOps = {}
  BY <1>3
<1>5. /\ (w \cup x) \cap ListBy("scanner") = {} /\ (w \cup x) \cap Params = {}
      /\ (w \cup x) \cap ScannerWork = {}
  BY <1>4, Sorts
<1>6. Alone(m, w, x, b) /\ ScanPhase(m, w, x, ok, ctl) /\ Goal(m, w, x, ctl, reached)
      /\ \A who \in Who : ListPhase(m, w, x, ok, ctl.list, who)
      /\ IsFiniteSet(m.pending)
  BY DEF Held
<1>7. Live(g) = Live(m) /\ g.scanners = m.scanners /\ g.policy = m.policy
  BY <1>3 DEF Live, SameScanners
<1>8. NoFilters(m, w, x, b) => ~c.policy /\ ~c.updateList
  BY <1>1, <1>2, <1>3 DEF NoFilters
<1>9. ASSUME NEW e \in ScannerWork, g.whiteListUsage = user,
             NoFilters(m, w, x, b) => e \notin ListBy("scanner") /\ (e \in Params => ~e.policy)
      PROVE  Alone(g, w \cup {e}, x, b)
  <2>1. ~g.stopScanCallback
    BY <1>3 DEF SameFlags
  <2>2. CASE NoFilters(m, w, x, b)
    <3>1. NoFilters(g, w \cup {e}, x, b)
      BY <1>3, <1>5, <1>7, <1>8, <1>9, <2>2 DEF NoFilters
    <3>2. QED
      BY <2>1, <3>1 DEF Alone
  <2>3. CASE NoWhiteList(m, w, x, b)
    <3>1. e \notin ListBy("initiator")
      BY Sorts, SortsDiffer
    <3>2. NoWhiteList(g, w \cup {e}, x, b)
      BY <1>3, <2>3, <3>1 DEF NoWhiteList, FewCalls, InAttempt, SameCalls
    <3>3. QED
      BY <2>1, <3>2 DEF Alone
  <2>4. QED
    BY <1>6, <2>2, <2>3 DEF Alone
<1>10. ASSUME NEW e \in ScannerWork, e \notin ListBy("scanner"), g.update = m.update, NEW who \in Who
       PROVE  ListPhase(g, w \cup {e}, x, ok, ctl.list, who)
  <2>1. {e} \cap ListBy(who) = {}
    BY <1>10, Sorts, SortsDiffer DEF Who
  <2>2. QED
    BY <1>3, <1>6, <1>10, <2>1, ListPhaseKept DEF SameCalls
<1>11. CASE /\ g.out = <<ScanParameters(c)>> /\ ScanParameters(c) \in Command
            /\ g.whiteListUsage = user /\ g.update = m.update
            /\ g.currentWhiteList = m.currentWhiteList
  <2>1. PICK e \in Params : e = ScanParameters(c) /\ e.policy = c.policy
    BY <1>11 DEF Params, ScanParameters
  <2>2. e \in ScannerWork /\ e \notin ListBy("scanner")
    BY <2>1, Sorts, SortsDiffer
  <2>3. Alone(g, w \cup {e}, x, b)
    BY <1>8, <1>9, <1>11, <2>1, <2>2
  <2>4. \A who \in Who : ListPhase(g, w \cup {e}, x, ok, ctl.list, who)
    BY <1>10, <1>11, <2>2
  <2>5. g.out = <<e>> /\ g.currentWhiteList = m.currentWhiteList
    BY <1>11, <2>1
  <2>6. SameCalls(g, m) /\ SameScanners(g, m) /\ g.scannerCommandInProgress /\ ~m.scanEnabled
    BY <1>3
  <2>7. QED
    BY <1>4, <1>6, <2>2, <2>3, <2>4, <2>5, <2>6, ScanWorkServes DEF Who
<1>12. CASE /\ ~c.updateList /\ SameLists(g, m) /\ m.policy = c.policy
            /\ g.out = <<ScanOn(c.filterDuplicates)>> /\ ScanOn(c.filterDuplicates) \in Command
  <2>1. PICK e \in ScanOns : e = ScanOn(c.filterDuplicates)
    BY <1>12 DEF ScanOns, ScanOn
  <2>2. e \in ScannerWork /\ e \notin ListBy("scanner") /\ e \notin Params
    BY <2>1, Sorts, SortsDiffer
  <2>3. Alone(g, w \cup {e}, x, b)
    <3>1. ~g.stopScanCallback
      BY <1>3 DEF SameFlags
    <3>2. CASE NoFilters(m, w, x, b)
      <4>1. NoFilters(g, w \cup {e}, x, b)
        BY <1>3, <1>5, <1>7, <1>8, <1>12, <2>2, <3>2 DEF NoFilters, SameLists
      <4>2. QED
        BY <3>1, <4>1 DEF Alone
    <3>3. CASE NoWhiteList(m, w, x, b)
      <4>1. e \notin ListBy("initiator")
        BY <2>2, Sorts, SortsDiffer
      <4>2. NoWhiteList(g, w \cup {e}, x, b)
        BY <1>3, <3>3, <4>1 DEF NoWhiteList, FewCalls, InAttempt, SameCalls
      <4>3. QED
        BY <3>1, <4>2 DEF Alone
    <3>4. QED
      BY <1>6, <3>2, <3>3 DEF Alone
  <2>4. \A who \in Who : ListPhase(g, w \cup {e}, x, ok, ctl.list, who)
    BY <1>10, <1>12, <2>2 DEF SameLists
  <2>5. g.out = <<e>> /\ g.currentWhiteList = m.currentWhiteList
    BY <1>12, <2>1 DEF SameLists
  <2>6. SameCalls(g, m) /\ SameScanners(g, m) /\ g.scannerCommandInProgress /\ ~m.scanEnabled
    BY <1>3
  <2>7. QED
    BY <1>4, <1>6, <2>2, <2>3, <2>4, <2>5, <2>6, ScanWorkServes DEF Who
<1>13. CASE c.updateList /\ g.whiteListUsage = user /\ BeginsUpdate(g, m, "scanner", c.devices)
  <2>1. m.currentWhiteList # c.devices
    BY <1>1, <1>13
  <2>2. PICK e \in ListBy("scanner") :
          /\ e \in Command /\ g.out = <<e>> /\ ~e.last
          /\ Leads(After(m.currentWhiteList, e), g.update["scanner"].ops, c.devices, "scanner")
          /\ e.op = "add" => After(m.currentWhiteList, e) \subseteq c.devices
    BY <1>13, <2>1 DEF BeginsUpdate
  <2>3. g.currentWhiteList = m.currentWhiteList /\ g.update["scanner"].newList = c.devices
        /\ g.update["initiator"] = m.update["initiator"]
    BY <1>13 DEF BeginsUpdate, Who
  <2>4. e \in ScannerWork /\ e \notin ListBy("initiator")
    BY Sorts, SortsDiffer
  <2>5. NoWhiteList(m, w, x, b)
    BY <1>6, <1>8, <1>13 DEF Alone
  <2>6. m.currentWhiteList = ctl.list
    BY <1>5, <2>5, Sorts DEF Agree, NoWhiteList
  <2>7. ListPhase(g, w \cup {e}, x, ok, ctl.list, "scanner")
    BY <1>5, <2>2, <2>3, <2>6 DEF ListPhase
  <2>8. ListPhase(g, w \cup {e}, x, ok, ctl.list, "initiator")
    BY <1>3, <1>6, <2>3, <2>4, ListPhaseKept DEF Who, SameCalls
  <2>9. Alone(g, w \cup {e}, x, b)
    BY <1>8, <1>9, <1>13, <2>4
  <2>10. QED
    BY <1>3, <1>4, <1>6, <2>2, <2>3, <2>4, <2>7, <2>8, <2>9, ScanWorkServes DEF Who
<1>14. QED
  BY <1>3, <1>11, <1>12, <1>13

\* triggerScannerChange brings the scan in line with what is wanted, or is on its way.
LEMMA ScannerChangeServes ==
  ASSUME NEW m, Idle(m), NEW w, NEW x, NEW ok, NEW ctl, NEW reached, NEW b,
         Agree(m, w, x, ctl.list), Held(m, w, x, ok, ctl, reached, b), AtRest(m),
         (w \cup x) \cap ScannerOps # {} => m.scannerCommandInProgress
  PROVE  LET g == TriggerScannerChange(m)
         IN Serving(g, w \cup Members(g.out), x, ok, ctl, reached, b)
<1>1. ~m.stopScanCallback
  BY DEF Held, Alone
<1> DEFINE g == TriggerScannerChange(m)
<1>2. LeavesScan(g, m) \/ StopsScan(g, m) \/ SetsScan(g, m) \/ ResumesAttempt(g, m)
  BY <1>1, TriggerScannerChangeDoes
<1> HIDE DEF g
<1>3. ~ResumesAttempt(g, m)
  BY <1>1 DEF ResumesAttempt
<1>4. QED
  BY <1>2, <1>3, LeavesScanServes, StopsScanServes, SetsScanServes DEF g

-----------------------------------------------------------------------------
(* triggerConnectionChange *)

\* What pending calls ask for: one device, or a list that has room.
LEMMA AttemptForFits ==
  ASSUME NEW m \in Host, PendingAreCalls(m), IsFiniteSet(m.pending), m.pending # {}, ~TooMany(m)
  PROVE  LET a == AttemptFor(m)
         IN /\ a.useWhiteList => Cardinality(a.devices) <= WhiteListSize
            /\ ~a.useWhiteList => \E d \in Device : a.devices = {d}
<1> DEFINE p == m.pending
           n == Cardinality(p)
           f == [c \in p |-> m.device[c]]
           a == AttemptFor(m)
<1>1. \A c \in p : m.device[c] \in Device
  <2>1. p \subseteq Connect /\ m.device \in [Connect -> Device \cup {None}]
    BY DEF Host
  <2>2. QED
    BY <2>1 DEF PendingAreCalls
<1>2. a.devices = Wanted(m) /\ (a.useWhiteList <=> n \in 2 .. WhiteListSize)
  BY DEF AttemptFor
<1>3. ~(n > WhiteListSize)
  BY DEF TooMany
<1>4. n \in Nat /\ n # 0
  BY FS_CardinalityType, FS_EmptySet
<1>5. IsFiniteSet(Wanted(m)) /\ Cardinality(Wanted(m)) <= n
  <2>1. f \in Surjection(p, Wanted(m))
    BY DEF Surjection, Wanted
  <2>2. QED
    BY <2>1, FS_Surjection
<1>6. Cardinality(Wanted(m)) \in Nat
  BY <1>5, FS_CardinalityType
<1> HIDE DEF a
<1>7. Cardinality(Wanted(m)) <= WhiteListSize
  BY <1>3, <1>4, <1>5, <1>6, ManagerAssumption
<1>8. ASSUME ~a.useWhiteList
      PROVE  \E d \in Device : a.devices = {d}
  <2>1. n = 1
    BY <1>2, <1>3, <1>4, <1>8, ManagerAssumption
  <2>2. PICK c : p = {c}
    BY <2>1, FS_Singleton
  <2>3. Wanted(m) = {m.device[c]}
    BY <2>2 DEF Wanted
  <2>4. QED
    BY <1>1, <1>2, <2>2, <2>3
<1>9. QED
  BY <1>2, <1>7, <1>8 DEF a

\* A single call does not use the white list.
LEMMA FewCallsAlone ==
  ASSUME NEW m, NEW b, FewCalls(m, b), m.pending # {}
  PROVE  ~AttemptFor(m).useWhiteList
<1> DEFINE p == m.pending
<1>1. CASE WhiteListSize <= 1
  <2>1. 2 .. WhiteListSize = {}
    BY <1>1, ManagerAssumption
  <2>2. QED
    BY <2>1 DEF AttemptFor
<1>2. CASE \A c, d \in p : c = d
  <2>1. PICK c : p = {c}
    BY <1>2
  <2>2. Cardinality(p) = 1
    BY <2>1, FS_Singleton
  <2>3. Cardinality(p) \notin 2 .. WhiteListSize
    BY <2>2, ManagerAssumption
  <2>4. QED
    BY <2>3 DEF AttemptFor
<1>3. QED
  BY <1>1, <1>2 DEF FewCalls

\* An attempt goes to the controller.
LEMMA BeginsAttemptServes ==
  ASSUME NEW m, Idle(m), PendingAreCalls(m), NEW w, NEW x, NEW ok, NEW ctl, NEW reached, NEW b,
         Agree(m, w, x, ctl.list), Held(m, w, x, ok, ctl, reached, b), Settled(m),
         (w \cup x) \cap InitiatorOps = {}, reached = {}, ctl.initiating = None,
         NEW g, g \in Host, BeginsAttempt(g, m)
  PROVE  Serving(g, w \cup Members(g.out), x, ok, ctl, reached, b)
<1> DEFINE a == AttemptFor(m)
<1>1. /\ m.pending # {} /\ SameOutcomes(g, m) /\ SameScanner(g, m) /\ g.crashed = m.crashed
      /\ g.attempt = a /\ g.connectCommandInProgress /\ ~TooMany(m)
      /\ IF a.useWhiteList /\ m.whiteListUsage = "scanner"
         THEN g.stopScanCallback /\ SameLists(g, m) /\ g.out = <<>>
         ELSE /\ ~g.stopScanCallback
              /\ \E k : k.attempt = a /\ SameLists(k, m) /\ Attempts(g, k)
  BY DEF BeginsAttempt
<1>2. /\ a.useWhiteList => Cardinality(a.devices) <= WhiteListSize
      /\ ~a.useWhiteList => \E d \in Device : a.devices = {d}
      /\ a.devices = Wanted(m) /\ a.conns = m.pending
      /\ a.useWhiteList \in BOOLEAN
  BY <1>1, AttemptForFits DEF Held, Idle, AttemptFor
<1>3. FewCalls(m, b) => ~a.useWhiteList
  BY <1>1, FewCallsAlone
<1> HIDE DEF a
<1>4. Alone(m, w, x, b) /\ ScanPhase(m, w, x, ok, ctl)
      /\ \A who \in Who : ListPhase(m, w, x, ok, ctl.list, who)
  BY DEF Held
<1>5. a.useWhiteList => NoFilters(m, w, x, b) /\ m.whiteListUsage # "scanner"
  BY <1>3, <1>4 DEF Alone, NoWhiteList, NoFilters
<1>6. ~g.stopScanCallback /\ \E k : k.attempt = a /\ SameLists(k, m) /\ Attempts(g, k)
  BY <1>1, <1>5
<1>7. PICK k : k.attempt = a /\ SameLists(k, m) /\ Attempts(g, k)
  BY <1>6
<1>8. (w \cup x) \cap CreateOps = {} /\ (w \cup x) \cap ListBy("initiator") = {}
  BY Sorts
<1>9. /\ g.scanners = m.scanners /\ g.policy = m.policy /\ g.scanChange = m.scanChange
      /\ Live(g) = Live(m) /\ SameScanners(g, m)
  BY <1>1 DEF SameScanner, SameScan, Live, SameScanners
<1>10. g.currentWhiteList = m.currentWhiteList
       /\ g.update["scanner"] = m.update["scanner"]
  BY <1>7 DEF Attempts, SameLists, BeginsUpdate, Who
<1>11. ASSUME NEW e \in InitiatorOps, g.out = <<e>>,
              NoFilters(m, w, x, b) \/ (e \notin ListBy("initiator") /\ ~a.useWhiteList),
              g.whiteListUsage \in {m.whiteListUsage, "initiator"},
              ListPhase(g, w \cup {e}, x, ok, ctl.list, "initiator"),
              e \in CreateOps => e = CreateFor(a),
              a.useWhiteList /\ e \notin ListBy("initiator") => m.currentWhiteList = a.devices
       PROVE  Serving(g, w \cup Members(g.out), x, ok, ctl, reached, b)
  <2> DEFINE v == w \cup {e}
  <2>1. Members(g.out) = {e}
    BY <1>11, MembersOfOne
  <2>2. e \notin ListBy("scanner") \cup Params /\ e \notin ScannerOps /\ e \notin ScannerWork
    BY Sorts, SortsDiffer
  <2>3. Agree(g, v, x, ctl.list)
    BY <1>10, AgreeKept DEF Held
  <2>4. ScanPhase(g, v, x, ok, ctl)
    BY <1>4, <1>9, <2>2, ScanPhaseKept
  <2>5. ListPhase(g, v, x, ok, ctl.list, "scanner")
    <3>1. ListPhase(m, w, x, ok, ctl.list, "scanner")
      BY <1>4 DEF Who
    <3>2. v \cap ListBy("scanner") = w \cap ListBy("scanner")
      BY <2>2
    <3>3. QED
      BY <1>10, <3>1, <3>2 DEF ListPhase
  <2>6. Goal(g, v, x, ctl, reached)
    <3>1. a.devices = {g.device[c] : c \in a.conns}
      BY <1>1, <1>2 DEF Wanted, SameOutcomes
    <3>2. QED
      BY <1>1, <1>2, <1>8, <1>10, <1>11, <3>1 DEF Goal
  <2>7. Alone(g, v, x, b)
    <3>1. CASE NoFilters(m, w, x, b)
      <4>1. NoFilters(g, v, x, b)
        BY <1>9, <1>11, <2>2, <3>1 DEF NoFilters
      <4>2. QED
        BY <1>6, <4>1 DEF Alone
    <3>2. CASE NoWhiteList(m, w, x, b) /\ e \notin ListBy("initiator") /\ ~a.useWhiteList
      <4>1. NoWhiteList(g, v, x, b)
        BY <1>1, <1>8, <3>2 DEF NoWhiteList, FewCalls, SameOutcomes
      <4>2. QED
        BY <1>6, <4>1 DEF Alone
    <3>3. QED
      BY <1>4, <1>11, <3>1, <3>2 DEF Alone
  <2>8. Settled(g)
    BY <1>1, <1>9, <1>10, SettledKept DEF SameScanner
  <2>9. AtRest(g)
    BY <1>1 DEF AtRest
  <2>10. IsFiniteSet(g.pending)
    BY <1>1 DEF Held, SameOutcomes
  <2>11. \A who \in Who : ListPhase(g, v, x, ok, ctl.list, who)
    BY <1>11, <2>5 DEF Who
  <2>12. QED
    BY <2>1, <2>3, <2>4, <2>6, <2>7, <2>8, <2>9, <2>10, <2>11 DEF Serving, Held
<1>12. CASE a.useWhiteList
  <2>1. g.whiteListUsage = "initiator" /\ BeginsUpdate(g, k, "initiator", a.devices)
    BY <1>7, <1>12 DEF Attempts
  <2>2. k.currentWhiteList = m.currentWhiteList /\ g.update["initiator"].newList = a.devices
    BY <1>7, <2>1 DEF SameLists, BeginsUpdate
  <2>3. CASE k.currentWhiteList = a.devices /\ g.out = <<Final(k, "initiator")>>
             /\ Final(k, "initiator") \in Command
    <3>1. PICK e \in CreateOps : e = CreateFor(a)
      BY <1>7, <2>3 DEF Final, CreateOps, CreateFor
    <3>2. g.out = <<e>>
      BY <1>7, <2>3, <3>1 DEF Final
    <3>3. e \notin ListBy("initiator") /\ e \in InitiatorOps
      BY Sorts, SortsDiffer
    <3>4. ListPhase(g, w \cup {e}, x, ok, ctl.list, "initiator")
      BY <1>8, <3>3 DEF ListPhase
    <3>5. QED
      BY <1>5, <1>11, <1>12, <2>1, <2>2, <2>3, <3>1, <3>2, <3>3, <3>4
  <2>4. CASE \E e \in ListBy("initiator") :
               /\ e \in Command /\ g.out = <<e>> /\ ~e.last
               /\ Leads(After(k.currentWhiteList, e), g.update["initiator"].ops, a.devices,
                        "initiator")
               /\ e.op = "add" => After(k.currentWhiteList, e) \subseteq a.devices
    <3>1. PICK e \in ListBy("initiator") :
               /\ e \in Command /\ g.out = <<e>> /\ ~e.last
               /\ Leads(After(k.currentWhiteList, e), g.update["initiator"].ops, a.devices,
                        "initiator")
               /\ e.op = "add" => After(k.currentWhiteList, e) \subseteq a.devices
      BY <2>4
    <3>2. e \notin CreateOps /\ e \in InitiatorOps
      BY Sorts, SortsDiffer
    <3>3. m.currentWhiteList = ctl.list
      <4>1. (w \cup x) \cap ListCommandBy = {}
        BY <1>5, <1>8, <1>12, Sorts DEF NoFilters
      <4>2. QED
        BY <4>1 DEF Agree
    <3>4. ListPhase(g, w \cup {e}, x, ok, ctl.list, "initiator")
      BY <1>1, <1>2, <1>8, <1>12, <2>2, <3>1, <3>3 DEF ListPhase
    <3>5. QED
      BY <1>5, <1>11, <1>12, <2>1, <2>2, <3>1, <3>2, <3>4
  <2>5. QED
    BY <2>1, <2>3, <2>4 DEF BeginsUpdate
<1>13. CASE ~a.useWhiteList
  <2>1. SameLists(g, k) /\ g.out = <<CreateFor(a)>> /\ CreateFor(a) \in Command
    BY <1>7, <1>13 DEF Attempts
  <2>2. PICK e \in CreateOps : e = CreateFor(a)
    BY <2>1 DEF CreateOps, CreateFor
  <2>3. e \notin ListBy("initiator") /\ e \in InitiatorOps
    BY Sorts, SortsDiffer
  <2>4. ListPhase(g, w \cup {e}, x, ok, ctl.list, "initiator")
    BY <1>8, <2>3 DEF ListPhase
  <2>5. g.whiteListUsage = m.whiteListUsage
    BY <1>7, <2>1 DEF SameLists
  <2>6. QED
    BY <1>11, <1>13, <2>1, <2>2, <2>3, <2>4, <2>5
<1>14. QED
  BY <1>2, <1>12, <1>13

LEMMA KeepsAttemptServes ==
  ASSUME NEW m, NEW w, NEW x, NEW ok, NEW ctl, NEW reached, NEW b,
         Agree(m, w, x, ctl.list), Held(m, w, x, ok, ctl, reached, b), Settled(m),
         NEW g, KeepsAttempt(g, m)
  PROVE  Serving(g, w \cup Members(g.out), x, ok, ctl, reached, b)
<1>1. Members(g.out) = {}
  BY MembersOfEmpty DEF KeepsAttempt
<1>2. SameScanners(g, m) /\ SameCalls(g, m) /\ SameFlags(g, m) /\ SameLists(g, m)
      /\ g.scannerCommandInProgress = m.scannerCommandInProgress /\ g.scanChange = m.scanChange
  BY DEF KeepsAttempt, SameScanner, SameScan, SameScanners
<1>3. /\ Agree(g, w \cup {}, x, ctl.list) /\ ScanPhase(g, w \cup {}, x, ok, ctl)
      /\ \A who \in Who : ListPhase(g, w \cup {}, x, ok, ctl.list, who)
      /\ Goal(g, w \cup {}, x, ctl, reached)
  BY <1>2, AgreeKept, ScanPhaseKept, ListPhaseKept, GoalKept DEF Held, SameLists, SameCalls
<1>4. Live(g) = Live(m)
  BY <1>2 DEF Live, SameScanners
<1>5. Alone(g, w \cup {}, x, b)
  BY <1>2, <1>4 DEF Held, Alone, NoFilters, NoWhiteList, FewCalls, InAttempt, SameCalls, SameFlags,
                    SameLists, SameScanners
<1>6. Settled(g)
  BY <1>2, SettledKept DEF SameLists
<1>7. AtRest(g)
  <2>1. ~m.stopScanCallback
    BY DEF Held, Alone
  <2>2. Wanted(g) = Wanted(m)
    BY <1>2 DEF Wanted, SameCalls
  <2>3. AttemptFits(m)
    BY DEF KeepsAttempt
  <2>4. QED
    BY <1>2, <2>1, <2>2, <2>3 DEF AtRest, AttemptFits, SameCalls
<1>8. IsFiniteSet(g.pending)
  BY <1>2 DEF Held, SameCalls
<1>9. QED
  BY <1>1, <1>3, <1>5, <1>6, <1>7, <1>8 DEF Serving, Held

\* The attempt is told to end.
CancelSent(g, m) ==
  /\ SameOutcomes(g, m) /\ SameFlags(g, m) /\ SameLists(g, m) /\ SameScanner(g, m)
  /\ g.connecting = m.connecting /\ g.attempt = m.attempt
  /\ g.connectCommandInProgress = m.connectCommandInProgress
  /\ g.cancelCommandInProgress
  /\ g.createConnectionIsOutstanding = m.createConnectionIsOutstanding
  /\ g.out = <<CancelCommand>> /\ CancelCommand \in Command

LEMMA CancelSentServes ==
  ASSUME NEW m, NEW w, NEW x, NEW ok, NEW ctl, NEW reached, NEW b,
         Agree(m, w, x, ctl.list), Held(m, w, x, ok, ctl, reached, b), Settled(m),
         NEW g, CancelSent(g, m)
  PROVE  Serving(g, w \cup Members(g.out), x, ok, ctl, reached, b)
<1>1. PICK e \in CancelOps : g.out = <<e>>
  BY DEF CancelSent, CancelOps, CancelCommand
<1> DEFINE v == w \cup {e}
<1>2. Members(g.out) = {e}
  BY <1>1, MembersOfOne
<1>3. e \notin ListCommandBy \cup CreateOps \cup ScannerOps \cup Params \cup ScannerWork
        \cup ListBy("initiator") \cup ListBy("scanner")
  BY Sorts, SortsDiffer
<1>4. SameScanners(g, m) /\ g.currentWhiteList = m.currentWhiteList /\ g.update = m.update
      /\ g.attempt = m.attempt /\ g.whiteListUsage = m.whiteListUsage
      /\ g.scannerCommandInProgress = m.scannerCommandInProgress /\ g.scanChange = m.scanChange
      /\ g.pending = m.pending /\ g.device = m.device /\ (InAttempt(g) <=> InAttempt(m))
      /\ g.stopScanCallback = m.stopScanCallback
  BY DEF CancelSent, SameScanner, SameScan, SameScanners, SameLists, SameOutcomes, InAttempt,
         SameFlags
<1>5. Agree(g, v, x, ctl.list) /\ ScanPhase(g, v, x, ok, ctl)
  BY <1>3, <1>4, AgreeKept, ScanPhaseKept DEF Held
<1>6. ASSUME NEW who \in Who
      PROVE  ListPhase(g, v, x, ok, ctl.list, who)
  <2>1. {e} \cap ListBy(who) = {}
    BY <1>3 DEF Who
  <2>2. QED
    BY <1>4, <2>1, ListPhaseKept DEF Held
<1>7. Goal(g, v, x, ctl, reached)
  BY <1>3, <1>4 DEF Held, Goal
<1>8. Alone(g, v, x, b)
  <2>1. Live(g) = Live(m) /\ g.scanners = m.scanners /\ g.policy = m.policy
    BY <1>4 DEF Live, SameScanners
  <2>2. QED
    BY <1>3, <1>4, <2>1 DEF Held, Alone, NoFilters, NoWhiteList, FewCalls
<1>9. Settled(g)
  BY <1>4, SettledKept
<1>10. AtRest(g)
  BY DEF AtRest, CancelSent
<1>11. IsFiniteSet(g.pending)
  BY <1>4 DEF Held
<1>12. QED
  BY <1>2, <1>5, <1>6, <1>7, <1>8, <1>9, <1>10, <1>11 DEF Serving, Held

\* triggerConnectionChange brings the attempt in line with the calls, or is on its way, or
\* the process ends.
LEMMA ConnectionChangeServes ==
  ASSUME NEW m, Idle(m), PendingAreCalls(m), NEW w, NEW x, NEW ok, NEW ctl, NEW reached, NEW b,
         Agree(m, w, x, ctl.list), Held(m, w, x, ok, ctl, reached, b), Settled(m),
         (w \cup x) \cap InitiatorOps # {} => m.connectCommandInProgress,
         ctl.initiating # None \/ reached # {} => InAttempt(m)
  PROVE  LET g == TriggerConnectionChange(m)
         IN Serving(g, w \cup Members(g.out), x, ok, ctl, reached, b)
<1> DEFINE g == TriggerConnectionChange(m)
<1>1. /\ g \in Host
      /\ LacksRoom(g, m) \/ KeepsAttempt(g, m) \/ CancelsAttempt(g, m) \/ BeginsAttempt(g, m)
  BY TriggerConnectionChangeDoes
<1> HIDE DEF g
<1>2. CASE LacksRoom(g, m)
  <2>1. Members(g.out) = {} /\ g.currentWhiteList = m.currentWhiteList /\ g.crashed # "no"
    BY <1>2, MembersOfEmpty DEF LacksRoom, SameLists
  <2>2. QED
    BY <2>1 DEF Serving, Agree, g
<1>3. CASE KeepsAttempt(g, m)
  BY <1>3, KeepsAttemptServes DEF g
<1>4. CASE CancelsAttempt(g, m)
  <2>1. CancelSent(g, m)
    BY <1>4 DEF CancelsAttempt, CancelSent
  <2>2. QED
    BY <2>1, CancelSentServes DEF g
<1>5. CASE BeginsAttempt(g, m)
  <2>1. (w \cup x) \cap InitiatorOps = {} /\ reached = {} /\ ctl.initiating = None
    BY <1>5 DEF BeginsAttempt, InAttempt
  <2>2. Serving(g, w \cup Members(g.out), x, ok, ctl, reached, b)
    BY <1>1, <1>5, <2>1, BeginsAttemptServes
  <2>3. QED
    BY <2>2 DEF g
<1>6. QED
  BY <1>1, <1>2, <1>3, <1>4, <1>5

-----------------------------------------------------------------------------
(* The answers. *)

\* The answer to a command that is none for the list is taken.
LEMMA AnswerLeaves ==
  ASSUME NEW h, NEW w, NEW c, c \notin ListCommandBy, NEW ok, NEW ctl, NEW reached,
         Agree(h, w, {c}, ctl.list), Goal(h, w, {c}, ctl, reached),
         \A who \in Who : ListPhase(h, w, {c}, ok, ctl.list, who),
         NEW m, m.update = h.update, m.currentWhiteList = h.currentWhiteList,
         m.attempt = h.attempt, m.device = h.device, InAttempt(m) => InAttempt(h)
  PROVE  /\ Agree(m, w, {}, ctl.list) /\ Goal(m, w, {}, ctl, reached)
         /\ \A who \in Who : ListPhase(m, w, {}, FALSE, ctl.list, who)
<1>1. c \notin ListBy("scanner") /\ c \notin ListBy("initiator")
  BY Sorts
<1>2. Agree(m, w, {}, ctl.list)
  BY DEF Agree
<1>3. Goal(m, w, {}, ctl, reached)
  BY <1>1 DEF Goal
<1>4. ASSUME NEW who \in Who
      PROVE  ListPhase(m, w, {}, FALSE, ctl.list, who)
  <2>1. c \notin ListBy(who) /\ ListPhase(h, w, {c}, ok, ctl.list, who)
    BY <1>1 DEF Who
  <2>2. QED
    BY <2>1 DEF ListPhase
<1>5. QED
  BY <1>2, <1>3, <1>4

\* What is known when the answer to c is taken.
Taking(h, w, c, ok, ctl, reached, b) ==
  /\ Idle(h) /\ h.crashed = "no" /\ c \in Command /\ ok \in BOOLEAN
  /\ Tidy(h, w, {c}, ok, ctl.initiating, reached)
  /\ Serving(h, w, {c}, ok, ctl, reached, b)

LEMMA TakingIs ==
  ASSUME NEW h, NEW w, NEW c, NEW ok, NEW ctl, NEW reached, NEW b,
         Taking(h, w, c, ok, ctl, reached, b)
  PROVE  /\ h \in Host /\ OwnUpdates(h) /\ h.out = <<>> /\ c \in Command /\ ok \in BOOLEAN
         /\ Agree(h, w, {c}, ctl.list) /\ Alone(h, w, {c}, b) /\ ScanPhase(h, w, {c}, ok, ctl)
         /\ \A who \in Who : ListPhase(h, w, {c}, ok, ctl.list, who)
         /\ Goal(h, w, {c}, ctl, reached) /\ IsFiniteSet(h.pending) /\ Settled(h) /\ AtRest(h)
         /\ c \in ScannerOps => w \cap ScannerOps = {}
         /\ c \in InitiatorOps => w \cap InitiatorOps = {} /\ h.connectCommandInProgress
         /\ c \in ScannerWork => h.scanChange \in Change
         /\ (w \cap ScannerOps # {} => h.scannerCommandInProgress)
         /\ (w \cap InitiatorOps # {} => h.connectCommandInProgress)
         /\ PendingAreCalls(h)
<1>1. Tidy(h, w, {c}, ok, ctl.initiating, reached) /\ Idle(h)
  BY DEF Taking
<1>2. PendingAreCalls(h)
  <2>1. h.pending \subseteq Connect
    BY <1>1 DEF Idle, Host
  <2>2. QED
    BY <1>1, <2>1 DEF PendingAreCalls, Tidy, CallsOk
<1>3. /\ c \in ScannerOps => w \cap ScannerOps = {}
      /\ c \in InitiatorOps => w \cap InitiatorOps = {} /\ h.connectCommandInProgress
      /\ c \in ScannerWork => h.scanChange \in Change
      /\ w \cap ScannerOps # {} => h.scannerCommandInProgress
      /\ w \cap InitiatorOps # {} => h.connectCommandInProgress
  BY <1>1 DEF Tidy, AtMostOne
<1>4. Held(h, w, {c}, ok, ctl, reached, b) /\ Agree(h, w, {c}, ctl.list) /\ Settled(h) /\ AtRest(h)
  BY DEF Taking, Serving
<1>5. QED
  BY <1>1, <1>2, <1>3, <1>4 DEF Taking, Held, Idle

LEMMA ScanOffServes ==
  ASSUME NEW h, NEW w, NEW c \in ScanOffs, NEW ok, NEW ctl, NEW reached, NEW b,
         Taking(h, w, c, ok, ctl, reached, b)
  PROVE  LET g == ScanAnswer(h, c, ok)
         IN Serving(g, w \cup Members(g.out), {}, FALSE, ctl, reached, b)
<1> DEFINE usage == IF h.whiteListUsage = "scanner" THEN "none" ELSE h.whiteListUsage
           m == [h EXCEPT !.scannerCommandInProgress = FALSE, !.scanEnabled = FALSE,
                          !.whiteListUsage = usage]
<1>a. h \in Host /\ OwnUpdates(h) /\ h.out = <<>> /\ ScanPhase(h, w, {c}, ok, ctl)
  BY TakingIs
<1>b. usage \in User
  BY <1>a DEF Host, User
<1>1. ScanAnswer(h, c, ok) = TriggerScannerChange(m)
  BY <1>a DEF ScanAnswer, ScanIsOff, ScanOffs, Host
<1> HIDE DEF usage
<1>2. Idle(m)
  BY <1>a, <1>b DEF Idle, Host, OwnUpdates
<1>3. /\ SameCalls(m, h) /\ SameFlags(m, h) /\ m.update = h.update
      /\ m.currentWhiteList = h.currentWhiteList /\ m.scanners = h.scanners
      /\ m.active = h.active /\ m.policy = h.policy /\ m.scanChange = h.scanChange
      /\ m.whiteListUsage = usage /\ ~m.scanEnabled
  BY TakingIs DEF SameCalls, SameFlags, Host
<1> HIDE DEF m
<1>c. m.whiteListUsage # "scanner" /\ (h.whiteListUsage # "scanner" => m.whiteListUsage = h.whiteListUsage)
  BY <1>3 DEF usage
<1>4. c \in ScannerOps /\ c \notin ListCommandBy /\ c \notin Params
  BY Sorts, SortsDiffer
<1>5. w \cap ScannerOps = {} /\ w \cap ScannerWork = {}
  BY <1>4, TakingIs, Sorts
<1>6. /\ Agree(m, w, {}, ctl.list) /\ Goal(m, w, {}, ctl, reached)
      /\ \A who \in Who : ListPhase(m, w, {}, FALSE, ctl.list, who)
  BY <1>3, <1>4, TakingIs, AnswerLeaves DEF SameCalls, InAttempt
<1>7. ScanPhase(m, w, {}, FALSE, ctl)
  <2>1. ~ctl.scanning /\ h.active = ctl.active /\ h.policy = ctl.policy
    BY <1>a, <1>4 DEF ScanPhase
  <2>2. QED
    BY <1>3, <1>5, <2>1, Sorts DEF ScanPhase
<1>8. Alone(m, w, {}, b)
  <2>1. Live(m) = Live(h)
    BY <1>3 DEF Live
  <2>2. Alone(h, w, {c}, b)
    BY TakingIs
  <2>3. QED
    BY <1>3, <1>c, <1>5, <2>1, <2>2 DEF Alone, NoFilters, NoWhiteList, FewCalls, InAttempt,
                                        SameCalls, SameFlags
<1>9. AtRest(m) /\ IsFiniteSet(m.pending)
  BY <1>3, TakingIs, AtRestKept DEF SameCalls
<1>10. Held(m, w, {}, FALSE, ctl, reached, b)
  BY <1>6, <1>7, <1>8, <1>9 DEF Held
<1>11. (w \cup {}) \cap ScannerOps # {} => m.scannerCommandInProgress
  BY <1>5
<1> DEFINE g == TriggerScannerChange(m)
<1>12. Serving(g, w \cup Members(g.out), {}, FALSE, ctl, reached, b)
  BY <1>2, <1>6, <1>9, <1>10, <1>11, ScannerChangeServes
<1>13. QED
  BY <1>1, <1>12

LEMMA ScanOnServes ==
  ASSUME NEW h, NEW w, NEW c \in ScanOns, NEW ok, NEW ctl, NEW reached, NEW b,
         Taking(h, w, c, ok, ctl, reached, b)
  PROVE  LET g == ScanAnswer(h, c, ok)
         IN Serving(g, w \cup Members(g.out), {}, FALSE, ctl, reached, b)
<1> DEFINE m == [h EXCEPT !.scannerCommandInProgress = FALSE, !.scanEnabled = TRUE]
<1>1. c \in ScannerOps /\ c \notin ListCommandBy /\ c \notin Params /\ c \notin ScanOffs
  BY Sorts, SortsDiffer
<1>a. h \in Host /\ OwnUpdates(h) /\ h.out = <<>> /\ ScanPhase(h, w, {c}, ok, ctl)
  BY TakingIs
<1>2. ok /\ ctl.scanning /\ h.active = ctl.active /\ h.policy = ctl.policy
  BY <1>a, <1>1 DEF ScanPhase
<1>3. ScanAnswer(h, c, ok) = TriggerScannerChange(m)
  BY <1>a, <1>2 DEF ScanAnswer, Recheck, ScanOns, Host
<1>4. Idle(m)
  BY <1>a DEF Idle, Host, OwnUpdates
<1>5. /\ SameCalls(m, h) /\ SameFlags(m, h) /\ SameLists(m, h) /\ m.scanners = h.scanners
      /\ m.active = h.active /\ m.policy = h.policy /\ m.scanChange = h.scanChange
      /\ m.scanEnabled
  BY TakingIs DEF SameCalls, SameFlags, SameLists, Host
<1> HIDE DEF m
<1>6. w \cap ScannerOps = {} /\ w \cap ScannerWork = {}
  BY <1>1, TakingIs, Sorts
<1>7. /\ Agree(m, w, {}, ctl.list) /\ Goal(m, w, {}, ctl, reached)
      /\ \A who \in Who : ListPhase(m, w, {}, FALSE, ctl.list, who)
  BY <1>1, <1>5, TakingIs, AnswerLeaves DEF SameCalls, SameLists, InAttempt
<1>8. ScanPhase(m, w, {}, FALSE, ctl)
  BY <1>2, <1>5, <1>6, Sorts DEF ScanPhase
<1>9. Alone(m, w, {}, b)
  <2>1. Live(m) = Live(h)
    BY <1>5 DEF Live
  <2>2. Alone(h, w, {c}, b)
    BY TakingIs
  <2>3. QED
    BY <1>5, <1>6, <2>1, <2>2 DEF Alone, NoFilters, NoWhiteList, FewCalls, InAttempt, SameCalls,
                                  SameFlags, SameLists
<1>10. AtRest(m) /\ IsFiniteSet(m.pending)
  BY <1>5, TakingIs, AtRestKept DEF SameCalls
<1>11. Held(m, w, {}, FALSE, ctl, reached, b)
  BY <1>7, <1>8, <1>9, <1>10 DEF Held
<1>12. (w \cup {}) \cap ScannerOps # {} => m.scannerCommandInProgress
  BY <1>6
<1> DEFINE g == TriggerScannerChange(m)
<1>13. Serving(g, w \cup Members(g.out), {}, FALSE, ctl, reached, b)
  BY <1>4, <1>7, <1>10, <1>11, <1>12, ScannerChangeServes
<1>14. QED
  BY <1>3, <1>13

\* The commands for the list of the scanner are there only when no attempt uses the list.
LEMMA ScannerListAlone ==
  ASSUME NEW h, NEW w, NEW x, NEW b, Alone(h, w, x, b), NEW list, Agree(h, w, x, list),
         ~NoFilters(h, w, x, b), (w \cup x) \cap ListBy("scanner") = {}
  PROVE  NoWhiteList(h, w, x, b) /\ h.currentWhiteList = list
<1>1. NoWhiteList(h, w, x, b)
  BY DEF Alone
<1>2. (w \cup x) \cap ListCommandBy = {}
  BY <1>1, Sorts DEF NoWhiteList
<1>3. QED
  BY <1>1, <1>2 DEF Agree

LEMMA ParamsServe ==
  ASSUME NEW h, NEW w, NEW c \in Params, NEW ok, NEW ctl, NEW reached, NEW b,
         Taking(h, w, c, ok, ctl, reached, b)
  PROVE  LET g == ScanAnswer(h, c, ok)
         IN Serving(g, w \cup Members(g.out), {}, FALSE, ctl, reached, b)
<1> DEFINE m == [h EXCEPT !.scannerCommandInProgress = FALSE, !.active = c.active,
                          !.policy = c.policy]
           n == h.scanChange
<1>1. h \in Host /\ OwnUpdates(h) /\ h.out = <<>> /\ ScanPhase(h, w, {c}, ok, ctl) /\ c \in Command
  BY TakingIs
<1>2. c.active \in BOOLEAN /\ c.policy \in BOOLEAN
  BY <1>1 DEF Params, Command, CreateCommand, ListCommandBy, ListBy, ListOp
<1>3. c \in ScannerOps /\ c \in ScannerWork /\ c \notin ListCommandBy /\ c \notin ListBy("scanner")
  BY Sorts, SortsDiffer
<1>4. ok /\ ctl.active = c.active /\ ctl.policy = c.policy /\ ~h.scanEnabled /\ ~ctl.scanning
  BY <1>1 DEF ScanPhase
<1>5. ScanAnswer(h, c, ok) = ContWhiteList(m)
  BY <1>1, <1>4 DEF ScanAnswer, Params, Host
<1>6. Idle(m)
  BY <1>1, <1>2 DEF Idle, Host, OwnUpdates
<1>7. /\ SameCalls(m, h) /\ SameFlags(m, h) /\ SameLists(m, h) /\ m.scanners = h.scanners
      /\ m.active = c.active /\ m.policy = c.policy /\ m.scanChange = n
      /\ m.scanEnabled = h.scanEnabled
  BY <1>1 DEF SameCalls, SameFlags, SameLists, Host
<1> HIDE DEF m
<1>8. n \in Change
  BY <1>3, TakingIs
<1> HIDE DEF n
<1>9. (w \cup {}) \cap ScannerOps = {} /\ w \cap ScannerWork = {} /\ (w \cup {}) \cap ListBy("scanner") = {}
  BY <1>3, TakingIs, Sorts
<1>10. /\ Agree(m, w, {}, ctl.list) /\ Goal(m, w, {}, ctl, reached)
       /\ \A who \in Who : ListPhase(m, w, {}, FALSE, ctl.list, who)
  BY <1>3, <1>7, TakingIs, AnswerLeaves DEF SameCalls, SameLists, InAttempt
<1>11. ScanPhase(m, w, {}, FALSE, ctl)
  BY <1>4, <1>7, <1>9, Sorts DEF ScanPhase
<1>12. Live(m) = Live(h)
  BY <1>7 DEF Live
<1>13. Alone(h, w, {c}, b)
  BY TakingIs
<1>14. Alone(m, w, {}, b)
  BY <1>7, <1>9, <1>12, <1>13 DEF Alone, NoFilters, NoWhiteList, FewCalls, InAttempt, SameCalls,
                                  SameFlags, SameLists
<1>15. NoFilters(h, w, {c}, b) => ~n.updateList /\ ~n.policy
  BY <1>3 DEF NoFilters, n
<1>16. AtRest(m) /\ IsFiniteSet(m.pending)
  BY <1>7, TakingIs, AtRestKept DEF SameCalls
<1> DEFINE g == ContWhiteList(m)
<1>17. /\ SameCalls(g, m) /\ SameScan(g, m) /\ SameFlags(g, m) /\ g.scannerCommandInProgress
       /\ SetsList(g, m)
  BY <1>6, <1>7, <1>8, ContWhiteListDoes
<1> HIDE DEF g
<1>18. SameScanners(g, m) /\ g.scanners = m.scanners /\ g.policy = m.policy /\ g.scanChange = n
       /\ Live(g) = Live(m)
  BY <1>7, <1>17 DEF SameScan, SameScanners, Live
<1>19. g.whiteListUsage = m.whiteListUsage /\ g.currentWhiteList = m.currentWhiteList
       /\ g.update["initiator"] = m.update["initiator"]
  BY <1>17 DEF SetsList, SameLists, BeginsUpdate, Who
<1>20. ASSUME NEW e \in ScannerWork, g.out = <<e>>, e \notin Params,
              e \in ListBy("scanner") => ~NoFilters(h, w, {c}, b),
              ListPhase(g, w \cup {e}, {}, FALSE, ctl.list, "scanner")
       PROVE  Serving(g, w \cup Members(g.out), {}, FALSE, ctl, reached, b)
  <2>1. e \notin ListBy("initiator")
    BY Sorts, SortsDiffer
  <2>2. ListPhase(g, w \cup {e}, {}, FALSE, ctl.list, "initiator")
    BY <1>10, <1>17, <1>19, <2>1, ListPhaseKept DEF Who, SameCalls
  <2>3. Alone(g, w \cup {e}, {}, b)
    <3>1. ~g.stopScanCallback
      BY <1>14, <1>17 DEF Alone, SameFlags
    <3>2. CASE NoFilters(h, w, {c}, b)
      <4>1. ~c.policy
        BY <3>2 DEF NoFilters
      <4>2. NoFilters(g, w \cup {e}, {}, b)
        BY <1>7, <1>9, <1>12, <1>15, <1>18, <1>19, <1>20, <3>2, <4>1 DEF NoFilters, SameLists
      <4>3. QED
        BY <3>1, <4>2 DEF Alone
    <3>3. CASE NoWhiteList(h, w, {c}, b)
      <4>1. NoWhiteList(g, w \cup {e}, {}, b)
        BY <1>7, <1>17, <2>1, <3>3 DEF NoWhiteList, FewCalls, InAttempt, SameCalls
      <4>2. QED
        BY <3>1, <4>1 DEF Alone
    <3>4. QED
      BY <1>13, <3>2, <3>3 DEF Alone
  <2>4. \A who \in Who : ListPhase(g, w \cup {e}, {}, FALSE, ctl.list, who)
    BY <1>20, <2>2 DEF Who
  <2>5. ~m.scanEnabled
    BY <1>4, <1>7
  <2>6. QED
    BY <1>9, <1>10, <1>11, <1>16, <1>17, <1>18, <1>19, <1>20, <2>3, <2>4, <2>5, ScanWorkServes
       DEF Who
<1>21. ASSUME NEW e \in ScanOns, g.out = <<e>>
       PROVE  Serving(g, w \cup Members(g.out), {}, FALSE, ctl, reached, b)
  <2>1. e \in ScannerWork /\ e \notin Params /\ e \notin ListBy("scanner")
    BY Sorts, SortsDiffer
  <2>2. ListPhase(g, w \cup {e}, {}, FALSE, ctl.list, "scanner")
    BY <1>9, <2>1 DEF ListPhase
  <2>3. QED
    BY <1>20, <1>21, <2>1, <2>2
<1>22. CASE n.updateList
  <2>1. BeginsUpdate(g, m, "scanner", n.devices)
    BY <1>7, <1>17, <1>22 DEF SetsList
  <2>2. CASE g.out = <<Final(m, "scanner")>> /\ Final(m, "scanner") \in Command
    <3>1. PICK e \in ScanOns : g.out = <<e>>
      BY <2>2 DEF Final, ScanOns, ScanOn
    <3>2. QED
      BY <1>5, <1>21, <3>1 DEF g
  <2>3. CASE \E e \in ListBy("scanner") :
               /\ e \in Command /\ g.out = <<e>> /\ ~e.last
               /\ Leads(After(m.currentWhiteList, e), g.update["scanner"].ops, n.devices, "scanner")
               /\ e.op = "add" => After(m.currentWhiteList, e) \subseteq n.devices
    <3>1. PICK e \in ListBy("scanner") :
               /\ e \in Command /\ g.out = <<e>> /\ ~e.last
               /\ Leads(After(m.currentWhiteList, e), g.update["scanner"].ops, n.devices, "scanner")
               /\ e.op = "add" => After(m.currentWhiteList, e) \subseteq n.devices
      BY <2>3
    <3>2. g.update["scanner"].newList = n.devices
      BY <2>1 DEF BeginsUpdate
    <3>3. ~NoFilters(h, w, {c}, b)
      BY <1>15, <1>22
    <3>4. m.currentWhiteList = ctl.list
      <4>1. (w \cup {c}) \cap ListBy("scanner") = {}
        BY <1>3, <1>9
      <4>2. Agree(h, w, {c}, ctl.list)
        BY TakingIs
      <4>3. h.currentWhiteList = ctl.list
        BY <1>13, <3>3, <4>1, <4>2, ScannerListAlone
      <4>4. QED
        BY <1>7, <4>3 DEF SameLists
    <3>5. ListPhase(g, w \cup {e}, {}, FALSE, ctl.list, "scanner")
      BY <1>9, <3>1, <3>2, <3>4 DEF ListPhase
    <3>6. e \in ScannerWork /\ e \notin Params
      BY Sorts, SortsDiffer
    <3>7. Serving(g, w \cup Members(g.out), {}, FALSE, ctl, reached, b)
      BY <1>20, <3>1, <3>3, <3>5, <3>6
    <3>8. QED
      BY <1>5, <3>7 DEF g
  <2>4. QED
    BY <2>1, <2>2, <2>3 DEF BeginsUpdate
<1>23. CASE ~n.updateList
  <2>1. PICK e \in ScanOns : g.out = <<e>>
    BY <1>7, <1>17, <1>23 DEF SetsList, ScanOn, ScanOns
  <2>2. QED
    BY <1>5, <1>21, <2>1 DEF g
<1>24. QED
  BY <1>22, <1>23

LEMMA ListTakingIs ==
  ASSUME NEW h, NEW w, NEW who \in Who, NEW c \in ListBy(who), NEW ok, NEW ctl, NEW reached, NEW b,
         Taking(h, w, c, ok, ctl, reached, b)
  PROVE  /\ Ready(h, who) /\ Idle(h)
         /\ who = "scanner" => /\ ~NoFilters(h, w, {c}, b) /\ NoWhiteList(h, w, {c}, b)
                               /\ w \cap ScannerOps = {} /\ (w \cup {c}) \cap ListBy("initiator") = {}
         /\ who = "initiator" => /\ ~NoWhiteList(h, w, {c}, b) /\ NoFilters(h, w, {c}, b)
                                 /\ w \cap InitiatorOps = {} /\ (w \cup {c}) \cap ListBy("scanner") = {}
                                 /\ h.connectCommandInProgress /\ InAttempt(h)
         /\ w \cap ListBy(who) = {}
         /\ ListPhase(h, w, {c}, ok, ctl.list, who)
<1>1. /\ Alone(h, w, {c}, b) /\ ListPhase(h, w, {c}, ok, ctl.list, who)
      /\ c \in ScannerOps => w \cap ScannerOps = {}
      /\ c \in InitiatorOps => w \cap InitiatorOps = {} /\ h.connectCommandInProgress
      /\ c \in ScannerWork => h.scanChange \in Change
  BY TakingIs
<1>2. Idle(h) /\ Tidy(h, w, {c}, ok, ctl.initiating, reached)
  BY DEF Taking
<1>3. CASE who = "scanner"
  <2>1. c \in ScannerWork /\ c \in ScannerOps
    BY <1>3, Sorts
  <2>2. h.scannerCommandInProgress
    BY <1>2, <2>1 DEF Tidy
  <2>3. ~NoFilters(h, w, {c}, b)
    BY <1>3 DEF NoFilters
  <2>4. w \cap ListBy("scanner") = {}
    BY <1>1, <2>1, Sorts
  <2>5. QED
    BY <1>1, <1>2, <1>3, <2>1, <2>2, <2>3, <2>4 DEF Alone, NoWhiteList, Ready
<1>4. CASE who = "initiator"
  <2>1. c \in InitiatorOps
    BY <1>4, Sorts
  <2>2. h.attempt \in Attempt /\ InAttempt(h)
    BY <1>1, <1>2, <2>1 DEF Tidy, CallsOk, InAttempt
  <2>3. ~NoWhiteList(h, w, {c}, b)
    BY <1>4 DEF NoWhiteList
  <2>4. w \cap ListBy("initiator") = {}
    BY <1>1, <2>1, Sorts
  <2>5. QED
    BY <1>1, <1>2, <1>4, <2>1, <2>2, <2>3, <2>4 DEF Alone, NoFilters, Ready
<1>5. QED
  BY <1>3, <1>4 DEF Who

\* The list of the scanner.
LEMMA ScannerListServes ==
  ASSUME NEW h, NEW w, NEW c \in ListBy("scanner"), NEW ok, NEW ctl, NEW reached, NEW b,
         Taking(h, w, c, ok, ctl, reached, b), ctl.list \in SUBSET Device
  PROVE  LET g == ListAnswer(h, c, ok)
         IN Serving(g, w \cup Members(g.out), {}, FALSE, ctl, reached, b)
<1> DEFINE g == ListAnswer(h, c, ok)
           u == h.update["scanner"]
<1>1. /\ Ready(h, "scanner") /\ Idle(h) /\ NoWhiteList(h, w, {c}, b)
      /\ w \cap ScannerOps = {} /\ (w \cup {c}) \cap ListBy("initiator") = {}
      /\ w \cap ListBy("scanner") = {} /\ ListPhase(h, w, {c}, ok, ctl.list, "scanner")
  BY ListTakingIs DEF Who
<1>2. /\ ScanPhase(h, w, {c}, ok, ctl) /\ Goal(h, w, {c}, ctl, reached) /\ AtRest(h)
      /\ IsFiniteSet(h.pending) /\ Alone(h, w, {c}, b)
      /\ ListPhase(h, w, {c}, ok, ctl.list, "initiator")
  BY TakingIs DEF Who
<1>3. IF c.last THEN ctl.list = {} ELSE ok => Leads(ctl.list, u.ops, u.newList, "scanner")
  BY <1>1 DEF ListPhase
<1>4. ok \in BOOLEAN
  BY TakingIs
<1>5. CASE c.last
  <2>1. /\ g.currentWhiteList = {} /\ Fallback(g, h, "scanner")
    BY <1>1, <1>5, LastListAnswerDoes DEF Who
  <2> HIDE DEF g
  <2>2. g.crashed # "no" /\ Members(g.out) = {}
    BY <2>1, MembersOfEmpty DEF Fallback
  <2>3. Agree(g, w \cup Members(g.out), {}, ctl.list)
    BY <1>3, <1>5, <2>1 DEF Agree
  <2>4. QED
    BY <2>2, <2>3 DEF Serving, g
<1>6. CASE ~c.last
  <2>1. /\ SameButList(g, h)
        /\ ok => GoesOn(g, h, "scanner") \/ EditsOn(g, h, "scanner")
        /\ ~ok => /\ SameLists(g, h) /\ g.out = <<LastClear("scanner")>>
                  /\ LastClear("scanner") \in ListBy("scanner") /\ LastClear("scanner") \in Command
    BY <1>1, <1>6, ListAnswerDoes DEF Who
  <2> HIDE DEF g
  <2>2. /\ SameCalls(g, h) /\ SameScanners(g, h) /\ SameFlags(g, h) /\ SameCalls(g, g)
        /\ SameScanners(g, g) /\ g.scannerCommandInProgress /\ g.whiteListUsage = h.whiteListUsage
    BY <1>1, <2>1 DEF SameButList, SameScan, SameScanners, Ready, SameCalls
  <2>3. ~g.scanEnabled /\ ScanPhase(g, w, {}, FALSE, ctl)
    <3>1. c \notin Params /\ c \notin ScanOffs /\ c \notin ScanOns /\ ~h.scanEnabled /\ ~ctl.scanning
      BY <1>2, SortsDiffer DEF ScanPhase
    <3>2. QED
      BY <1>1, <1>2, <2>2, <3>1, Sorts DEF ScanPhase, SameScanners
  <2>4. ASSUME NEW e \in ScannerWork
        PROVE  Alone(g, w \cup {e}, {}, b)
    <3>1. e \notin ListBy("initiator")
      BY Sorts, SortsDiffer
    <3>2. NoWhiteList(g, w \cup {e}, {}, b)
      BY <1>1, <2>2, <3>1 DEF NoWhiteList, FewCalls, InAttempt, SameCalls
    <3>3. QED
      BY <1>2, <2>2, <3>2 DEF Alone, SameFlags
  <2>5. Goal(g, w, {}, ctl, reached)
    <3>1. c \notin CreateOps
      BY SortsDiffer
    <3>2. InAttempt(g) <=> InAttempt(h)
      BY <2>2 DEF InAttempt, SameCalls
    <3>3. InAttempt(h) => ~h.attempt.useWhiteList
      BY <1>1 DEF NoWhiteList
    <3>4. QED
      BY <1>2, <2>2, <3>1, <3>2, <3>3 DEF Goal, SameCalls
  <2>6. AtRest(g) /\ IsFiniteSet(g.pending)
    BY <1>2, <2>2, AtRestKept DEF SameCalls
  <2>7. ASSUME NEW e \in ScannerWork, g.out = <<e>>,
               g.currentWhiteList = ctl.list \/ e \in ListBy("scanner"),
               ListPhase(g, w \cup {e}, {}, FALSE, ctl.list, "scanner")
        PROVE  Serving(g, w \cup Members(g.out), {}, FALSE, ctl, reached, b)
    <3> DEFINE v == w \cup {e}
    <3>1. Members(g.out) = {e}
      BY <2>7, MembersOfOne
    <3>2. e \notin ScanOffs \cup CreateOps \cup ListBy("initiator") /\ e \in ScannerOps
      BY Sorts, SortsDiffer
    <3>3. ScanPhase(g, v, {}, FALSE, ctl)
      BY <1>1, <2>3, <3>2, Sorts DEF ScanPhase
    <3>4. ListPhase(g, v, {}, FALSE, ctl.list, "initiator")
      BY <1>1, <3>2 DEF ListPhase
    <3>5. Goal(g, v, {}, ctl, reached)
      BY <2>5, <3>2 DEF Goal
    <3>6. Agree(g, v, {}, ctl.list)
      BY <2>7, Sorts DEF Agree
    <3>7. \A who \in Who : ListPhase(g, v, {}, FALSE, ctl.list, who)
      BY <2>7, <3>4 DEF Who
    <3>8. Alone(g, v, {}, b)
      BY <2>4
    <3>9. Settled(g)
      BY <2>2 DEF Settled
    <3>10. QED
      BY <2>6, <3>1, <3>3, <3>5, <3>6, <3>7, <3>8, <3>9 DEF Serving, Held
  <2>8. CASE ~ok
    <3>1. PICK e \in ListBy("scanner") : e = LastClear("scanner") /\ e.last /\ e.op = "clear"
      BY <2>1, <2>8 DEF LastClear
    <3>2. e \in ScannerWork
      BY Sorts
    <3>3. ListPhase(g, w \cup {e}, {}, FALSE, ctl.list, "scanner")
      BY <1>1, <3>1 DEF ListPhase
    <3>4. QED
      BY <2>1, <2>7, <2>8, <3>1, <3>2, <3>3 DEF g
  <2>9. CASE ok /\ GoesOn(g, h, "scanner")
    <3>1. u.ops = <<>> /\ g.currentWhiteList = u.newList
      BY <2>9 DEF GoesOn
    <3>2. u.newList = ctl.list
      BY <1>3, <1>6, <2>9, <3>1, LeadsNowhere
    <3>3. PICK e \in ScanOns : g.out = <<e>>
      BY <2>9 DEF GoesOn, Final, ScanOn, ScanOns
    <3>4. e \in ScannerWork /\ e \notin ListBy("scanner")
      BY Sorts, SortsDiffer
    <3>5. ListPhase(g, w \cup {e}, {}, FALSE, ctl.list, "scanner")
      BY <1>1, <3>4 DEF ListPhase
    <3>6. QED
      BY <2>7, <3>1, <3>2, <3>3, <3>4, <3>5 DEF g
  <2>10. CASE ok /\ EditsOn(g, h, "scanner")
    <3>1. PICK e \in ListBy("scanner") :
            /\ e = Head(u.ops) /\ g.out = <<e>>
            /\ g.update["scanner"].ops = Tail(u.ops) /\ g.update["scanner"].newList = u.newList
      BY <2>10 DEF EditsOn
    <3>2. u.ops # <<>>
      BY <2>10 DEF EditsOn
    <3>3. Leads(ctl.list, u.ops, u.newList, "scanner")
      BY <1>3, <1>6, <2>10
    <3> HIDE DEF u
    <3>4. /\ Leads(After(ctl.list, e), Tail(u.ops), u.newList, "scanner")
          /\ e.op = "add" => After(ctl.list, e) \subseteq u.newList
          /\ ~e.last
      BY <3>1, <3>2, <3>3, LeadsOn DEF Who, Edit
    <3>5. ListPhase(g, w \cup {e}, {}, FALSE, ctl.list, "scanner")
      BY <1>1, <3>1, <3>4 DEF ListPhase
    <3>6. e \in ScannerWork
      BY Sorts
    <3>7. QED
      BY <2>7, <3>1, <3>5, <3>6 DEF g
  <2>11. QED
    BY <1>4, <2>1, <2>8, <2>9, <2>10
<1>7. QED
  BY <1>5, <1>6

\* The list of an attempt.
LEMMA InitiatorListServes ==
  ASSUME NEW h, NEW w, NEW c \in ListBy("initiator"), NEW ok, NEW ctl, NEW reached, NEW b,
         Taking(h, w, c, ok, ctl, reached, b), ctl.list \in SUBSET Device
  PROVE  LET g == ListAnswer(h, c, ok)
         IN Serving(g, w \cup Members(g.out), {}, FALSE, ctl, reached, b)
<1> DEFINE g == ListAnswer(h, c, ok)
           u == h.update["initiator"]
           a == h.attempt
<1>1. /\ Ready(h, "initiator") /\ Idle(h) /\ NoFilters(h, w, {c}, b)
      /\ w \cap InitiatorOps = {} /\ (w \cup {c}) \cap ListBy("scanner") = {}
      /\ h.connectCommandInProgress /\ InAttempt(h)
      /\ w \cap ListBy("initiator") = {} /\ ListPhase(h, w, {c}, ok, ctl.list, "initiator")
  BY ListTakingIs DEF Who
<1>2. /\ ScanPhase(h, w, {c}, ok, ctl) /\ Goal(h, w, {c}, ctl, reached) /\ AtRest(h) /\ Settled(h)
      /\ IsFiniteSet(h.pending) /\ Alone(h, w, {c}, b)
      /\ ListPhase(h, w, {c}, ok, ctl.list, "scanner")
  BY TakingIs DEF Who
<1>3. /\ ~c.last /\ ok /\ Leads(ctl.list, u.ops, u.newList, "initiator")
      /\ Cardinality(u.newList) <= WhiteListSize /\ a.useWhiteList /\ u.newList = a.devices
  BY <1>1 DEF ListPhase
<1>4. ok \in BOOLEAN
  BY TakingIs
<1>5. SameButList(g, h) /\ (GoesOn(g, h, "initiator") \/ EditsOn(g, h, "initiator"))
  BY <1>1, <1>3, ListAnswerDoes DEF Who
<1> HIDE DEF g
<1>6. /\ SameCalls(g, h) /\ SameScanners(g, h) /\ SameFlags(g, h)
      /\ g.scannerCommandInProgress = h.scannerCommandInProgress
      /\ g.whiteListUsage = h.whiteListUsage /\ g.scanChange = h.scanChange
  BY <1>5 DEF SameButList, SameScan, SameScanners
<1>7. g.attempt = a /\ InAttempt(g) /\ g.connectCommandInProgress
  BY <1>1, <1>6 DEF SameCalls, InAttempt
<1>8. ASSUME NEW e \in InitiatorOps, g.out = <<e>>,
             g.currentWhiteList = ctl.list \/ e \in ListBy("initiator"),
             e \in CreateOps => e = CreateFor(a) /\ g.currentWhiteList = a.devices,
             e \notin CreateOps => e \in ListBy("initiator"),
             ListPhase(g, w \cup {e}, {}, FALSE, ctl.list, "initiator")
      PROVE  Serving(g, w \cup Members(g.out), {}, FALSE, ctl, reached, b)
  <2> DEFINE v == w \cup {e}
  <2>1. Members(g.out) = {e}
    BY <1>8, MembersOfOne
  <2>2. e \notin ScannerOps \cup Params \cup ScannerWork \cup ListBy("scanner")
    BY Sorts, SortsDiffer
  <2>3. c \notin ScannerOps \cup Params \cup ScanOffs \cup ScanOns \cup CreateOps
    BY Sorts, SortsDiffer
  <2>4. ScanPhase(g, v, {}, FALSE, ctl)
    <3>1. ScanPhase(h, w, {}, FALSE, ctl)
      BY <1>2, <2>3 DEF ScanPhase
    <3>2. QED
      BY <1>6, <2>2, <3>1, ScanPhaseKept
  <2>5. ListPhase(g, v, {}, FALSE, ctl.list, "scanner")
    BY <1>1, <2>2 DEF ListPhase
  <2>6. Goal(g, v, {}, ctl, reached)
    <3>1. v \cap CreateOps \subseteq {CreateFor(a)}
      BY <1>1, <1>8, Sorts
    <3>2. v \cap ListBy("initiator") = {} => g.currentWhiteList = a.devices
      BY <1>8
    <3>3. /\ a.devices = {g.device[d] : d \in a.conns}
          /\ a.useWhiteList => Cardinality(a.devices) <= WhiteListSize
          /\ ctl.initiating # None => ctl.initiating = CreateFor(a)
          /\ reached \subseteq a.devices \cup {None}
      BY <1>1, <1>2, <1>6 DEF Goal, SameCalls
    <3>4. QED
      BY <1>3, <1>7, <3>1, <3>2, <3>3 DEF Goal
  <2>7. Agree(g, v, {}, ctl.list)
    BY <1>8, Sorts DEF Agree
  <2>8. \A who \in Who : ListPhase(g, v, {}, FALSE, ctl.list, who)
    BY <1>8, <2>5 DEF Who
  <2>9. Alone(g, v, {}, b)
    <3>1. Live(g) = Live(h)
      BY <1>6 DEF Live, SameScanners
    <3>2. NoFilters(g, v, {}, b)
      BY <1>1, <1>6, <2>2, <3>1 DEF NoFilters, SameScanners
    <3>3. QED
      BY <1>2, <1>6, <3>2 DEF Alone, SameFlags
  <2>10. Settled(g)
    BY <1>1, <1>2, <1>6, SettledKept DEF NoFilters
  <2>11. AtRest(g) /\ IsFiniteSet(g.pending)
    BY <1>2, <1>6, AtRestKept DEF SameCalls
  <2>12. QED
    BY <2>1, <2>4, <2>6, <2>7, <2>8, <2>9, <2>10, <2>11 DEF Serving, Held
<1>9. CASE GoesOn(g, h, "initiator")
  <2>1. u.ops = <<>> /\ g.currentWhiteList = u.newList
    BY <1>9 DEF GoesOn
  <2>2. u.newList = ctl.list
    BY <1>3, <2>1, LeadsNowhere
  <2>3. PICK e \in CreateOps : g.out = <<e>> /\ e = CreateFor(a)
    BY <1>9 DEF GoesOn, Final, CreateFor, CreateOps
  <2>4. e \in InitiatorOps /\ e \notin ListBy("initiator")
    BY Sorts, SortsDiffer
  <2>5. ListPhase(g, w \cup {e}, {}, FALSE, ctl.list, "initiator")
    BY <1>1, <2>4 DEF ListPhase
  <2>6. QED
    BY <1>3, <1>8, <2>1, <2>2, <2>3, <2>4, <2>5 DEF g
<1>10. CASE EditsOn(g, h, "initiator")
  <2>1. PICK e \in ListBy("initiator") :
          /\ e = Head(u.ops) /\ g.out = <<e>>
          /\ g.update["initiator"].ops = Tail(u.ops) /\ g.update["initiator"].newList = u.newList
    BY <1>10 DEF EditsOn
  <2>2. u.ops # <<>>
    BY <1>10 DEF EditsOn
  <2>3. /\ Leads(After(ctl.list, e), Tail(u.ops), u.newList, "initiator")
        /\ e.op = "add" => After(ctl.list, e) \subseteq u.newList
        /\ ~e.last
    <3> HIDE DEF u
    <3>1. QED
      BY <1>3, <2>1, <2>2, LeadsOn DEF Who, Edit
  <2>4. ListPhase(g, w \cup {e}, {}, FALSE, ctl.list, "initiator")
    BY <1>1, <1>3, <1>7, <2>1, <2>3 DEF ListPhase
  <2>5. e \in InitiatorOps /\ e \notin CreateOps
    BY Sorts, SortsDiffer
  <2>6. QED
    BY <1>8, <2>1, <2>4, <2>5 DEF g
<1>11. QED
  BY <1>5, <1>9, <1>10

\* The answer to a command that the manager does nothing about.
LEMMA CancelAnswerServes ==
  ASSUME NEW h, NEW w, NEW c \in CancelOps, NEW ok, NEW ctl, NEW reached, NEW b,
         Taking(h, w, c, ok, ctl, reached, b)
  PROVE  Serving(h, w \cup Members(h.out), {}, FALSE, ctl, reached, b)
<1>1. c \notin ListCommandBy /\ c \notin ScannerOps \cup ScanOffs \cup ScanOns \cup Params
  BY Sorts, SortsDiffer
<1>2. /\ Agree(h, w, {}, ctl.list) /\ Goal(h, w, {}, ctl, reached)
      /\ \A who \in Who : ListPhase(h, w, {}, FALSE, ctl.list, who)
  BY <1>1, TakingIs, AnswerLeaves
<1>3. ScanPhase(h, w, {c}, ok, ctl) /\ Alone(h, w, {c}, b) /\ Settled(h) /\ AtRest(h)
      /\ IsFiniteSet(h.pending) /\ h.out = <<>>
  BY TakingIs
<1>4. ScanPhase(h, w, {}, FALSE, ctl)
  BY <1>1, <1>3 DEF ScanPhase
<1>5. Alone(h, w, {}, b)
  BY <1>3 DEF Alone, NoFilters, NoWhiteList
<1>6. w \cup Members(h.out) = w
  BY <1>3, MembersOfEmpty
<1>7. QED
  BY <1>2, <1>3, <1>4, <1>5, <1>6 DEF Serving, Held

\* The answer to the command that creates a connection.
LEMMA CreateGrantedServes ==
  ASSUME NEW h, NEW w, NEW c \in CreateOps, NEW ctl, NEW reached, NEW b,
         Taking(h, w, c, TRUE, ctl, reached, b)
  PROVE  LET g == CreateAnswer(h, c, TRUE)
         IN Serving(g, w \cup Members(g.out), {}, FALSE, ctl, reached, b)
<1> DEFINE m == [h EXCEPT !.connectCommandInProgress = FALSE, !.createConnectionIsOutstanding = TRUE]
           gone == h.attempt.conns \cap h.cancelled
           g == CreateAnswer(h, c, TRUE)
<1>1. h \in Host /\ OwnUpdates(h) /\ h.out = <<>> /\ ScanPhase(h, w, {c}, TRUE, ctl)
      /\ IsFiniteSet(h.pending) /\ Settled(h) /\ PendingAreCalls(h) /\ Alone(h, w, {c}, b)
  BY TakingIs
<1>2. c \in InitiatorOps /\ c \notin ListCommandBy
      /\ c \notin ScannerOps \cup ScanOffs \cup ScanOns \cup Params
  BY Sorts, SortsDiffer
<1>3. w \cap InitiatorOps = {} /\ h.connectCommandInProgress
  BY <1>2, TakingIs
<1>4. g = IF gone # {} THEN SendCancel(m) ELSE TriggerConnectionChange(m)
  BY <1>1 DEF CreateAnswer, AttemptStarted, Host
<1>5. Idle(m)
  BY <1>1 DEF Idle, Host, OwnUpdates
<1>6. /\ SameScanners(m, h) /\ SameFlags(m, h) /\ SameLists(m, h) /\ m.attempt = h.attempt
      /\ m.device = h.device /\ m.pending = h.pending /\ m.scanChange = h.scanChange
      /\ m.scannerCommandInProgress = h.scannerCommandInProgress /\ InAttempt(m)
  BY <1>1 DEF SameScanners, SameFlags, SameLists, InAttempt, Host
<1> HIDE DEF m, gone, g
<1>7. /\ Agree(m, w, {}, ctl.list) /\ Goal(m, w, {}, ctl, reached)
      /\ \A who \in Who : ListPhase(m, w, {}, FALSE, ctl.list, who)
  BY <1>2, <1>3, <1>6, TakingIs, AnswerLeaves DEF SameLists, InAttempt
<1>8. ScanPhase(m, w, {}, FALSE, ctl)
  <2>1. ScanPhase(h, w, {}, FALSE, ctl)
    BY <1>1, <1>2 DEF ScanPhase
  <2>2. ScanPhase(m, w \cup {}, {}, FALSE, ctl)
    BY <1>6, <2>1, ScanPhaseKept
  <2>3. QED
    BY <2>2
<1>9. Alone(m, w, {}, b)
  <2>1. Live(m) = Live(h)
    BY <1>6 DEF Live, SameScanners
  <2>2. InAttempt(h)
    BY <1>3 DEF InAttempt
  <2>3. QED
    BY <1>1, <1>6, <2>1, <2>2 DEF Alone, NoFilters, NoWhiteList, FewCalls, SameFlags, SameLists,
                                  SameScanners
<1>10. Held(m, w, {}, FALSE, ctl, reached, b)
  BY <1>1, <1>6, <1>7, <1>8, <1>9 DEF Held
<1>11. Settled(m)
  BY <1>1, <1>6, SettledKept DEF SameLists
<1>12. CASE gone # {}
  <2>1. CancelSent(SendCancel(m), m)
    BY <1>5, SendCancelDoes DEF CancelSent
  <2>2. CancelSent(g, m)
    BY <1>4, <1>12, <2>1
  <2>3. Serving(g, w \cup Members(g.out), {}, FALSE, ctl, reached, b)
    BY <1>7, <1>10, <1>11, <2>2, CancelSentServes
  <2>4. QED
    BY <2>3 DEF g
<1>13. CASE gone = {}
  <2>1. (w \cup {}) \cap InitiatorOps # {} => m.connectCommandInProgress
    BY <1>3
  <2>2. PendingAreCalls(m)
    BY <1>1, <1>6 DEF PendingAreCalls
  <2> DEFINE k == TriggerConnectionChange(m)
  <2>3. Serving(k, w \cup Members(k.out), {}, FALSE, ctl, reached, b)
    BY <1>5, <1>6, <1>7, <1>10, <1>11, <2>1, <2>2, ConnectionChangeServes
  <2>4. QED
    BY <1>4, <1>13, <2>3 DEF g
<1>14. QED
  BY <1>12, <1>13

LEMMA CreateRefusedServes ==
  ASSUME NEW h, NEW w, NEW c \in CreateOps, NEW ctl, NEW reached, NEW b,
         Taking(h, w, c, FALSE, ctl, reached, b)
  PROVE  LET g == CreateAnswer(h, c, FALSE)
         IN Serving(g, w \cup Members(g.out), {}, FALSE, ctl, reached, b)
<1>1. h \in Host /\ OwnUpdates(h) /\ h.out = <<>> /\ ScanPhase(h, w, {c}, FALSE, ctl)
      /\ IsFiniteSet(h.pending) /\ Settled(h) /\ PendingAreCalls(h) /\ Alone(h, w, {c}, b)
  BY TakingIs
<1>2. c \in InitiatorOps /\ c \notin ListCommandBy
      /\ c \notin ScannerOps \cup ScanOffs \cup ScanOns \cup Params
  BY Sorts, SortsDiffer
<1>3. w \cap InitiatorOps = {} /\ h.connectCommandInProgress
  BY <1>2, TakingIs
<1>4. PICK m : AttemptRefused(m, h) /\ CreateAnswer(h, c, FALSE) = TriggerConnectionChange(m)
  BY <1>1, CreateRefusedDoes DEF Idle
<1>5. Tidy(h, w, {c}, FALSE, ctl.initiating, reached)
  BY DEF Taking
<1>6. ~h.createConnectionIsOutstanding /\ ctl.initiating = None /\ reached = {}
  BY <1>3, <1>5 DEF Tidy, CallsOk
<1>7. /\ Idle(m) /\ SameScanners(m, h) /\ m.scanChange = h.scanChange
      /\ m.scannerCommandInProgress = h.scannerCommandInProgress
      /\ m.currentWhiteList = h.currentWhiteList /\ m.update = h.update
      /\ m.whiteListUsage = "none" /\ ~m.connectCommandInProgress
      /\ m.stopScanCallback = h.stopScanCallback
      /\ ~m.createConnectionIsOutstanding /\ m.pending \subseteq h.pending /\ m.device = h.device
  BY <1>4, <1>6 DEF AttemptRefused, Idle, SameScanners, SameScanner, SameScan
<1>8. ~InAttempt(m)
  BY <1>7 DEF InAttempt
<1>9. Agree(m, w, {}, ctl.list)
  <2>1. Agree(h, w, {c}, ctl.list)
    BY TakingIs
  <2>2. QED
    BY <1>2, <1>7, <2>1 DEF Agree
<1>10. Goal(m, w, {}, ctl, reached)
  BY <1>8 DEF Goal
<1>11. \A who \in Who : ListPhase(m, w, {}, FALSE, ctl.list, who)
  <2>1. ListPhase(h, w, {c}, FALSE, ctl.list, "scanner")
    BY TakingIs DEF Who
  <2>2. ListPhase(m, w, {}, FALSE, ctl.list, "scanner")
    BY <1>7, <2>1 DEF ListPhase
  <2>3. w \cap ListBy("initiator") = {}
    BY <1>3, Sorts
  <2>4. ListPhase(m, w, {}, FALSE, ctl.list, "initiator")
    BY <2>3 DEF ListPhase
  <2>5. QED
    BY <2>2, <2>4 DEF Who
<1>12. ScanPhase(m, w, {}, FALSE, ctl)
  <2>1. ScanPhase(h, w, {}, FALSE, ctl)
    BY <1>1, <1>2 DEF ScanPhase
  <2>2. ScanPhase(m, w \cup {}, {}, FALSE, ctl)
    BY <1>7, <2>1, ScanPhaseKept
  <2>3. QED
    BY <2>2
<1>13. Alone(m, w, {}, b)
  <2>1. Live(m) = Live(h)
    BY <1>7 DEF Live, SameScanners
  <2>2. FewCalls(h, b) => FewCalls(m, b)
    BY <1>7, FewCallsKept
  <2>3. QED
    BY <1>1, <1>7, <1>8, <2>1, <2>2 DEF Alone, NoFilters, NoWhiteList, SameScanners
<1>14. IsFiniteSet(m.pending)
  BY <1>1, <1>7, FS_Subset
<1>15. Held(m, w, {}, FALSE, ctl, reached, b)
  BY <1>10, <1>11, <1>12, <1>13, <1>14 DEF Held
<1>16. Settled(m)
  BY <1>1, <1>7, SettledKept
<1>17. PendingAreCalls(m) /\ ((w \cup {}) \cap InitiatorOps # {} => m.connectCommandInProgress)
  BY <1>1, <1>3, <1>7 DEF PendingAreCalls
<1> DEFINE k == TriggerConnectionChange(m)
<1>18. Serving(k, w \cup Members(k.out), {}, FALSE, ctl, reached, b)
  BY <1>6, <1>7, <1>9, <1>15, <1>16, <1>17, ConnectionChangeServes
<1>19. QED
  BY <1>4, <1>18

-----------------------------------------------------------------------------
\* Whatever the answer is to.
LEMMA AnswerServes ==
  ASSUME NEW h, NEW w, NEW c, NEW ok, NEW ctl, NEW reached, NEW b,
         Taking(h, w, c, ok, ctl, reached, b), ctl.list \in SUBSET Device
  PROVE  LET g == CASE c.op \in {"scanOff", "scanOn", "scanParameters"} -> ScanAnswer(h, c, ok)
                    [] c.op = "create" -> CreateAnswer(h, c, ok)
                    [] c.op = "cancel" -> h
                    [] OTHER -> ListAnswer(h, c, ok)
         IN Serving(g, w \cup Members(g.out), {}, FALSE, ctl, reached, b)
<1> DEFINE g == CASE c.op \in {"scanOff", "scanOn", "scanParameters"} -> ScanAnswer(h, c, ok)
                  [] c.op = "create" -> CreateAnswer(h, c, ok)
                  [] c.op = "cancel" -> h
                  [] OTHER -> ListAnswer(h, c, ok)
           Goes(k) == Serving(k, w \cup Members(k.out), {}, FALSE, ctl, reached, b)
<1>1. c \in Command /\ ok \in BOOLEAN
  BY TakingIs
<1>2. CASE c \in ScanOffs \cup ScanOns \cup Params
  <2>1. c.op \in {"scanOff", "scanOn", "scanParameters"}
    BY <1>2 DEF ScanOffs, ScanOns, Params
  <2>2. g = ScanAnswer(h, c, ok)
    BY <2>1
  <2>3. Goes(ScanAnswer(h, c, ok))
    BY <1>2, ScanOffServes, ScanOnServes, ParamsServe
  <2> HIDE DEF g
  <2>4. QED
    BY <2>2, <2>3 DEF g
<1>3. CASE c \in CreateOps
  <2>1. c.op = "create"
    BY <1>3 DEF CreateOps
  <2>2. g = CreateAnswer(h, c, ok)
    BY <2>1
  <2>3. Goes(CreateAnswer(h, c, ok))
    <3>1. CASE ok = TRUE
      BY <1>3, <3>1, CreateGrantedServes
    <3>2. CASE ok = FALSE
      BY <1>3, <3>2, CreateRefusedServes
    <3>3. QED
      BY <1>1, <3>1, <3>2
  <2> HIDE DEF g
  <2>4. QED
    BY <2>2, <2>3 DEF g
<1>4. CASE c \in CancelOps
  <2>1. c.op = "cancel"
    BY <1>4 DEF CancelOps
  <2>2. g = h
    BY <2>1
  <2>3. Goes(h)
    BY <1>4, CancelAnswerServes
  <2> HIDE DEF g
  <2>4. QED
    BY <2>2, <2>3 DEF g
<1>5. CASE c \in ListCommandBy
  <2>1. c.op \in {"clear", "add", "remove"}
    BY <1>5 DEF ListCommandBy, ListBy
  <2>2. g = ListAnswer(h, c, ok)
    BY <2>1
  <2>3. Goes(ListAnswer(h, c, ok))
    BY <1>5, Sorts, ScannerListServes, InitiatorListServes
  <2> HIDE DEF g
  <2>4. QED
    BY <2>2, <2>3 DEF g
<1>6. QED
  BY <1>1, <1>2, <1>3, <1>4, <1>5, Sorts

-----------------------------------------------------------------------------
(* The end of an attempt. *)

\* The device that was reached is one that a call of the attempt is for.
LEMMA ReachedIsFound ==
  ASSUME NEW h \in Host, h.attempt.conns \subseteq Connect,
         NEW d \in Device, d \in {h.device[c] : c \in h.attempt.conns}
  PROVE  FirstFound(h, d) # {}
<1>1. d # None
  BY ManagerAssumption
<1>2. Found(h, d) # {} /\ Found(h, d) \in SUBSET Nat
  BY <1>1, ManagerAssumption DEF Found
<1>3. PICK m \in Found(h, d) : \A k \in Found(h, d) : m <= k
  BY <1>2, Least
<1>4. QED
  BY <1>3 DEF FirstFound

LEMMA CompletionServes ==
  ASSUME NEW h, Idle(h), h.crashed = "no", NEW w, NEW x, NEW ok, NEW ctl, NEW reached, NEW b,
         Tidy(h, w, x, ok, ctl.initiating, reached), Serving(h, w, x, ok, ctl, reached, b),
         h.createConnectionIsOutstanding, NEW d \in reached, d \in Device \cup {None}
  PROVE  LET g == ConnectionComplete(h, d)
         IN /\ Serving(g, w \cup Members(g.out), x, ok, ctl, {}, b)
            /\ g.crashed # "connection complete but failed conn"
<1> DEFINE g == ConnectionComplete(h, d)
<1>1. /\ Agree(h, w, x, ctl.list) /\ Alone(h, w, x, b) /\ ScanPhase(h, w, x, ok, ctl)
      /\ \A who \in Who : ListPhase(h, w, x, ok, ctl.list, who)
      /\ Goal(h, w, x, ctl, reached) /\ IsFiniteSet(h.pending) /\ Settled(h)
  BY DEF Serving, Held
<1>2. /\ CallsOk(h) /\ h \in Host /\ ctl.initiating = None /\ ~h.connectCommandInProgress
      /\ (w \cup x) \cap InitiatorOps = {}
  BY DEF Tidy, CallsOk, Idle
<1>3. InAttempt(h) /\ h.attempt.conns \subseteq Connect
  BY <1>2 DEF InAttempt, CallsOk, Attempt
<1>4. d \in h.attempt.devices \cup {None} /\ h.attempt.devices = {h.device[c] : c \in h.attempt.conns}
  BY <1>1, <1>3 DEF Goal
<1>5. d # None => FirstFound(h, d) # {}
  BY <1>2, <1>3, <1>4, ReachedIsFound
<1>6. PICK m : AttemptCompleted(m, h, d) /\ g = TriggerConnectionChange(m)
  <2>1. ~Foreign(g, h, d)
    BY <1>5 DEF Foreign
  <2>2. QED
    BY <2>1, ConnectionCompleteDoes
<1>7. /\ Idle(m) /\ SameScanners(m, h) /\ m.scanChange = h.scanChange
      /\ m.scannerCommandInProgress = h.scannerCommandInProgress
      /\ m.currentWhiteList = h.currentWhiteList /\ m.update = h.update
      /\ m.whiteListUsage = "none" /\ ~m.connectCommandInProgress
      /\ m.stopScanCallback = h.stopScanCallback /\ m.crashed = "no"
      /\ ~m.createConnectionIsOutstanding /\ m.pending \subseteq h.pending /\ m.device = h.device
  BY <1>2, <1>6 DEF AttemptCompleted, Idle, SameScanners, SameScanner, SameScan
<1>8. ~InAttempt(m)
  BY <1>7 DEF InAttempt
<1>9. Agree(m, w, x, ctl.list)
  BY <1>1, <1>7 DEF Agree
<1>10. Goal(m, w, x, ctl, {})
  BY <1>8 DEF Goal
<1>11. \A who \in Who : ListPhase(m, w, x, ok, ctl.list, who)
  <2>1. ListPhase(h, w, x, ok, ctl.list, "scanner")
    BY <1>1 DEF Who
  <2>2. ListPhase(m, w, x, ok, ctl.list, "scanner")
    BY <1>7, <2>1 DEF ListPhase
  <2>3. (w \cup x) \cap ListBy("initiator") = {}
    BY <1>2, Sorts
  <2>4. ListPhase(m, w, x, ok, ctl.list, "initiator")
    BY <2>3 DEF ListPhase
  <2>5. QED
    BY <2>2, <2>4 DEF Who
<1>12. ScanPhase(m, w, x, ok, ctl)
  <2>1. ScanPhase(m, w \cup {}, x, ok, ctl)
    BY <1>1, <1>7, ScanPhaseKept
  <2>2. QED
    BY <2>1
<1>13. Alone(m, w, x, b)
  <2>1. Live(m) = Live(h)
    BY <1>7 DEF Live, SameScanners
  <2>2. FewCalls(h, b) => FewCalls(m, b)
    BY <1>7, FewCallsKept
  <2>3. QED
    BY <1>1, <1>7, <1>8, <2>1, <2>2 DEF Alone, NoFilters, NoWhiteList, SameScanners
<1>14. IsFiniteSet(m.pending)
  BY <1>1, <1>7, FS_Subset
<1>15. Held(m, w, x, ok, ctl, {}, b)
  BY <1>10, <1>11, <1>12, <1>13, <1>14 DEF Held
<1>16. Settled(m)
  BY <1>1, <1>7, SettledKept
<1>17. PendingAreCalls(m) /\ ((w \cup x) \cap InitiatorOps # {} => m.connectCommandInProgress)
  <2>1. h.pending \subseteq Connect
    BY <1>2 DEF Host
  <2>2. QED
    BY <1>2, <1>7, <2>1 DEF PendingAreCalls, CallsOk
<1>18. Serving(g, w \cup Members(g.out), x, ok, ctl, {}, b)
  <2> DEFINE k == TriggerConnectionChange(m)
  <2>1. ctl.initiating # None \/ {} # {} => InAttempt(m)
    BY <1>2
  <2>2. Serving(k, w \cup Members(k.out), x, ok, ctl, {}, b)
    BY <1>7, <1>9, <1>15, <1>16, <1>17, <2>1, ConnectionChangeServes
  <2>3. QED
    BY <1>6, <2>2
<1>19. g.crashed # "connection complete but failed conn"
  <2> DEFINE k == TriggerConnectionChange(m)
  <2>1. LacksRoom(k, m) \/ KeepsAttempt(k, m) \/ CancelsAttempt(k, m) \/ BeginsAttempt(k, m)
    BY <1>7, <1>17, TriggerConnectionChangeDoes
  <2> HIDE DEF k, g
  <2>2. k.crashed = m.crashed \/ k.crashed = "startScan"
    BY <2>1 DEF LacksRoom, KeepsAttempt, CancelsAttempt, BeginsAttempt, SameFlags
  <2>3. QED
    BY <1>6, <1>7, <2>2 DEF k
<1>20. QED
  BY <1>18, <1>19

-----------------------------------------------------------------------------
(* The calls of the application. *)

\* The fields of the host the invariant speaks of, and of the budget.
SameView(g, h) ==
  /\ SameScanners(g, h) /\ SameFlags(g, h) /\ SameLists(g, h) /\ SameCallFlags(g, h)
  /\ g.scanChange = h.scanChange /\ g.scannerCommandInProgress = h.scannerCommandInProgress
  /\ g.attempt = h.attempt /\ g.device = h.device /\ g.pending = h.pending
SameLimits(b, a) == b.kinds = a.kinds /\ b.connects = a.connects

LEMMA ServingKept ==
  ASSUME NEW h, NEW w, NEW x, NEW ok, NEW ctl, NEW reached, NEW a,
         Serving(h, w, x, ok, ctl, reached, a),
         NEW g, SameView(g, h), NEW b, SameLimits(b, a)
  PROVE  Serving(g, w, x, ok, ctl, reached, b)
<1>1. /\ Live(g) = Live(h) /\ Wanted(g) = Wanted(h) /\ LiveFilters(g) = LiveFilters(h)
      /\ InAttempt(g) <=> InAttempt(h)
  BY DEF Live, Wanted, LiveFilters, InAttempt, SameView, SameScanners, SameCallFlags
<1>2. Agree(h, w, x, ctl.list) => Agree(g, w, x, ctl.list)
  BY DEF Agree, SameView, SameLists
<1>3. Settled(h) => Settled(g)
  BY <1>1 DEF Settled, SameView, SameScanners, SameLists
<1>4. AtRest(h) => AtRest(g)
  BY <1>1 DEF AtRest, SameView, SameCallFlags
<1>5. ScanPhase(h, w, x, ok, ctl) => ScanPhase(g, w, x, ok, ctl)
  BY DEF ScanPhase, SameView, SameScanners
<1>6. ASSUME NEW who \in Who, ListPhase(h, w, x, ok, ctl.list, who)
      PROVE  ListPhase(g, w, x, ok, ctl.list, who)
  <2>1. g.update = h.update /\ g.attempt = h.attempt
    BY DEF SameView, SameLists
  <2>2. QED
    BY <1>6, <2>1 DEF ListPhase
<1>7. Goal(h, w, x, ctl, reached) => Goal(g, w, x, ctl, reached)
  <2>1. g.attempt = h.attempt /\ g.device = h.device /\ g.currentWhiteList = h.currentWhiteList
    BY DEF SameView, SameLists
  <2>2. QED
    BY <1>1, <2>1 DEF Goal
<1>8. Alone(h, w, x, a) => Alone(g, w, x, b)
  BY <1>1 DEF Alone, NoFilters, NoWhiteList, FewCalls, SameView, SameScanners, SameLists, SameFlags,
              SameLimits
<1>9. h.crashed = g.crashed /\ g.pending = h.pending
  BY DEF SameView, SameFlags
<1>10. QED
  BY <1>2, <1>3, <1>4, <1>5, <1>6, <1>7, <1>8, <1>9 DEF Serving, Held

\* What is known when a call is made, or an event is taken that is no answer.
Calling(h, w, x, ok, ctl, reached, b) ==
  /\ Idle(h) /\ h.crashed = "no" /\ Tidy(h, w, x, ok, ctl.initiating, reached)
  /\ Serving(h, w, x, ok, ctl, reached, b)

LEMMA CallingIs ==
  ASSUME NEW h, NEW w, NEW x, NEW ok, NEW ctl, NEW reached, NEW b,
         Calling(h, w, x, ok, ctl, reached, b)
  PROVE  /\ h \in Host /\ OwnUpdates(h) /\ h.out = <<>> /\ CallsOk(h)
         /\ Agree(h, w, x, ctl.list) /\ Alone(h, w, x, b) /\ ScanPhase(h, w, x, ok, ctl)
         /\ \A who \in Who : ListPhase(h, w, x, ok, ctl.list, who)
         /\ Goal(h, w, x, ctl, reached) /\ IsFiniteSet(h.pending) /\ Settled(h) /\ AtRest(h)
         /\ (w \cup x) \cap ScannerOps # {} => h.scannerCommandInProgress
         /\ (w \cup x) \cap InitiatorOps # {} => h.connectCommandInProgress
         /\ ctl.initiating # None \/ reached # {} => InAttempt(h)
         /\ PendingAreCalls(h)
<1>1. Tidy(h, w, x, ok, ctl.initiating, reached) /\ Idle(h)
  BY DEF Calling
<1>2. PendingAreCalls(h)
  <2>1. h.pending \subseteq Connect
    BY <1>1 DEF Idle, Host
  <2>2. QED
    BY <1>1, <2>1 DEF PendingAreCalls, Tidy, CallsOk
<1>3. /\ (w \cup x) \cap ScannerOps # {} => h.scannerCommandInProgress
      /\ (w \cup x) \cap InitiatorOps # {} => h.connectCommandInProgress
  BY <1>1 DEF Tidy
<1>4. ctl.initiating # None \/ reached # {} => InAttempt(h)
  <2>1. x \cap CreateOps # {} => h.connectCommandInProgress
    BY <1>1, Sorts DEF Tidy
  <2>2. QED
    BY <1>1, <2>1 DEF Tidy, InAttempt
<1>5. Held(h, w, x, ok, ctl, reached, b) /\ Agree(h, w, x, ctl.list) /\ Settled(h) /\ AtRest(h)
  BY DEF Calling, Serving
<1>6. QED
  BY <1>1, <1>2, <1>3, <1>4, <1>5 DEF Tidy, Held, Idle

\* A scanner comes or goes.
LEMMA ScannerCallServes ==
  ASSUME NEW h, NEW w, NEW x, NEW ok, NEW ctl, NEW reached, NEW a,
         Calling(h, w, x, ok, ctl, reached, a),
         NEW s \in Scan, NEW kind \in Kind \cup {None}, kind # None => kind \in a.kinds,
         NEW r \in BOOLEAN, NEW b, SameLimits(b, a)
  PROVE  LET g == TriggerScannerChange(WithScanner(h, s, kind, r))
         IN Serving(g, w \cup Members(g.out), x, ok, ctl, reached, b)
<1>1. PICK m : m = WithScanner(h, s, kind, r)
  OBVIOUS
<1>2. Idle(h)
  BY DEF Calling
<1>3. /\ Idle(m) /\ SameCalls(m, h) /\ SameFlags(m, h) /\ SameLists(m, h)
      /\ m.scannerCommandInProgress = h.scannerCommandInProgress
      /\ m.scanChange = h.scanChange /\ m.scanEnabled = h.scanEnabled
      /\ m.active = h.active /\ m.policy = h.policy
      /\ m.scanners = WithPlace(h.scanners, s, kind)
  BY <1>1, <1>2, WithScannerIs
<1>4. /\ Agree(h, w, x, ctl.list) /\ Alone(h, w, x, a) /\ ScanPhase(h, w, x, ok, ctl)
      /\ \A who \in Who : ListPhase(h, w, x, ok, ctl.list, who)
      /\ Goal(h, w, x, ctl, reached) /\ IsFiniteSet(h.pending) /\ AtRest(h)
      /\ (w \cup x) \cap ScannerOps # {} => h.scannerCommandInProgress
  BY CallingIs
<1>5. h.scanners \in [Scan -> Kind \cup {None}]
  BY <1>2 DEF Idle, Host
<1>6. \A t \in Scan : m.scanners[t] = IF t = s THEN kind ELSE h.scanners[t]
  BY <1>3, <1>5 DEF WithPlace
<1>7. NoFilters(h, w, x, a) => NoFilters(m, w, x, b)
  <2>1. \A t \in Live(m) : t \in Scan /\ (m.scanners[t] \in a.kinds \/ (t \in Live(h) /\ m.scanners[t] = h.scanners[t]))
    BY <1>6 DEF Live
  <2>2. QED
    BY <1>3, <2>1 DEF NoFilters, SameLists, SameLimits
<1>8. Alone(m, w, x, b)
  BY <1>3, <1>4, <1>7 DEF Alone, NoWhiteList, FewCalls, InAttempt, SameCalls, SameFlags, SameLimits
<1>9. ScanPhase(m, w, x, ok, ctl)
  BY <1>3, <1>4 DEF ScanPhase
<1>10. /\ Agree(m, w \cup {}, x, ctl.list) /\ Goal(m, w \cup {}, x, ctl, reached) /\ AtRest(m)
       /\ \A who \in Who : ListPhase(m, w \cup {}, x, ok, ctl.list, who)
  BY <1>3, <1>4, AgreeKept, GoalKept, AtRestKept, ListPhaseKept DEF SameLists, SameCalls
<1>11. w \cup {} = w /\ IsFiniteSet(m.pending)
  BY <1>3, <1>4 DEF SameCalls
<1>12. Held(m, w, x, ok, ctl, reached, b)
  BY <1>8, <1>9, <1>10, <1>11 DEF Held
<1> DEFINE g == TriggerScannerChange(m)
<1>13. Serving(g, w \cup Members(g.out), x, ok, ctl, reached, b)
  BY <1>3, <1>4, <1>10, <1>11, <1>12, ScannerChangeServes
<1>14. QED
  BY <1>1, <1>13

\* A call more, and one less that may come.
LEMMA ConnectCallServes ==
  ASSUME NEW h, NEW w, NEW x, NEW ok, NEW ctl, NEW reached, NEW a,
         Calling(h, w, x, ok, ctl, reached, a),
         NEW c \in Connect, NEW d \in Device, h.device[c] = None,
         a.connects \in Nat, a.connects > 0,
         NEW b, b.kinds = a.kinds, b.connects = a.connects - 1
  PROVE  LET g == TriggerConnectionChange(WithCall(h, c, d))
         IN Serving(g, w \cup Members(g.out), x, ok, ctl, reached, b)
<1>1. PICK m : m = WithCall(h, c, d)
  OBVIOUS
<1>2. Idle(h) /\ h \in Host /\ CallsOk(h) /\ PendingAreCalls(h)
  BY CallingIs DEF Calling
<1>3. /\ Idle(m) /\ SameScanner(m, h) /\ SameFlags(m, h) /\ SameLists(m, h)
      /\ SameCallFlags(m, h) /\ m.attempt = h.attempt /\ m.connecting = h.connecting
      /\ m.pending = h.pending \cup {c} /\ m.device = [h.device EXCEPT ![c] = d]
  BY <1>1, <1>2, WithCallIs
<1>4. /\ Agree(h, w, x, ctl.list) /\ Alone(h, w, x, a) /\ ScanPhase(h, w, x, ok, ctl)
      /\ \A who \in Who : ListPhase(h, w, x, ok, ctl.list, who)
      /\ Goal(h, w, x, ctl, reached) /\ IsFiniteSet(h.pending) /\ Settled(h)
      /\ (w \cup x) \cap InitiatorOps # {} => h.connectCommandInProgress
      /\ ctl.initiating # None \/ reached # {} => InAttempt(h)
  BY CallingIs
<1>5. h.pending \subseteq Connect /\ h.device \in [Connect -> Device \cup {None}]
  BY <1>2 DEF Host
<1>6. \A o \in Connect : m.device[o] = IF o = c THEN d ELSE h.device[o]
  BY <1>3, <1>5
<1>7. PendingAreCalls(m)
  BY <1>2, <1>3, <1>5, <1>6, ManagerAssumption DEF PendingAreCalls
<1>8. c \notin h.pending
  BY <1>2 DEF PendingAreCalls
<1>9. /\ SameScanners(m, h) /\ m.scanChange = h.scanChange /\ Live(m) = Live(h)
      /\ m.scannerCommandInProgress = h.scannerCommandInProgress
      /\ (InAttempt(m) <=> InAttempt(h)) /\ m.update = h.update
      /\ m.currentWhiteList = h.currentWhiteList
      /\ m.connectCommandInProgress = h.connectCommandInProgress
  BY <1>3 DEF SameScanner, SameScan, SameScanners, Live, InAttempt, SameCallFlags, SameLists
<1>10. FewCalls(h, a) => FewCalls(m, b)
  <2>1. CASE WhiteListSize <= 1
    BY <2>1 DEF FewCalls
  <2>2. CASE h.pending = {} /\ a.connects <= 1
    <3>1. m.pending = {c}
      BY <1>3, <2>2
    <3>2. b.connects = 0
      BY <2>2
    <3>3. QED
      BY <3>1, <3>2 DEF FewCalls
  <2>3. CASE a.connects = 0
    BY <2>3
  <2>4. QED
    BY <2>1, <2>2, <2>3 DEF FewCalls
<1>11. Alone(m, w, x, b)
  BY <1>3, <1>4, <1>9, <1>10 DEF Alone, NoFilters, NoWhiteList, SameFlags, SameLists, SameScanners
<1>12. Goal(m, w, x, ctl, reached)
  <2>1. ASSUME InAttempt(h)
        PROVE  {m.device[o] : o \in h.attempt.conns} = {h.device[o] : o \in h.attempt.conns}
    <3>1. h.attempt.conns \subseteq h.pending
      BY <1>2, <2>1 DEF CallsOk, InAttempt
    <3>2. \A o \in h.attempt.conns : m.device[o] = h.device[o]
      BY <1>5, <1>6, <1>8, <3>1
    <3>3. QED
      BY <3>2
  <2>2. QED
    BY <1>3, <1>4, <1>9, <2>1 DEF Goal
<1>13. ASSUME NEW who \in Who
       PROVE  ListPhase(m, w, x, ok, ctl.list, who)
  <2>1. ListPhase(h, w, x, ok, ctl.list, who)
    BY <1>4
  <2>2. QED
    BY <1>3, <1>9, <2>1 DEF ListPhase
<1>14. ScanPhase(m, w, x, ok, ctl)
  <2>1. ScanPhase(m, w \cup {}, x, ok, ctl)
    BY <1>4, <1>9, ScanPhaseKept
  <2>2. QED
    BY <2>1
<1>15. IsFiniteSet(m.pending)
  BY <1>3, <1>4, FS_AddElement
<1>16. Held(m, w, x, ok, ctl, reached, b)
  BY <1>11, <1>12, <1>13, <1>14, <1>15 DEF Held
<1>17. Agree(m, w, x, ctl.list) /\ Settled(m)
  BY <1>4, <1>9, SettledKept DEF Agree
<1>18. /\ (w \cup x) \cap InitiatorOps # {} => m.connectCommandInProgress
       /\ ctl.initiating # None \/ reached # {} => InAttempt(m)
  BY <1>4, <1>9
<1> DEFINE g == TriggerConnectionChange(m)
<1>19. Serving(g, w \cup Members(g.out), x, ok, ctl, reached, b)
  BY <1>3, <1>7, <1>16, <1>17, <1>18, ConnectionChangeServes
<1>20. QED
  BY <1>1, <1>19

LEMMA CancelCallServes ==
  ASSUME NEW h, NEW w, NEW x, NEW ok, NEW ctl, NEW reached, NEW b,
         Calling(h, w, x, ok, ctl, reached, b), NEW c \in h.pending
  PROVE  LET g == CancelOf(h, c)
         IN Serving(g, w \cup Members(g.out), x, ok, ctl, reached, b)
<1> DEFINE g == CancelOf(h, c)
<1>1. PICK n : n = WithCancel(h, c)
  OBVIOUS
<1>2. Idle(h) /\ h \in Host /\ CallsOk(h) /\ PendingAreCalls(h) /\ h.pending \subseteq Connect
  BY CallingIs DEF Calling, Host
<1>3. /\ Idle(n) /\ SameScanner(n, h) /\ SameFlags(n, h) /\ SameLists(n, h)
      /\ SameCallFlags(n, h) /\ n.attempt = h.attempt /\ n.connecting = h.connecting
      /\ n.pending = h.pending /\ n.device = h.device
  BY <1>1, <1>2, WithCancelIs
<1>4. SameView(n, h)
  BY <1>3 DEF SameView, SameScanner, SameScan, SameScanners
<1>5. Serving(n, w, x, ok, ctl, reached, b) /\ n.crashed = "no"
  <2>1. SameLimits(b, b)
    BY DEF SameLimits
  <2>2. QED
    BY <1>3, <1>4, <2>1, ServingKept DEF Calling, SameFlags
<1>6. Agree(n, w, x, ctl.list) /\ Held(n, w, x, ok, ctl, reached, b) /\ Settled(n) /\ AtRest(n)
  BY <1>5 DEF Serving
<1>7. g = IF c \in h.connecting
          THEN IF h.createConnectionIsOutstanding /\ ~h.cancelCommandInProgress
               THEN SendCancel(n) ELSE n
          ELSE TriggerConnectionChange(Cancelled(n, {c}))
  BY <1>1 DEF CancelOf, WithCancel
<1> HIDE DEF g
<1>8. CASE g = SendCancel(n)
  <2> DEFINE k == SendCancel(n)
  <2>1. CancelSent(k, n)
    BY <1>3, SendCancelDoes DEF CancelSent
  <2>2. Serving(k, w \cup Members(k.out), x, ok, ctl, reached, b)
    BY <1>6, <2>1, CancelSentServes
  <2>3. QED
    BY <1>8, <2>2 DEF g
<1>9. CASE g = n
  <2>1. Members(n.out) = {}
    BY <1>3, MembersOfEmpty DEF Idle
  <2>2. w \cup Members(n.out) = w
    BY <2>1
  <2>3. QED
    BY <1>5, <1>9, <2>2 DEF g
<1>10. CASE c \notin h.connecting /\ g = TriggerConnectionChange(Cancelled(n, {c}))
  <2>1. PICK m : m = Cancelled(n, {c})
    OBVIOUS
  <2>2. /\ m \in Host /\ m.out = <<>> /\ OwnUpdates(m)
        /\ m.pending = n.pending \ {c} /\ m.crashed = n.crashed
        /\ m.device = n.device /\ m.connecting = n.connecting
        /\ SameScanner(m, n) /\ SameLists(m, n)
        /\ SameCallFlags(m, n) /\ m.attempt = n.attempt
    BY <1>3, <2>1, CancelledDoes
  <2>3. /\ SameScanners(m, n) /\ m.scanChange = n.scanChange /\ Live(m) = Live(n)
        /\ m.scannerCommandInProgress = n.scannerCommandInProgress
        /\ (InAttempt(m) <=> InAttempt(n)) /\ m.update = n.update
        /\ m.currentWhiteList = n.currentWhiteList /\ m.whiteListUsage = n.whiteListUsage
        /\ m.connectCommandInProgress = n.connectCommandInProgress
        /\ m.stopScanCallback = n.stopScanCallback
    BY <2>2 DEF SameScanner, SameScan, SameScanners, Live, InAttempt, SameCallFlags, SameLists
  <2>4. /\ Alone(n, w, x, b) /\ ScanPhase(n, w, x, ok, ctl) /\ Goal(n, w, x, ctl, reached)
        /\ \A who \in Who : ListPhase(n, w, x, ok, ctl.list, who)
        /\ IsFiniteSet(n.pending)
    BY <1>6 DEF Held
  <2>5. FewCalls(n, b) => FewCalls(m, b)
    BY <2>2, FewCallsKept
  <2>6. Alone(m, w, x, b)
    BY <2>2, <2>3, <2>4, <2>5 DEF Alone, NoFilters, NoWhiteList, SameScanners
  <2>7. Goal(m, w, x, ctl, reached)
    BY <2>2, <2>3, <2>4 DEF Goal
  <2>8. ASSUME NEW who \in Who
        PROVE  ListPhase(m, w, x, ok, ctl.list, who)
    <3>1. ListPhase(n, w, x, ok, ctl.list, who)
      BY <2>4
    <3>2. QED
      BY <2>2, <2>3, <3>1 DEF ListPhase
  <2>9. ScanPhase(m, w, x, ok, ctl)
    <3>1. ScanPhase(m, w \cup {}, x, ok, ctl)
      BY <2>3, <2>4, ScanPhaseKept
    <3>2. QED
      BY <3>1
  <2>10. IsFiniteSet(m.pending)
    <3>1. m.pending \subseteq n.pending
      BY <2>2
    <3>2. QED
      BY <2>4, <3>1, FS_Subset
  <2>11. Held(m, w, x, ok, ctl, reached, b)
    BY <2>6, <2>7, <2>8, <2>9, <2>10 DEF Held
  <2>12. Agree(m, w, x, ctl.list) /\ Settled(m)
    BY <1>6, <2>3, SettledKept DEF Agree
  <2>13. Idle(m) /\ PendingAreCalls(m)
    BY <1>2, <1>3, <2>2 DEF PendingAreCalls, Idle
  <2>14. /\ (w \cup x) \cap InitiatorOps # {} => m.connectCommandInProgress
         /\ ctl.initiating # None \/ reached # {} => InAttempt(m)
    <3>1. /\ (w \cup x) \cap InitiatorOps # {} => h.connectCommandInProgress
          /\ ctl.initiating # None \/ reached # {} => InAttempt(h)
      BY CallingIs
    <3>2. (InAttempt(n) <=> InAttempt(h)) /\ n.connectCommandInProgress = h.connectCommandInProgress
      BY <1>3 DEF InAttempt, SameCallFlags
    <3>3. QED
      BY <2>3, <3>1, <3>2
  <2> DEFINE k == TriggerConnectionChange(m)
  <2>15. Serving(k, w \cup Members(k.out), x, ok, ctl, reached, b)
    BY <2>11, <2>12, <2>13, <2>14, ConnectionChangeServes
  <2>16. QED
    BY <1>10, <2>1, <2>15 DEF g
<1>11. QED
  BY <1>7, <1>8, <1>9, <1>10

-----------------------------------------------------------------------------
(* The steps. *)

ServesInv ==
  /\ Serving(host, Waiting(commands, events), Done(commands, events), Has(events, Grants),
             controller, Reached(events), budget)
  /\ Has(events, Reports) => commands # <<>>

\* A statement is the truth value it has.
LEMMA HasIs ==
  ASSUME NEW q, NEW S, NEW ok \in BOOLEAN, Has(q, S) <=> ok
  PROVE  Has(q, S) = ok
BY DEF Has

LEMMA ServingNow ==
  ASSUME CallsInv, ServesInv, host.crashed = "no"
  PROVE  Calling(host, Waiting(commands, events), Done(commands, events), Has(events, Grants),
                 controller, Reached(events), budget)
<1>1. /\ events \in Seq(Event) /\ Idle(host)
      /\ InStep(host, commands, controller.initiating, events)
  BY DEF CallsInv, ManagerTypes
<1>2. Tidy(host, Waiting(commands, events), Done(commands, events), Has(events, Grants),
           controller.initiating, Reached(events))
  BY <1>1, TidyIs
<1>3. QED
  BY <1>1, <1>2 DEF Calling, ServesInv

\* A step of the controller that answers the first command.
LEMMA AnswerMoves ==
  ASSUME NEW h, h.crashed = "no", NEW q, NEW ev \in Seq(Event), NEW e \in Seq(Event), NEW initiating,
         InStep(h, q, initiating, e), NEW c, Done(q, e) = {c},
         Waiting(q, ev) = {c} \cup Waiting(q, e)
  PROVE  Moves(Waiting(q, ev), Waiting(q, e), c)
<1>1. Tidy(h, Waiting(q, e), Done(q, e), Has(e, Grants), initiating, Reached(e))
  BY TidyIs
<1>2. QED
  BY <1>1 DEF Tidy, Moves

LEMMA ExecuteServes ==
  ASSUME CallsInv, CallsInv', ServesInv, Execute
  PROVE  ServesInv'
<1> DEFINE c == Head(commands)
           w == Waiting(commands, events)
           ok == Has(events, Grants)
           reached == Reached(events)
<1>1. /\ commands # <<>> /\ ~Has(events, Reports) /\ Idle(host) /\ host \in Host
      /\ c \in Command /\ commands \in Seq(Command) /\ events \in Seq(Event)
      /\ controller \in ControllerType
      /\ Agree(host, w, Done(commands, events), controller.list)
  BY UnansweredHasNone, TailFacts DEF Execute, CallsInv, ManagerTypes, Idle, ServesInv, Serving
<1>2. UNCHANGED <<host, commands, budget>>
  BY DEF Execute
<1>3. /\ events' \in Seq(Event)
      /\ InStep(host, commands, controller'.initiating, events')
  BY <1>2 DEF CallsInv, ManagerTypes
<1>4. host.crashed = "no" =>
        /\ Tidy(host, w, Done(commands, events), ok, controller.initiating, reached)
        /\ Held(host, w, Done(commands, events), ok, controller, reached, budget)
        /\ Settled(host) /\ AtRest(host)
  BY ServingNow DEF Calling, Serving
<1>5. CASE Refuses(c)
  <2> DEFINE e == Append(events, Answer(FALSE))
             v == Waiting(commands, e)
  <2>1. events' = e /\ controller' = controller
    BY <1>5 DEF Execute
  <2>2. /\ Done(commands, events) = {} /\ w = {c} \cup v /\ Done(commands, e) = {c}
        /\ (Has(e, Grants) <=> FALSE) /\ Reached(e) = reached
    BY <1>1, ViewOfAnswer
  <2>3. Has(e, Grants) = FALSE
    BY <2>2, HasIs
  <2>4. Agree(host, v, {c}, controller.list)
    BY <1>1, <2>2 DEF Agree
  <2>5. ASSUME host.crashed = "no"
        PROVE  Held(host, v, {c}, FALSE, controller, reached, budget)
    <3>1. Moves(w, v, c)
      BY <1>1, <1>3, <2>1, <2>2, <2>5, AnswerMoves
    <3> HIDE DEF c, e, v, w, ok, reached
    <3>2. (c \in ListBy("scanner") /\ ~c.last) \/ c \in CreateOps \/ c \in CancelOps
      BY <1>1, <1>4, <1>5, <2>2, <2>5, RefusesLittle
    <3>3. QED
      BY <1>4, <2>2, <2>5, <3>1, <3>2, RefusalServes
  <2>6. Serving(host, v, {c}, FALSE, controller, reached, budget)
    BY <1>4, <2>4, <2>5 DEF Serving
  <2> HIDE DEF e, v, w, reached
  <2>7. QED
    BY <1>1, <1>2, <2>1, <2>2, <2>3, <2>6 DEF ServesInv, v
<1>6. CASE ~Refuses(c)
  <2> DEFINE granted == Append(events, Answer(TRUE))
             e == IF c.op = "cancel" THEN Append(granted, Complete(None)) ELSE granted
             v == Waiting(commands, granted)
             end == IF c \in CancelOps THEN reached \cup {None} ELSE reached
  <2>1. /\ controller' = Executed(c)
        /\ events' = events \o <<Answer(TRUE)>>
                       \o (IF c.op = "cancel" THEN <<Complete(None)>> ELSE <<>>)
    BY <1>6 DEF Execute
  <2>2. Answer(TRUE) \in Event /\ Complete(None) \in Event
    BY EventKinds
  <2>3. granted \in Seq(Event) /\ events \o <<Answer(TRUE)>> = granted
    BY <1>1, <2>2, ConcatEvents, AppendFacts
  <2>4. events' = e
    <3> HIDE DEF granted
    <3>1. QED
      BY <2>1, <2>2, <2>3, ConcatEvents, AppendFacts
  <2>5. /\ Done(commands, events) = {} /\ w = {c} \cup v /\ Done(commands, granted) = {c}
        /\ (Has(granted, Grants) <=> TRUE) /\ Reached(granted) = reached
    BY <1>1, ViewOfAnswer
  <2>6. c.op = "cancel" <=> c \in CancelOps
    BY <1>1, FirstCommand
  <2>7. /\ Waiting(commands, e) = v /\ Done(commands, e) = {c} /\ (Has(e, Grants) <=> TRUE)
        /\ Reached(e) = end
    <3> HIDE DEF granted, reached
    <3>1. CASE c.op = "cancel"
      BY <2>3, <2>5, <2>6, <3>1, ViewOfCompletion
    <3>2. CASE c.op # "cancel"
      BY <2>5, <2>6, <3>2
    <3>3. QED
      BY <3>1, <3>2
  <2>8. Has(e, Grants) = TRUE
    BY <2>7, HasIs
  <2> HIDE DEF granted, e
  <2>9. Agree(host, v, {c}, Executed(c).list)
    <3>1. c \notin ListCommandBy => Executed(c).list = controller.list
      BY <1>1, ExecutedDoes
    <3>2. QED
      BY <1>1, <2>5, <3>1 DEF Agree
  <2>10. ASSUME host.crashed = "no"
         PROVE  Held(host, v, {c}, TRUE, Executed(c), end, budget)
    <3>1. Moves(w, v, c)
      BY <1>1, <1>3, <2>4, <2>5, <2>7, <2>10, AnswerMoves
    <3>2. QED
      BY <1>1, <1>4, <2>5, <2>10, <3>1, ExecutionServes
  <2>11. Serving(host, v, {c}, TRUE, Executed(c), end, budget)
    BY <1>4, <2>9, <2>10 DEF Serving
  <2> HIDE DEF v, w, reached, end
  <2>12. QED
    BY <1>1, <1>2, <2>1, <2>4, <2>7, <2>8, <2>11 DEF ServesInv
<1>7. QED
  BY <1>5, <1>6

LEMMA RejectServes ==
  ASSUME CallsInv, CallsInv', ServesInv, Reject
  PROVE  ServesInv'
<1> DEFINE c == Head(commands)
           w == Waiting(commands, events)
           ok == Has(events, Grants)
           reached == Reached(events)
           e == Append(events, Answer(FALSE))
           v == Waiting(commands, e)
<1>1. /\ commands # <<>> /\ ~Has(events, Reports) /\ Idle(host)
      /\ c \in Command /\ commands \in Seq(Command) /\ events \in Seq(Event)
      /\ Agree(host, w, Done(commands, events), controller.list) /\ c \in CreateOps
      /\ budget \in TypeOfBudget
  BY UnansweredHasNone, TailFacts, FirstCommand
     DEF Reject, CallsInv, ManagerTypes, ServesInv, Serving
<1>2. UNCHANGED <<host, commands, controller>> /\ events' = e
  BY DEF Reject
<1>3. /\ events' \in Seq(Event)
      /\ InStep(host, commands, controller.initiating, events')
  BY <1>2 DEF CallsInv, ManagerTypes
<1>4. host.crashed = "no" =>
        /\ Held(host, w, Done(commands, events), ok, controller, reached, budget)
        /\ Settled(host) /\ AtRest(host)
  BY ServingNow DEF Calling, Serving
<1>5. SameLimits(budget', budget)
  BY <1>1 DEF Reject, SameLimits, TypeOfBudget
<1>6. /\ Done(commands, events) = {} /\ w = {c} \cup v /\ Done(commands, e) = {c}
      /\ (Has(e, Grants) <=> FALSE) /\ Reached(e) = reached
  BY <1>1, ViewOfAnswer
<1>7. Has(e, Grants) = FALSE
  BY <1>6, HasIs
<1>8. Agree(host, v, {c}, controller.list)
  BY <1>1, <1>6 DEF Agree
<1>9. ASSUME host.crashed = "no"
      PROVE  Held(host, v, {c}, FALSE, controller, reached, budget)
  <2>1. Moves(w, v, c)
    BY <1>1, <1>2, <1>3, <1>6, <1>9, AnswerMoves
  <2> HIDE DEF c, e, v, w, ok, reached
  <2>2. QED
    BY <1>1, <1>4, <1>6, <1>9, <2>1, RefusalServes
<1>10. Serving(host, v, {c}, FALSE, controller, reached, budget)
  BY <1>4, <1>8, <1>9 DEF Serving
<1>11. SameView(host, host)
  BY DEF SameView, SameScanners, SameFlags, SameLists, SameCallFlags
<1> HIDE DEF e, v, w, reached
<1>12. Serving(host, v, {c}, FALSE, controller, reached, budget')
  BY <1>5, <1>10, <1>11, ServingKept
<1>13. QED
  BY <1>1, <1>2, <1>6, <1>7, <1>12 DEF ServesInv, v

LEMMA HasSame ==
  ASSUME NEW q, NEW r, NEW S, Has(r, S) <=> Has(q, S)
  PROVE  Has(r, S) = Has(q, S)
BY DEF Has

LEMMA EstablishServes ==
  ASSUME CallsInv, ServesInv, NEW d \in Device, Establish(d)
  PROVE  ServesInv'
<1> DEFINE w == Waiting(commands, events)
           x == Done(commands, events)
           ok == Has(events, Grants)
           reached == Reached(events)
           e == Append(events, Complete(d))
<1>1. /\ host \in Host /\ events \in Seq(Event) /\ controller \in ControllerType
      /\ Agree(host, w, x, controller.list)
      /\ Has(events, Reports) => commands # <<>>
      /\ d \in Targets
  BY DEF Establish, CallsInv, ManagerTypes, Idle, ServesInv, Serving
<1>2. UNCHANGED <<host, commands, budget>> /\ events' = e
  BY DEF Establish
<1>3. /\ controller'.scanning = controller.scanning /\ controller'.active = controller.active
      /\ controller'.policy = controller.policy /\ controller'.list = controller.list
      /\ controller'.initiating = None
  BY <1>1 DEF Establish, ControllerType
<1>4. /\ Waiting(commands, e) = w /\ Done(commands, e) = x /\ (Has(e, Grants) <=> ok)
      /\ Reached(e) = reached \cup {d}
  BY <1>1, ViewOfCompletion
<1>5. Has(e, Grants) = ok
  BY <1>4, HasSame
<1>6. Has(e, Reports) => commands # <<>>
  <2>1. Complete(d) \in Event /\ Complete(d) \notin Reports
    BY EventKinds
  <2>2. Has(e, Reports) <=> Has(events, Reports)
    BY <1>1, <2>1, AppendHas
  <2>3. QED
    BY <1>1, <2>2
<1>7. host.crashed = "no" =>
        /\ Tidy(host, w, x, ok, controller.initiating, reached)
        /\ Held(host, w, x, ok, controller, reached, budget)
        /\ Settled(host) /\ AtRest(host)
  BY ServingNow DEF Calling, Serving
<1> HIDE DEF w, x, ok, reached, e
<1>8. host.crashed = "no" => Held(host, w, x, ok, controller', reached \cup {d}, budget)
  BY <1>1, <1>3, <1>7, ConnectionServes
<1>9. Agree(host, w, x, controller'.list)
  BY <1>1, <1>3
<1>10. Serving(host, w, x, ok, controller', reached \cup {d}, budget)
  BY <1>7, <1>8, <1>9 DEF Serving
<1>11. QED
  BY <1>2, <1>4, <1>5, <1>6, <1>10 DEF ServesInv

\* A link of the controller is no matter of the scan or of the attempt.
LEMMA LinksAside ==
  ASSUME NEW h, NEW w, NEW x, NEW ok, NEW k, NEW reached, NEW b, Serving(h, w, x, ok, k, reached, b),
         NEW ctl, ctl.scanning = k.scanning, ctl.active = k.active, ctl.policy = k.policy,
         ctl.list = k.list, ctl.initiating = k.initiating
  PROVE  Serving(h, w, x, ok, ctl, reached, b)
<1>1. ScanPhase(h, w, x, ok, k) => ScanPhase(h, w, x, ok, ctl)
  BY DEF ScanPhase
<1>2. Goal(h, w, x, k, reached) => Goal(h, w, x, ctl, reached)
  BY DEF Goal
<1>3. QED
  BY <1>1, <1>2 DEF Serving, Held

LEMMA DropServes ==
  ASSUME CallsInv, ServesInv, NEW d \in Device, Drop(d)
  PROVE  ServesInv'
<1> DEFINE a == [type |-> "gone", device |-> d]
           w == Waiting(commands, events)
           x == Done(commands, events)
           ok == Has(events, Grants)
           reached == Reached(events)
           e == Append(events, a)
<1>1. /\ events \in Seq(Event) /\ controller \in ControllerType
      /\ Serving(host, w, x, ok, controller, reached, budget)
      /\ Has(events, Reports) => commands # <<>>
      /\ budget \in TypeOfBudget
  BY DEF CallsInv, ManagerTypes, ServesInv
<1>2. UNCHANGED <<host, commands>> /\ events' = e
  BY DEF Drop
<1>3. /\ controller'.scanning = controller.scanning /\ controller'.active = controller.active
      /\ controller'.policy = controller.policy /\ controller'.list = controller.list
      /\ controller'.initiating = controller.initiating
      /\ SameLimits(budget', budget)
  BY <1>1 DEF Drop, ControllerType, SameLimits, TypeOfBudget
<1>4. a \in Event /\ a.type = "gone"
  BY DEF Event
<1> HIDE DEF a
<1>5. /\ Waiting(commands, e) = w /\ Done(commands, e) = x /\ (Has(e, Grants) <=> ok)
      /\ Reached(e) = reached
  BY <1>1, <1>4, ViewOfLoss
<1>6. Has(e, Grants) = ok
  BY <1>5, HasSame
<1>7. Has(e, Reports) => commands # <<>>
  <2>1. a \notin Reports
    BY <1>4, EventKinds
  <2>2. Has(e, Reports) <=> Has(events, Reports)
    BY <1>1, <1>4, <2>1, AppendHas
  <2>3. QED
    BY <1>1, <2>2
<1> HIDE DEF w, x, ok, reached, e
<1>8. Serving(host, w, x, ok, controller', reached, budget)
  BY <1>1, <1>3, LinksAside
<1>9. SameView(host, host)
  BY DEF SameView, SameScanners, SameFlags, SameLists, SameCallFlags
<1>10. Serving(host, w, x, ok, controller', reached, budget')
  BY <1>3, <1>8, <1>9, ServingKept
<1>11. QED
  BY <1>2, <1>5, <1>6, <1>7, <1>10 DEF ServesInv

\* A piece of the program returns.
LEMMA ReturnServes ==
  ASSUME NEW g, NEW rest \in Seq(Command), Post(g, rest), NEW w, NEW x, NEW ok, NEW ctl,
         NEW reached, NEW b, Serving(g, w, x, ok, ctl, reached, b)
  PROVE  Serving([g EXCEPT !.out = <<>>], w, x, ok, ctl, reached, b)
<1> DEFINE h == [g EXCEPT !.out = <<>>]
<1>1. g \in Host
  BY DEF Post
<1>2. SameView(h, g)
  BY <1>1 DEF SameView, SameScanners, SameFlags, SameLists, SameCallFlags, Host
<1>3. SameLimits(b, b)
  BY DEF SameLimits
<1> HIDE DEF h
<1>4. Serving(h, w, x, ok, ctl, reached, b)
  BY <1>2, <1>3, ServingKept
<1>5. QED
  BY <1>4 DEF h

LEMMA HandleAnswerServes ==
  ASSUME CallsInv, ServesInv, HandleAnswer
  PROVE  ServesInv'
<1>1. /\ events \in Seq(Event) /\ events # <<>> /\ host.crashed = "no"
      /\ InStep(host, commands, controller.initiating, events) /\ Idle(host)
      /\ commands \in Seq(Command) /\ Head(events).type = "answer"
      /\ Flow(host, commands) /\ EventsOk(commands, events)
      /\ controller.list \in SUBSET Device
  BY DEF HandleAnswer, CallsInv, ManagerTypes, InStep, ControllerType
<1>2. Head(events) \in Reports /\ Head(events).ok \in BOOLEAN
  <2>1. Head(events) \in Event
    BY <1>1, TailFacts
  <2>2. QED
    BY <1>1, <2>1 DEF Reports, Event
<1>3. commands # <<>>
  <2>1. Has(events, Reports)
    BY <1>1, <1>2, TailHas
  <2>2. QED
    BY <1>1, <2>1 DEF EventsOk
<1> DEFINE c == Head(commands)
           ok == Head(events).ok
           g == CASE c.op \in {"scanOff", "scanOn", "scanParameters"} -> ScanAnswer(host, c, ok)
                  [] c.op = "create" -> CreateAnswer(host, c, ok)
                  [] c.op = "cancel" -> host
                  [] OTHER -> ListAnswer(host, c, ok)
           w == Waiting(commands, events)
           reached == Reached(events)
           r == Tail(commands) \o g.out
           e == Tail(events)
<1>4. /\ host' = [g EXCEPT !.out = <<>>] /\ commands' = r
      /\ events' = e /\ UNCHANGED <<controller, budget>>
  BY DEF HandleAnswer, Returns
<1>5. Post(g, Tail(commands)) /\ (g.out = <<>> \/ \E m \in Command : g.out = <<m>>)
  <2>1. Post(g, Tail(commands))
    BY <1>1, <1>2, <1>3, AnswerFlow
  <2> HIDE DEF g
  <2>2. QED
    BY <2>1 DEF Post
<1>6. c \in Command /\ Tail(commands) \in Seq(Command)
  BY <1>1, <1>3, TailFacts
<1> HIDE DEF g
<1>7. /\ Done(commands, events) = {c} /\ (Has(events, Grants) <=> ok)
      /\ Waiting(r, e) = w \cup Members(g.out) /\ Done(r, e) = {}
      /\ Reached(e) = reached /\ ~Has(e, Grants)
  BY <1>1, <1>2, <1>3, <1>5, ViewOfAnswerTaken
<1>8. Has(events, Grants) = ok /\ Has(e, Grants) = FALSE
  BY <1>2, <1>7, HasIs
<1>9. Taking(host, w, c, ok, controller, reached, budget)
  <2>1. Calling(host, w, Done(commands, events), Has(events, Grants), controller, reached, budget)
    BY <1>1, ServingNow
  <2>2. Calling(host, w, {c}, ok, controller, reached, budget)
    BY <1>7, <1>8, <2>1
  <2>3. QED
    BY <1>2, <1>6, <2>2 DEF Taking, Calling
<1>10. Serving(g, w \cup Members(g.out), {}, FALSE, controller, reached, budget)
  <2> HIDE DEF c, ok, w, reached
  <2>1. QED
    BY <1>1, <1>9, AnswerServes DEF g
<1> HIDE DEF w, reached, r, e, c, ok
<1>11. Serving(host', w \cup Members(g.out), {}, FALSE, controller, reached, budget)
  BY <1>4, <1>5, <1>6, <1>10, ReturnServes
<1>12. ~Has(e, Reports)
  BY <1>1, <1>2, EventTaken DEF e
<1>13. QED
  BY <1>4, <1>7, <1>8, <1>11, <1>12 DEF ServesInv

LEMMA HandleCompleteServes ==
  ASSUME CallsInv, ServesInv, HandleComplete
  PROVE  ServesInv' /\ host'.crashed # "connection complete but failed conn"
<1> DEFINE d == Head(events).device
           g == ConnectionComplete(host, d)
           w == Waiting(commands, events)
           x == Done(commands, events)
           ok == Has(events, Grants)
           reached == Reached(events)
           r == commands \o g.out
           e == Tail(events)
<1>1. /\ events \in Seq(Event) /\ events # <<>> /\ host.crashed = "no"
      /\ InStep(host, commands, controller.initiating, events) /\ Idle(host)
      /\ commands \in Seq(Command) /\ Head(events).type = "complete"
      /\ EventsOk(commands, events) /\ (Has(events, Reports) => commands # <<>>)
  BY DEF HandleComplete, CallsInv, ManagerTypes, InStep, ServesInv
<1>2. Head(events) \in Completions /\ d \in Device \cup {None} /\ Head(events) \notin Reports
  <2>1. Head(events) \in Event
    BY <1>1, TailFacts
  <2>2. Head(events) \in Completions /\ d \in Device \cup {None}
    BY <1>1, <2>1 DEF Completions, Event
  <2>3. Head(events) \notin Reports
    BY <1>1 DEF Reports
  <2>4. QED
    BY <2>2, <2>3
<1>3. /\ host' = [g EXCEPT !.out = <<>>] /\ commands' = r
      /\ events' = e /\ UNCHANGED <<controller, budget>>
  BY DEF HandleComplete, Returns
<1>4. host.createConnectionIsOutstanding /\ Flow(host, commands)
  BY <1>1, <1>2, CompletionTaken
<1>5. Post(g, commands)
  BY <1>1, <1>2, <1>4, CompleteFlow
<1>6. Calling(host, w, x, ok, controller, reached, budget)
  BY <1>1, ServingNow
<1>7. /\ Waiting(commands, e) = w /\ Done(commands, e) = x /\ (Has(e, Grants) <=> ok)
      /\ (Has(e, Reports) <=> Has(events, Reports)) /\ Reached(e) = {} /\ d \in reached
  BY <1>1, <1>2, ViewOfEventTaken
<1>8. Has(e, Grants) = ok
  BY <1>7, HasSame
<1>9. /\ Serving(g, w \cup Members(g.out), x, ok, controller, {}, budget)
      /\ g.crashed # "connection complete but failed conn"
  <2> HIDE DEF w, x, ok, reached, d
  <2>1. QED
    BY <1>2, <1>4, <1>6, <1>7, CompletionServes DEF Calling
<1> HIDE DEF g, d
<1>10. g.out = <<>> \/ \E m \in Command : g.out = <<m>>
  BY <1>5 DEF Post
<1>11. Waiting(r, e) = w \cup Members(g.out) /\ Done(r, e) = x
  BY <1>1, <1>7, <1>10, ViewOfCall
<1>12. Has(e, Reports) => r # <<>>
  BY <1>1, <1>7, <1>10, MembersOfSent
<1> HIDE DEF w, x, ok, reached, r, e
<1>13. Serving(host', w \cup Members(g.out), x, ok, controller, {}, budget)
  BY <1>1, <1>3, <1>5, <1>9, ReturnServes
<1>14. host'.crashed = g.crashed
  BY <1>3, <1>5 DEF Post, Host
<1>15. QED
  BY <1>3, <1>7, <1>8, <1>9, <1>11, <1>12, <1>13, <1>14 DEF ServesInv

LEMMA HandleDisconnectServes ==
  ASSUME CallsInv, ServesInv, HandleDisconnect
  PROVE  ServesInv'
<1> DEFINE w == Waiting(commands, events)
           x == Done(commands, events)
           ok == Has(events, Grants)
           reached == Reached(events)
           e == Tail(events)
<1>1. /\ events \in Seq(Event) /\ events # <<>> /\ host \in Host
      /\ Head(events).type = "gone" /\ EventsOk(commands, events)
      /\ (Has(events, Reports) => commands # <<>>)
      /\ Serving(host, w, x, ok, controller, reached, budget)
  BY DEF HandleDisconnect, CallsInv, ManagerTypes, InStep, ServesInv, Idle
<1>2. events' = e /\ UNCHANGED <<commands, controller, budget>>
  BY DEF HandleDisconnect
<1>3. SameView(host', host) /\ SameLimits(budget, budget)
  BY <1>1 DEF HandleDisconnect, Host, SameView, SameScanners, SameFlags, SameLists, SameCallFlags,
              SameLimits
<1>4. Head(events) \notin Reports /\ Head(events) \notin Completions
  BY <1>1 DEF Reports, Completions
<1>5. /\ Waiting(commands, e) = w /\ Done(commands, e) = x /\ (Has(e, Grants) <=> ok)
      /\ (Has(e, Reports) <=> Has(events, Reports)) /\ Reached(e) = reached
  BY <1>1, <1>4, ViewOfEventTaken
<1>6. Has(e, Grants) = ok
  BY <1>5, HasSame
<1> HIDE DEF w, x, ok, reached, e
<1>7. Serving(host', w, x, ok, controller, reached, budget)
  BY <1>1, <1>3, ServingKept
<1>8. QED
  BY <1>1, <1>2, <1>5, <1>6, <1>7 DEF ServesInv

\* A call of the application returns.
LEMMA CallServes ==
  ASSUME CallsInv, ServesInv, NEW g, Post(g, commands), Returns(g, commands),
         UNCHANGED <<controller, events>>,
         Serving(g, Waiting(commands, events) \cup Members(g.out), Done(commands, events),
                 Has(events, Grants), controller, Reached(events), budget')
  PROVE  ServesInv'
<1> DEFINE w == Waiting(commands, events)
           x == Done(commands, events)
           ok == Has(events, Grants)
           reached == Reached(events)
           r == commands \o g.out
<1>1. /\ commands \in Seq(Command) /\ (Has(events, Reports) => commands # <<>>)
      /\ host' = [g EXCEPT !.out = <<>>] /\ commands' = r
      /\ g.out = <<>> \/ \E m \in Command : g.out = <<m>>
  BY DEF CallsInv, ManagerTypes, ServesInv, Returns, Post
<1>2. Waiting(r, events) = w \cup Members(g.out) /\ Done(r, events) = x
  BY <1>1, ViewOfCall
<1>3. Has(events, Reports) => r # <<>>
  BY <1>1, MembersOfSent
<1>4. Serving(host', w \cup Members(g.out), x, ok, controller, reached, budget')
  <2> HIDE DEF w, x, ok, reached
  <2>1. Serving(g, w \cup Members(g.out), x, ok, controller, reached, budget')
    BY DEF w, x, ok, reached
  <2>2. QED
    BY <1>1, <2>1, ReturnServes
<1> HIDE DEF w, x, reached, r
<1>5. QED
  BY <1>1, <1>2, <1>3, <1>4 DEF ServesInv, reached

LEMMA StartScanServes ==
  ASSUME CallsInv, ServesInv, NEW s \in Scan, NEW kind, StartScan(s, kind)
  PROVE  ServesInv'
<1> DEFINE r == host.scanningNeedsRestart \/ host.currentScanFilterDuplicates
           g == TriggerScannerChange(WithScanner(host, s, kind, r))
           w == Waiting(commands, events)
           x == Done(commands, events)
           ok == Has(events, Grants)
           reached == Reached(events)
<1>1. /\ Idle(host) /\ host.crashed = "no" /\ Flow(host, commands) /\ budget \in TypeOfBudget
      /\ kind \in budget.kinds /\ host \in Host
      /\ budget' = [budget EXCEPT !.scans = @ - 1] /\ UNCHANGED <<controller, events>>
  BY DEF StartScan, CallsInv, ManagerTypes, InStep, Idle
<1>2. kind \in Kind \cup {None} /\ r \in BOOLEAN
  BY <1>1 DEF TypeOfBudget, Host
<1>3. Returns(g, commands)
  <2>1. WithScanner(host, s, kind, r) =
          [host EXCEPT !.scanners[s] = kind,
                       !.scanningNeedsRestart = @ \/ host.currentScanFilterDuplicates]
    BY <1>1 DEF WithScanner, Host
  <2>2. QED
    BY <2>1 DEF StartScan
<1> HIDE DEF r
<1>4. Post(g, commands)
  BY <1>1, <1>2, ScannersFlow
<1>5. SameLimits(budget', budget)
  BY <1>1 DEF SameLimits, TypeOfBudget
<1>6. Calling(host, w, x, ok, controller, reached, budget)
  BY <1>1, ServingNow
<1>7. Serving(g, w \cup Members(g.out), x, ok, controller, reached, budget')
  <2> HIDE DEF w, x, ok, reached
  <2>1. QED
    BY <1>1, <1>2, <1>5, <1>6, ScannerCallServes
<1> HIDE DEF g
<1>8. QED
  BY <1>1, <1>3, <1>4, <1>7, CallServes

LEMMA StopScanServes ==
  ASSUME CallsInv, ServesInv, NEW s \in Scan, StopScan(s)
  PROVE  ServesInv'
<1> DEFINE r == host.scanningNeedsRestart
           g == TriggerScannerChange(WithScanner(host, s, None, r))
           w == Waiting(commands, events)
           x == Done(commands, events)
           ok == Has(events, Grants)
           reached == Reached(events)
<1>1. /\ Idle(host) /\ host.crashed = "no" /\ Flow(host, commands)
      /\ host \in Host /\ UNCHANGED <<controller, events, budget>>
  BY DEF StopScan, CallsInv, ManagerTypes, InStep, Idle
<1>2. r \in BOOLEAN
  BY <1>1 DEF Host
<1>3. Returns(g, commands)
  <2>1. WithScanner(host, s, None, r) = [host EXCEPT !.scanners[s] = None]
    BY <1>1 DEF WithScanner, Host
  <2>2. QED
    BY <2>1 DEF StopScan
<1> HIDE DEF r
<1>4. Post(g, commands)
  BY <1>1, <1>2, ScannersFlow
<1>5. SameLimits(budget, budget)
  BY DEF SameLimits
<1>6. Calling(host, w, x, ok, controller, reached, budget)
  BY <1>1, ServingNow
<1>7. Serving(g, w \cup Members(g.out), x, ok, controller, reached, budget)
  <2> HIDE DEF w, x, ok, reached
  <2>1. QED
    BY <1>1, <1>2, <1>5, <1>6, ScannerCallServes
<1> HIDE DEF g
<1>8. QED
  BY <1>1, <1>3, <1>4, <1>7, CallServes

LEMMA DoConnectServes ==
  ASSUME CallsInv, ServesInv, NEW c \in Connect, NEW d \in Device, DoConnect(c, d)
  PROVE  ServesInv'
<1> DEFINE g == TriggerConnectionChange(WithCall(host, c, d))
           w == Waiting(commands, events)
           x == Done(commands, events)
           ok == Has(events, Grants)
           reached == Reached(events)
<1>1. /\ Idle(host) /\ host.crashed = "no" /\ Flow(host, commands) /\ budget \in TypeOfBudget
      /\ budget.connects > 0 /\ host.device[c] = None
      /\ budget' = [budget EXCEPT !.connects = @ - 1] /\ UNCHANGED <<controller, events>>
  BY DEF DoConnect, CallsInv, ManagerTypes, InStep
<1>2. Returns(g, commands)
  BY DEF DoConnect, WithCall
<1>3. Post(g, commands)
  BY <1>1, ConnectFlow
<1>4. budget.connects \in Nat /\ budget'.kinds = budget.kinds
      /\ budget'.connects = budget.connects - 1
  BY <1>1 DEF TypeOfBudget
<1>5. Calling(host, w, x, ok, controller, reached, budget)
  BY <1>1, ServingNow
<1>6. Serving(g, w \cup Members(g.out), x, ok, controller, reached, budget')
  <2> HIDE DEF w, x, ok, reached
  <2>1. QED
    BY <1>1, <1>4, <1>5, ConnectCallServes
<1> HIDE DEF g
<1>7. QED
  BY <1>1, <1>2, <1>3, <1>6, CallServes

LEMMA DoCancelServes ==
  ASSUME CallsInv, ServesInv, NEW c \in Connect, DoCancel(c)
  PROVE  ServesInv'
<1> DEFINE g == CancelOf(host, c)
           w == Waiting(commands, events)
           x == Done(commands, events)
           ok == Has(events, Grants)
           reached == Reached(events)
<1>1. /\ Idle(host) /\ host.crashed = "no" /\ Flow(host, commands)
      /\ c \in host.pending /\ UNCHANGED <<controller, events, budget>>
  BY DEF DoCancel, CallsInv, ManagerTypes, InStep
<1>2. Returns(g, commands)
  BY DEF DoCancel
<1>3. Post(g, commands)
  BY <1>1, CancelFlow
<1>4. Calling(host, w, x, ok, controller, reached, budget)
  BY <1>1, ServingNow
<1>5. Serving(g, w \cup Members(g.out), x, ok, controller, reached, budget)
  <2> HIDE DEF w, x, ok, reached
  <2>1. QED
    BY <1>1, <1>4, CancelCallServes
<1> HIDE DEF g
<1>6. QED
  BY <1>1, <1>2, <1>3, <1>5, CallServes

LEMMA ServesStep ==
  ASSUME CallsInv, ServesInv, Next
  PROVE  ServesInv'
<1>1. CallsInv'
  BY CallsStep
<1>2. CASE Execute
  BY <1>1, <1>2, ExecuteServes
<1>3. CASE Reject
  BY <1>1, <1>3, RejectServes
<1>4. QED
  BY <1>2, <1>3, EstablishServes, DropServes, HandleAnswerServes, HandleCompleteServes,
     HandleDisconnectServes, StartScanServes, StopScanServes, DoConnectServes, DoCancelServes
     DEF Next

LEMMA ServesStutter ==
  ASSUME ServesInv, UNCHANGED vars
  PROVE  ServesInv'
BY DEF ServesInv, vars

\* Nobody filters scans, or there is one connect at a time, or a list for one device.
OneUser ==
  \A b \in Budgets : \/ \A k \in b.kinds : k.filters = {}
                     \/ b.connects <= 1
                     \/ WhiteListSize <= 1

LEMMA ServesInit == OneUser /\ Init => ServesInv
<1> SUFFICES ASSUME OneUser, Init PROVE ServesInv
  OBVIOUS
<1>1. /\ commands = <<>> /\ events = <<>>
      /\ controller.initiating = None /\ controller.list = {} /\ ~controller.scanning
      /\ ~controller.active /\ ~controller.policy
  BY DEF Init
<1>2. /\ ~host.connectCommandInProgress /\ ~host.cancelCommandInProgress
      /\ ~host.createConnectionIsOutstanding /\ ~host.stopScanCallback
      /\ ~host.scannerCommandInProgress /\ host.pending = {}
      /\ ~host.scanEnabled /\ ~host.active /\ ~host.policy
      /\ host.whiteListUsage = "none" /\ host.currentWhiteList = {}
      /\ \A s \in Scan : host.scanners[s] = None
  BY DEF Init, HostInit
<1>3. \A S : ~Has(<<>>, S)
  BY EmptyQueue
<1>4. /\ Waiting(commands, events) = {} /\ Done(commands, events) = {} /\ Reached(events) = {}
      /\ ~Has(events, Reports)
  BY <1>1, <1>3, MembersOfEmpty DEF Waiting, Done, Reached
<1>5. Live(host) = {}
  BY <1>2 DEF Live
<1>6. Alone(host, {}, {}, budget)
  <2>1. CASE \A k \in budget.kinds : k.filters = {}
    BY <1>2, <1>5, <2>1 DEF Alone, NoFilters
  <2>2. CASE budget.connects <= 1 \/ WhiteListSize <= 1
    BY <1>2, <2>2 DEF Alone, NoWhiteList, FewCalls, InAttempt
  <2>3. QED
    BY <2>1, <2>2 DEF OneUser, Init
<1>7. ScanPhase(host, {}, {}, Has(events, Grants), controller)
  <2>1. host.active = controller.active /\ host.policy = controller.policy
    BY DEF Init, HostInit
  <2>2. QED
    BY <1>1, <1>2, <2>1 DEF ScanPhase
<1>8. \A who \in Who : ListPhase(host, {}, {}, Has(events, Grants), controller.list, who)
  BY DEF ListPhase
<1>9. Goal(host, {}, {}, controller, {})
  BY <1>2 DEF Goal, InAttempt
<1>10. Settled(host) /\ AtRest(host) /\ IsFiniteSet(host.pending)
  BY <1>2, <1>5, FS_EmptySet DEF Settled, AtRest
<1>11. Agree(host, {}, {}, controller.list)
  BY <1>1, <1>2 DEF Agree
<1>12. Serving(host, {}, {}, Has(events, Grants), controller, {}, budget)
  BY <1>6, <1>7, <1>8, <1>9, <1>10, <1>11 DEF Serving, Held
<1>13. QED
  BY <1>4, <1>12 DEF ServesInv

\* What the flags of the manager, the commands under way and the controller have to do
\* with one another, when no scan and no attempt share the white list.
THEOREM UsersServed == OneUser => (Spec => [](CallsInv /\ ServesInv))
<1>1. CallsInv /\ ServesInv /\ [Next]_vars => (CallsInv /\ ServesInv)'
  BY CallsStep, CallsStutter, ServesStep, ServesStutter
<1>2. OneUser /\ Init => CallsInv /\ ServesInv
  BY CallsInit, ServesInit
<1>3. QED
  BY <1>1, <1>2, PTL DEF Spec

\* What the controller has done and has not yet done are the commands in the queue.
LEMMA AllCommands ==
  ASSUME CallsInv, ServesInv
  PROVE  Waiting(commands, events) \cup Done(commands, events) = Members(commands)
<1>1. commands \in Seq(Command) /\ (Has(events, Reports) => commands # <<>>)
  BY DEF CallsInv, ManagerTypes, ServesInv
<1>2. commands # <<>> => Members(commands) = {Head(commands)} \cup Members(Tail(commands))
  BY <1>1, MembersOfTail
<1>3. QED
  BY <1>1, <1>2 DEF Waiting, Done

LEMMA ListsAgreeNow ==
  ASSUME CallsInv, ServesInv
  PROVE  ListsAgree
<1> SUFFICES ASSUME \A i \in DOMAIN commands : ~ListCommand(commands[i])
             PROVE  host.currentWhiteList = controller.list
  BY DEF ListsAgree
<1>1. Members(commands) \cap ListCommandBy = {}
  BY DEF Members, ListCommand, ListCommandBy, ListBy
<1>2. Agree(host, Waiting(commands, events), Done(commands, events), controller.list)
  BY DEF ServesInv, Serving
<1>3. QED
  BY <1>1, <1>2, AllCommands DEF Agree

LEMMA ScanServesNow ==
  ASSUME CallsInv, ServesInv
  PROVE  ScanServesEveryScanner
<1> DEFINE w == Waiting(commands, events)
           x == Done(commands, events)
           ok == Has(events, Grants)
           reached == Reached(events)
<1> SUFFICES ASSUME host.crashed = "no", ~host.scannerCommandInProgress
             PROVE  /\ controller.scanning <=> Live(host) # {}
                    /\ \A s \in Live(host) : Serves(host.scanners[s])
  BY DEF ScanServesEveryScanner
<1>1. Calling(host, w, x, ok, controller, reached, budget)
  BY ServingNow
<1>2. Tidy(host, w, x, ok, controller.initiating, reached)
  BY <1>1 DEF Calling
<1> HIDE DEF w, x, ok, reached
<1>3. /\ host \in Host /\ ScanPhase(host, w, x, ok, controller) /\ Settled(host)
      /\ Alone(host, w, x, budget) /\ Agree(host, w, x, controller.list)
  BY <1>1, CallingIs
<1>4. (w \cup x) \cap ScannerOps = {}
  BY <1>2 DEF Tidy
<1>5. Params \subseteq ScannerOps /\ ListBy("scanner") \subseteq ScannerOps
  BY Sorts
<1>6. /\ host.scanEnabled <=> controller.scanning
      /\ host.active = controller.active /\ host.policy = controller.policy
  BY <1>3, <1>4, <1>5 DEF ScanPhase
<1>7. /\ host.scanEnabled <=> Live(host) # {}
      /\ host.scanEnabled =>
           /\ host.active <=> \E s \in Live(host) : host.scanners[s].active
           /\ host.policy => /\ \A s \in Live(host) : host.scanners[s].filters # {}
                             /\ host.currentWhiteList = LiveFilters(host)
  BY <1>3 DEF Settled
<1>8. ASSUME host.policy
      PROVE  host.currentWhiteList = controller.list
  <2>1. ~NoFilters(host, w, x, budget)
    BY <1>8 DEF NoFilters
  <2>2. (w \cup x) \cap ListBy("scanner") = {}
    BY <1>4, <1>5
  <2>3. QED
    BY <1>3, <2>1, <2>2, ScannerListAlone
<1>9. ASSUME NEW s \in Live(host)
      PROVE  Serves(host.scanners[s])
  <2>1. controller.scanning
    BY <1>6, <1>7
  <2>2. host.scanners[s].active => controller.active
    BY <1>6, <1>7
  <2>3. ASSUME controller.policy
        PROVE  /\ host.scanners[s].filters # {}
               /\ host.scanners[s].filters \subseteq controller.list
    <3>1. host.policy /\ host.scanEnabled
      BY <1>6, <1>7, <2>3
    <3>2. host.scanners[s].filters \subseteq LiveFilters(host)
      BY DEF LiveFilters
    <3>3. QED
      BY <1>7, <1>8, <3>1, <3>2
  <2>4. QED
    BY <2>1, <2>2, <2>3 DEF Serves
<1>10. QED
  BY <1>6, <1>7, <1>9

LEMMA InitiatorServesNow ==
  ASSUME CallsInv, ServesInv
  PROVE  InitiatorServesEveryConnect
<1> DEFINE w == Waiting(commands, events)
           x == Done(commands, events)
           ok == Has(events, Grants)
           reached == Reached(events)
<1> SUFFICES ASSUME host.crashed = "no", ~host.connectCommandInProgress,
                    ~host.cancelCommandInProgress,
                    \A i \in DOMAIN events : events[i].type # "complete"
             PROVE  Targets = Wanted(host)
  BY DEF InitiatorServesEveryConnect
<1>1. reached = {}
  BY DEF Reached, Members, Completions
<1>2. Calling(host, w, x, ok, controller, reached, budget)
  BY ServingNow
<1>3. Tidy(host, w, x, ok, controller.initiating, reached)
  BY <1>2 DEF Calling
<1> HIDE DEF w, x, ok, reached
<1>4. /\ host \in Host /\ AtRest(host) /\ Agree(host, w, x, controller.list)
      /\ Held(host, w, x, ok, controller, reached, budget)
      /\ controller.initiating # None \/ reached # {} => InAttempt(host)
  BY <1>2, CallingIs DEF Calling, Serving
<1>5. /\ controller.initiating # None \/ reached # {} <=>
           host.createConnectionIsOutstanding \/ (ok /\ x \cap CreateOps # {})
      /\ host.connectCommandInProgress <=>
           host.stopScanCallback \/ (w \cup x) \cap InitiatorOps # {}
  BY <1>3 DEF Tidy
<1>6. x \cap CreateOps = {}
  BY <1>5, Sorts
<1>7. controller.initiating # None <=> host.createConnectionIsOutstanding
  BY <1>1, <1>5, <1>6
<1>8. CASE controller.initiating = None
  <2>1. host.pending = {}
    BY <1>4, <1>7, <1>8 DEF AtRest
  <2>2. QED
    BY <1>8, <2>1 DEF Targets, Wanted
<1>9. CASE controller.initiating # None
  <2>1. Targets = host.attempt.devices
    BY <1>3, <1>4, <1>9, TargetsAreWanted
  <2>2. host.attempt.devices = Wanted(host)
    BY <1>4, <1>7, <1>9 DEF AtRest
  <2>3. QED
    BY <2>1, <2>2
<1>10. QED
  BY <1>8, <1>9

\* Between two changes of it, the white list the manager believes in is the one of the
\* controller, for any number of devices, whichever of the commands failed.
THEOREM WhiteListsAgree == OneUser => (Spec => []ListsAgree)
<1>1. QED
  BY UsersServed, ListsAgreeNow, PTL

\* Between two commands for it, the scan is what every live scanner needs.
THEOREM ScannersServed == OneUser => (Spec => []ScanServesEveryScanner)
<1>1. QED
  BY UsersServed, ScanServesNow, PTL

\* At rest, the controller looks for exactly the devices that somebody waits for.
THEOREM ConnectsServed == OneUser => (Spec => []InitiatorServesEveryConnect)
<1>1. QED
  BY UsersServed, InitiatorServesNow, PTL

-----------------------------------------------------------------------------
(* Why the process ends. *)

Foreigner == "connection complete but failed conn"

LEMMA ScannerChangeGoesOn ==
  ASSUME NEW m, Idle(m), m.stopScanCallback => m.attempt \in Attempt
  PROVE  TriggerScannerChange(m).crashed = m.crashed
<1> DEFINE g == TriggerScannerChange(m)
<1>1. LeavesScan(g, m) \/ StopsScan(g, m) \/ SetsScan(g, m) \/ ResumesAttempt(g, m)
  BY TriggerScannerChangeDoes
<1> HIDE DEF g
<1>2. g.crashed = m.crashed
  BY <1>1 DEF LeavesScan, StopsScan, SetsScan, ResumesAttempt, SameFlags
<1>3. QED
  BY <1>2 DEF g

LEMMA ConnectionChangeEnds ==
  ASSUME NEW m, Idle(m), PendingAreCalls(m)
  PROVE  TriggerConnectionChange(m).crashed \in {m.crashed, "startScan"}
<1> DEFINE g == TriggerConnectionChange(m)
<1>1. LacksRoom(g, m) \/ KeepsAttempt(g, m) \/ CancelsAttempt(g, m) \/ BeginsAttempt(g, m)
  BY TriggerConnectionChangeDoes
<1> HIDE DEF g
<1>2. g.crashed \in {m.crashed, "startScan"}
  BY <1>1 DEF LacksRoom, KeepsAttempt, CancelsAttempt, BeginsAttempt, SameFlags
<1>3. QED
  BY <1>2 DEF g

\* A call that is pending has a device.
LEMMA PendingCalls ==
  ASSUME NEW h \in Host, CallsOk(h)
  PROVE  PendingAreCalls(h)
BY DEF Host, CallsOk, PendingAreCalls

LEMMA AnswerEnds ==
  ASSUME NEW h, Idle(h), h.crashed = "no", NEW q, Flow(h, q), q # <<>>, NEW ok \in BOOLEAN
  PROVE  LET c == Head(q)
             g == CASE c.op \in {"scanOff", "scanOn", "scanParameters"} -> ScanAnswer(h, c, ok)
                    [] c.op = "create" -> CreateAnswer(h, c, ok)
                    [] c.op = "cancel" -> h
                    [] OTHER -> ListAnswer(h, c, ok)
         IN g.crashed # Foreigner
<1> DEFINE c == Head(q)
           g == CASE c.op \in {"scanOff", "scanOn", "scanParameters"} -> ScanAnswer(h, c, ok)
                  [] c.op = "create" -> CreateAnswer(h, c, ok)
                  [] c.op = "cancel" -> h
                  [] OTHER -> ListAnswer(h, c, ok)
<1>1. /\ c \in Command /\ QueueOk(h, q) /\ CallsOk(h) /\ h \in Host /\ PendingAreCalls(h)
      /\ h.stopScanCallback => h.attempt \in Attempt
  BY TailFacts, PendingCalls DEF Flow, QueueOk, Idle, CallsOk
<1>2. c.op \in {"scanOff", "scanOn", "scanParameters", "create", "cancel"} \/ c.op \in ListOp
  BY <1>1, FirstCommand
<1>3. CASE c.op \in {"scanOff", "scanOn", "scanParameters"}
  <2> DEFINE k == [h EXCEPT !.scannerCommandInProgress = FALSE]
             s == ScanAnswer(h, c, ok)
  <2> SUFFICES s.crashed # Foreigner
    BY <1>3
  <2>1. /\ Idle(k) /\ k.crashed = "no" /\ k \in Host
        /\ k.stopScanCallback = h.stopScanCallback /\ k.attempt = h.attempt
        /\ k.scanChange = h.scanChange
    BY DEF Idle, Host, OwnUpdates
  <2>2. CASE c.op = "scanOff"
    <3> DEFINE u == IF k.whiteListUsage = "scanner" THEN "none" ELSE k.whiteListUsage
               m == [k EXCEPT !.scanEnabled = FALSE, !.whiteListUsage = u]
    <3>1. s = TriggerScannerChange(m)
      BY <2>1, <2>2 DEF ScanAnswer, ScanIsOff, Host
    <3>2. u \in User
      BY <2>1 DEF User, Host
    <3> HIDE DEF u, k
    <3>3. /\ Idle(m) /\ m.crashed = "no" /\ m.stopScanCallback = k.stopScanCallback
          /\ m.attempt = k.attempt
      BY <2>1, <3>2 DEF Idle, Host, OwnUpdates
    <3> HIDE DEF m
    <3>4. s.crashed = "no"
      BY <1>1, <2>1, <3>1, <3>3, ScannerChangeGoesOn
    <3>5. QED
      BY <3>4 DEF Foreigner
  <2>3. CASE c.op # "scanOff" /\ ~ok
    <3>1. s = Crash(k, "scanningFailed")
      BY <1>3, <2>3 DEF ScanAnswer
    <3> HIDE DEF k
    <3>2. QED
      BY <2>1, <3>1 DEF Crash, Foreigner, Host
  <2>4. CASE c.op = "scanParameters" /\ ok
    <3> DEFINE m == [k EXCEPT !.active = c.active, !.policy = c.policy]
    <3>1. s = ContWhiteList(m)
      BY <2>4 DEF ScanAnswer
    <3>2. c.active \in BOOLEAN /\ c.policy \in BOOLEAN
      BY <1>1, <2>4 DEF Command, CreateCommand, ListCommandBy, ListBy, ListOp
    <3>3. h.scanChange \in Change
      <4>1. c \in ScannerWork
        BY <1>1, <2>4 DEF ScannerWork
      <4>2. QED
        BY <1>1, <4>1, TailHas DEF QueueOk
    <3> HIDE DEF k
    <3>4. Idle(m) /\ m.crashed = "no" /\ m.scanChange \in Change
      BY <2>1, <3>2, <3>3 DEF Idle, Host, OwnUpdates
    <3> HIDE DEF m
    <3>5. SameFlags(s, m)
      BY <3>1, <3>4, ContWhiteListDoes
    <3>6. QED
      BY <3>4, <3>5 DEF SameFlags, Foreigner
  <2>5. CASE c.op = "scanOn" /\ ok
    <3> DEFINE m == [k EXCEPT !.scanEnabled = TRUE]
    <3>1. s = TriggerScannerChange(m)
      BY <2>5 DEF ScanAnswer, Recheck
    <3> HIDE DEF k
    <3>2. /\ Idle(m) /\ m.crashed = "no" /\ m.stopScanCallback = k.stopScanCallback
          /\ m.attempt = k.attempt
      BY <2>1 DEF Idle, Host, OwnUpdates
    <3> HIDE DEF m
    <3>3. s.crashed = "no"
      BY <1>1, <2>1, <3>1, <3>2, ScannerChangeGoesOn
    <3>4. QED
      BY <3>3 DEF Foreigner
  <2>6. QED
    BY <1>3, <2>2, <2>3, <2>4, <2>5
<1>4. CASE c.op = "create"
  <2> DEFINE s == CreateAnswer(h, c, ok)
  <2> SUFFICES s.crashed # Foreigner
    BY <1>4
  <2>1. CASE ok
    <3> DEFINE k == [h EXCEPT !.connectCommandInProgress = FALSE]
               m == [k EXCEPT !.createConnectionIsOutstanding = TRUE]
    <3>1. s = IF CancelledInAttempt(h) # {} THEN SendCancel(m) ELSE TriggerConnectionChange(m)
      BY <2>1 DEF CreateAnswer, AttemptStarted, CancelledInAttempt
    <3>2. Idle(m) /\ m.crashed = "no" /\ m.pending = h.pending /\ m.device = h.device
      BY <1>1 DEF Idle, Host, OwnUpdates
    <3> HIDE DEF m
    <3>3. PendingAreCalls(m)
      BY <1>1, <3>2 DEF PendingAreCalls
    <3>4. CASE s = SendCancel(m)
      <4>1. SameFlags(s, m)
        BY <3>2, <3>4, SendCancelDoes
      <4>2. QED
        BY <3>2, <4>1 DEF SameFlags, Foreigner
    <3>5. CASE s = TriggerConnectionChange(m)
      BY <3>2, <3>3, <3>5, ConnectionChangeEnds DEF Foreigner
    <3>6. QED
      BY <3>1, <3>4, <3>5
  <2>2. CASE ~ok
    <3>1. ok = FALSE
      BY <2>2
    <3>2. PICK m : AttemptRefused(m, h) /\ s = TriggerConnectionChange(m)
      BY <3>1, CreateRefusedDoes
    <3>3. Idle(m) /\ m.crashed = "no" /\ PendingAreCalls(m)
      BY <1>1, <3>2 DEF AttemptRefused, Idle, PendingAreCalls
    <3>4. QED
      BY <3>2, <3>3, ConnectionChangeEnds DEF Foreigner
  <2>3. QED
    BY <2>1, <2>2
<1>5. CASE c.op = "cancel"
  BY <1>5 DEF Foreigner
<1>6. CASE c.op \in ListOp
  <2> DEFINE s == ListAnswer(h, c, ok)
  <2>1. PICK who \in Who : c \in ListBy(who) /\ Ready(h, who)
    BY <1>6, ListReady
  <2>2. CASE c.last
    <3>1. Fallback(s, h, who)
      BY <2>1, <2>2, LastListAnswerDoes
    <3> HIDE DEF s
    <3>2. s.crashed # Foreigner
      BY <3>1 DEF Fallback, Foreigner
    <3>3. QED
      BY <1>6, <3>2 DEF ListOp, s
  <2>3. CASE ~c.last
    <3>1. SameButList(s, h)
      BY <2>1, <2>3, ListAnswerDoes
    <3> HIDE DEF s
    <3>2. s.crashed # Foreigner
      BY <3>1 DEF SameButList, SameFlags, Foreigner
    <3>3. QED
      BY <1>6, <3>2 DEF ListOp, s
  <2>4. QED
    BY <2>2, <2>3
<1>7. QED
  BY <1>2, <1>3, <1>4, <1>5, <1>6

\* No call of the application has the manager find a connection nobody asked for.
LEMMA CallEnds ==
  ASSUME NEW g, NEW rest, Returns(g, rest), g \in Host, g.crashed # Foreigner
  PROVE  host'.crashed # Foreigner
BY DEF Returns, Host

LEMMA ScannerCallEnds ==
  ASSUME CallsInv, host.crashed = "no",
         NEW s \in Scan, NEW kind \in Kind \cup {None}, NEW r \in BOOLEAN
  PROVE  LET g == TriggerScannerChange(WithScanner(host, s, kind, r))
         IN g \in Host /\ g.crashed # Foreigner
<1> DEFINE m == WithScanner(host, s, kind, r)
           g == TriggerScannerChange(m)
<1>0. m = WithScanner(host, s, kind, r)
  OBVIOUS
<1>1. /\ Idle(host) /\ CallsOk(host)
  BY DEF CallsInv, ManagerTypes, InStep, Flow
<1> HIDE DEF m
<1>2. Idle(m) /\ SameCalls(m, host) /\ SameFlags(m, host)
  BY <1>0, <1>1, WithScannerIs
<1>3. m.stopScanCallback => m.attempt \in Attempt
  BY <1>1, <1>2 DEF CallsOk, SameCalls, SameFlags
<1>4. g \in Host /\ g.crashed = "no"
  BY <1>2, <1>3, TriggerScannerChangeDoes, ScannerChangeGoesOn DEF SameFlags
<1> HIDE DEF g
<1>5. g \in Host /\ g.crashed # Foreigner
  BY <1>4 DEF Foreigner
<1>6. QED
  BY <1>5 DEF g, m

LEMMA ConnectionCallEnds ==
  ASSUME NEW m, Idle(m), PendingAreCalls(m), m.crashed = "no"
  PROVE  LET g == TriggerConnectionChange(m)
         IN g \in Host /\ g.crashed # Foreigner
BY TriggerConnectionChangeDoes, ConnectionChangeEnds DEF Foreigner

LEMMA DoConnectEnds ==
  ASSUME CallsInv, NEW c \in Connect, NEW d \in Device, DoConnect(c, d)
  PROVE  host'.crashed # Foreigner
<1> DEFINE m == WithCall(host, c, d)
           g == TriggerConnectionChange(m)
<1>1. /\ Idle(host) /\ host.crashed = "no" /\ PendingAreCalls(host) /\ host \in Host
  BY PendingCalls DEF DoConnect, CallsInv, ManagerTypes, InStep, Flow, Idle
<1>2. Returns(g, commands)
  BY DEF DoConnect, WithCall
<1>3. /\ Idle(m) /\ SameFlags(m, host)
      /\ m.pending = host.pending \cup {c} /\ m.device = [host.device EXCEPT ![c] = d]
  BY <1>1, WithCallIs
<1> HIDE DEF m
<1>4. PendingAreCalls(m)
  <2>1. host.device \in [Connect -> Device \cup {None}] /\ host.pending \subseteq Connect
    BY <1>1 DEF Host
  <2>2. d # None
    BY ManagerAssumption
  <2>3. \A o \in host.pending : host.device[o] # None
    BY <1>1 DEF PendingAreCalls
  <2>4. \A o \in host.pending \cup {c} : m.device[o] # None
    BY <1>3, <2>1, <2>2, <2>3
  <2>5. QED
    BY <1>3, <2>4 DEF PendingAreCalls
<1>5. g \in Host /\ g.crashed # Foreigner
  BY <1>1, <1>3, <1>4, ConnectionCallEnds DEF SameFlags
<1> HIDE DEF g
<1>6. QED
  BY <1>2, <1>5, CallEnds

LEMMA DoCancelEnds ==
  ASSUME CallsInv, NEW c \in Connect, DoCancel(c)
  PROVE  host'.crashed # Foreigner
<1> DEFINE k == WithCancel(host, c)
           g == CancelOf(host, c)
<1>1. /\ Idle(host) /\ host.crashed = "no" /\ PendingAreCalls(host)
  BY PendingCalls DEF DoCancel, CallsInv, ManagerTypes, InStep, Flow, Idle
<1>2. Returns(g, commands)
  BY DEF DoCancel
<1>3. Idle(k) /\ SameFlags(k, host) /\ k.pending = host.pending /\ k.device = host.device
  BY <1>1, WithCancelIs
<1>4. g = IF c \in host.connecting
          THEN IF host.createConnectionIsOutstanding /\ ~host.cancelCommandInProgress
               THEN SendCancel(k) ELSE k
          ELSE TriggerConnectionChange(Cancelled(k, {c}))
  BY DEF CancelOf, WithCancel
<1> HIDE DEF k, g
<1>5. CASE g = SendCancel(k)
  <2>1. g \in Host /\ SameFlags(g, k)
    BY <1>3, <1>5, SendCancelDoes
  <2>2. g.crashed # Foreigner
    BY <1>1, <1>3, <2>1 DEF SameFlags, Foreigner
  <2>3. QED
    BY <1>2, <2>1, <2>2, CallEnds
<1>6. CASE g = k
  <2>1. g \in Host /\ g.crashed # Foreigner
    BY <1>1, <1>3, <1>6 DEF Idle, SameFlags, Foreigner
  <2>2. QED
    BY <1>2, <2>1, CallEnds
<1>7. CASE g = TriggerConnectionChange(Cancelled(k, {c}))
  <2> DEFINE m == Cancelled(k, {c})
  <2>1. /\ Idle(m) /\ m.pending = k.pending \ {c} /\ m.crashed = k.crashed
        /\ m.device = k.device
    BY <1>3, CancelledDoes DEF Idle
  <2> HIDE DEF m
  <2>2. PendingAreCalls(m) /\ m.crashed = "no"
    BY <1>1, <1>3, <2>1 DEF PendingAreCalls, SameFlags
  <2>3. g \in Host /\ g.crashed # Foreigner
    BY <1>7, <2>1, <2>2, ConnectionCallEnds DEF m
  <2>4. QED
    BY <1>2, <2>3, CallEnds
<1>8. QED
  BY <1>4, <1>5, <1>6, <1>7

LEMMA HandleAnswerEnds ==
  ASSUME CallsInv, HandleAnswer
  PROVE  host'.crashed # Foreigner
<1>1. /\ events \in Seq(Event) /\ events # <<>> /\ host.crashed = "no" /\ Idle(host)
      /\ commands \in Seq(Command) /\ Head(events).type = "answer"
      /\ Flow(host, commands) /\ EventsOk(commands, events)
  BY DEF HandleAnswer, CallsInv, ManagerTypes, InStep
<1>2. Head(events) \in Reports /\ Head(events).ok \in BOOLEAN
  <2>1. Head(events) \in Event
    BY <1>1, TailFacts
  <2>2. QED
    BY <1>1, <2>1 DEF Reports, Event
<1>3. commands # <<>>
  <2>1. Has(events, Reports)
    BY <1>1, <1>2, TailHas
  <2>2. QED
    BY <1>1, <2>1 DEF EventsOk
<1> DEFINE c == Head(commands)
           ok == Head(events).ok
           g == CASE c.op \in {"scanOff", "scanOn", "scanParameters"} -> ScanAnswer(host, c, ok)
                  [] c.op = "create" -> CreateAnswer(host, c, ok)
                  [] c.op = "cancel" -> host
                  [] OTHER -> ListAnswer(host, c, ok)
<1>4. Returns(g, Tail(commands))
  BY DEF HandleAnswer
<1>5. g.crashed # Foreigner /\ Post(g, Tail(commands))
  BY <1>1, <1>2, <1>3, AnswerEnds, AnswerFlow
<1> HIDE DEF g
<1>6. g \in Host
  BY <1>5 DEF Post
<1>7. QED
  BY <1>4, <1>5, <1>6, CallEnds

LEMMA ForeignStep ==
  ASSUME CallsInv, ServesInv, host.crashed # Foreigner, Next
  PROVE  host'.crashed # Foreigner
<1>1. CASE UNCHANGED host
  BY <1>1
<1>2. CASE HandleAnswer
  BY <1>2, HandleAnswerEnds
<1>3. CASE HandleComplete
  BY <1>3, HandleCompleteServes DEF Foreigner
<1>4. CASE HandleDisconnect
  <2>1. host \in Host
    BY DEF CallsInv, ManagerTypes, Idle
  <2>2. QED
    BY <1>4, <2>1 DEF HandleDisconnect, Host
<1>5. ASSUME NEW s \in Scan, NEW kind \in budget.kinds, StartScan(s, kind)
      PROVE  host'.crashed # Foreigner
  <2> DEFINE r == host.scanningNeedsRestart \/ host.currentScanFilterDuplicates
             g == TriggerScannerChange(WithScanner(host, s, kind, r))
  <2>1. host.crashed = "no" /\ host \in Host /\ kind \in Kind \cup {None} /\ r \in BOOLEAN
    BY <1>5 DEF StartScan, CallsInv, ManagerTypes, Idle, TypeOfBudget, Host
  <2>2. WithScanner(host, s, kind, r) =
          [host EXCEPT !.scanners[s] = kind,
                       !.scanningNeedsRestart = @ \/ host.currentScanFilterDuplicates]
    BY <2>1 DEF WithScanner, Host
  <2>3. Returns(g, commands)
    BY <1>5, <2>2 DEF StartScan
  <2> HIDE DEF r
  <2>4. g \in Host /\ g.crashed # Foreigner
    BY <2>1, ScannerCallEnds
  <2> HIDE DEF g
  <2>5. QED
    BY <2>3, <2>4, CallEnds
<1>6. ASSUME NEW s \in Scan, StopScan(s)
      PROVE  host'.crashed # Foreigner
  <2> DEFINE r == host.scanningNeedsRestart
             g == TriggerScannerChange(WithScanner(host, s, None, r))
  <2>1. host.crashed = "no" /\ host \in Host /\ r \in BOOLEAN
    BY <1>6 DEF StopScan, CallsInv, ManagerTypes, Idle, Host
  <2>2. WithScanner(host, s, None, r) = [host EXCEPT !.scanners[s] = None]
    BY <2>1 DEF WithScanner, Host
  <2>3. Returns(g, commands)
    BY <1>6, <2>2 DEF StopScan
  <2> HIDE DEF r
  <2>4. g \in Host /\ g.crashed # Foreigner
    BY <2>1, ScannerCallEnds
  <2> HIDE DEF g
  <2>5. QED
    BY <2>3, <2>4, CallEnds
<1>7. QED
  BY <1>1, <1>2, <1>3, <1>4, <1>5, <1>6, DoConnectEnds, DoCancelEnds
     DEF Next, Execute, Reject, Establish, Drop

\* The exception that ends the process when a device is connected that nobody waits for
\* is never thrown.
THEOREM NobodyIsForeign == OneUser => (Spec => []NoForeignConnection)
<1> DEFINE Inv == CallsInv /\ ServesInv /\ host.crashed # Foreigner
<1>1. OneUser /\ Init => Inv
  BY CallsInit, ServesInit DEF Init, HostInit, Foreigner
<1>2. Inv /\ [Next]_vars => Inv'
  <2>1. Inv /\ Next => Inv'
    BY CallsStep, ServesStep, ForeignStep
  <2>2. Inv /\ UNCHANGED vars => Inv'
    BY CallsStutter, ServesStutter DEF vars
  <2>3. QED
    BY <2>1, <2>2
<1>3. Inv => NoForeignConnection
  BY DEF NoForeignConnection, Foreigner
<1>4. QED
  BY <1>1, <1>2, <1>3, PTL DEF Spec
=============================================================================
