------------------------------ MODULE GattClient ------------------------------
(***************************************************************************)
(* The GATT client of one connection (GattConnection and RangeMap in       *)
(* lib/internal/gatt.js): the queue of procedures, the cache of services   *)
(* that discoveries fill and invalidations clear, and writes with and      *)
(* without a reliable write, against a server whose services may change.   *)
(* Handles go from 1 to MaxHandle, which stands for 0xffff.  Descriptors   *)
(* are discovered by the same loop as characteristics and are left out,    *)
(* and so are values: a read changes no state of the client.               *)
(***************************************************************************)
EXTENDS Naturals, Sequences, SequencesExt, FiniteSetsExt

CONSTANTS
  None,
  Uuid,         \* of services
  MaxHandle,
  Databases,    \* sets of services the peer may have
  NumsToFind,   \* what users pass to discoverServicesByUuid
  Invalidations,\* ranges users invalidate
  Budgets       \* bound: [calls |-> calls of users, changes |-> of the database, of |-> kinds of calls]

Whole == [start |-> 1, end |-> MaxHandle]
ASSUME ClientAssumption ==
  /\ MaxHandle \in Nat /\ NumsToFind \subseteq Nat
  /\ Whole \in Invalidations
  /\ \A d \in Databases : \A s \in d : s.start \in 1 .. s.end /\ s.end <= MaxHandle

VARIABLES
  cache,    \* [hasAll, all, sec, byUuid]: range maps are sequences of ranges
  details,  \* what service objects know: the characteristics and included services found
  queue,    \* requestQueue
  current,  \* the procedure under way, or Idle: hasPendingRequest
  inReliableWrite,
  db,       \* the peer: its services, and whether pieces of writes wait for an execution
  staged,
  gen,      \* history: how often the cache was cleared, ...
  fresh,    \* ... whether the services are those of the time it was, ...
  answer,   \* ... what the last discovery answered, ...
  turn,     \* ... and the parity of the steps of the queue
  budget
clientVars == <<cache, details, queue, current, inReliableWrite, db, staged, gen, fresh, answer, turn, budget>>

Many == MaxHandle                    \* numToFind of a full discovery
Idle == [phase |-> "idle"]
Empty == [hasAll |-> FALSE, all |-> <<>>, sec |-> <<>>, byUuid |-> [u \in Uuid |-> None]]
ClientInit ==
  /\ cache = Empty /\ details = {} /\ queue = <<>> /\ current = Idle
  /\ inReliableWrite = FALSE /\ staged = FALSE
  /\ db \in Databases
  /\ gen = 0 /\ fresh = TRUE /\ answer = None /\ turn = 0
  /\ budget \in Budgets
-----------------------------------------------------------------------------
(* RangeMap.  A range is a hole, a service, or, after a slip of the source, *)
(* the map item of a service where the service itself was meant.           *)

Hole(start, end) == [start |-> start, end |-> end, uuid |-> None, kind |-> "hole"]
Service(start, end, uuid) == [start |-> start, end |-> end, uuid |-> uuid, kind |-> "service"]
Lost == "no uuid"          \* of a service made for an include: the argument is left out

Covering(map, handle) == {i \in DOMAIN map : map[i].start <= handle /\ handle <= map[i].end}
Get(map, handle) == map[Min(Covering(map, handle))]
Has(map, handle) == Covering(map, handle) # {}
Without(map, handle) == IF Has(map, handle) THEN RemoveAt(map, Min(Covering(map, handle))) ELSE map
Insert(map, range) ==
  LET after == {i \in DOMAIN map : range.end < map[i].start}
  IN InsertAt(map, IF after = {} THEN Len(map) + 1 ELSE Min(after), range)

\* op folded over a sequence from the left, as a function of how much of it was taken.
Folded(op(_, _), base, seq) ==
  LET after[i \in 0 .. Len(seq)] == IF i = 0 THEN base ELSE LET before == after[i - 1] IN op(before, seq[i])
  IN after[Len(seq)]

\* The gaps of a map up to a handle, in order.
Gaps(map, upTo) ==
  LET inside == SelectSeq(map, LAMBDA r : r.start <= upTo)
      gap(i) == [start |-> IF i = 1 THEN 1 ELSE inside[i - 1].end + 1,
                 end |-> IF i > Len(inside) THEN upTo ELSE inside[i].start - 1]
  IN SelectSeq([i \in 1 .. Len(inside) + 1 |-> gap(i)], LAMBDA g : g.start <= g.end)
FillHoles(map, upTo) == Folded(LAMBDA m, g : Insert(m, Hole(g.start, g.end)), map, Gaps(map, upTo))

Created(c, s) ==
  [c EXCEPT !.all = Insert(@, s),
            !.byUuid[s.uuid] = Insert(IF @ = None THEN <<>> ELSE @, s)]
CreatedSecondary(c, s) == [c EXCEPT !.sec = Insert(@, s)]
\* A service that was met as an included one: its map item becomes the value.
Moved(c, handle) ==
  LET s == Get(c.sec, handle)
  IN [c EXCEPT !.all = Insert(@, [s EXCEPT !.kind = "item"]), !.sec = Without(@, s.start)]
-----------------------------------------------------------------------------
(* The queue. *)

Return(op, what) == /\ answer' = [op |-> op, what |-> what, gen |-> gen]
                    /\ current' = [op |-> op, phase |-> "returned"]
Quietly(op) == current' = [op |-> op, phase |-> "returned"] /\ UNCHANGED answer
Throw(op) == current' = [op |-> op, phase |-> "thrown"] /\ UNCHANGED answer
Ask(op, state) == current' = [op |-> op, phase |-> "asking", state |-> state] /\ UNCHANGED answer

\* What the services of a map look like to the user: an item has no service.
Found(map) ==
  LET known == SelectSeq(map, LAMBDA r : r.kind # "hole")
  IN [i \in DOMAIN known |-> IF known[i].kind = "service" THEN known[i].start ELSE None]
FoundInAll(uuid) ==
  Found(SelectSeq(cache.all, LAMBDA r : uuid = None \/ (r.kind = "service" /\ r.uuid = uuid)))
MapOf(c, uuid) == IF uuid = None THEN c.all ELSE IF c.byUuid[uuid] = None THEN <<>> ELSE c.byUuid[uuid]
NumFound(map) == Cardinality({i \in DOMAIN map : map[i].kind # "hole"})
Asked(c, uuid) == IF uuid = None THEN c ELSE [c EXCEPT !.byUuid[uuid] = MapOf(c, uuid)]
\* Slip: everything counts as checked, also when the search stopped early.
CheckedTooFar(c, op, upTo) ==
  IF upTo = 0 THEN c
  ELSE IF op.uuid # None THEN [c EXCEPT !.byUuid[op.uuid] = FillHoles(@, MaxHandle)]
  ELSE [c EXCEPT !.all = FillHoles(@, upTo), !.hasAll = @ \/ op.num >= Many,
                 !.byUuid = [u \in Uuid |-> IF @[u] = None THEN None ELSE FillHoles(@[u], upTo)]]
\* Slip: a search for one UUID counts as one for all services.
CheckedAsAll(c, op, upTo) ==
  IF upTo = 0 THEN c
  ELSE IF op.uuid # None THEN [c EXCEPT !.byUuid[op.uuid] = FillHoles(@, upTo), !.hasAll = @ \/ op.num >= Many]
  ELSE [c EXCEPT !.all = FillHoles(@, upTo), !.hasAll = @ \/ op.num >= Many,
                 !.byUuid = [u \in Uuid |-> IF @[u] = None THEN None ELSE FillHoles(@[u], upTo)]]
\* A whole range was checked: what lies between the services is known to be empty.
Checked(c, op, upTo) ==
  IF upTo = 0 THEN c
  ELSE IF op.uuid # None THEN [c EXCEPT !.byUuid[op.uuid] = FillHoles(@, upTo)]
  ELSE [c EXCEPT !.all = FillHoles(@, upTo), !.hasAll = @ \/ op.num >= Many,
                 !.byUuid = [u \in Uuid |-> IF @[u] = None THEN None ELSE FillHoles(@[u], upTo)]]

BeginDiscovery(op) ==
  LET todo == Gaps(MapOf(cache, op.uuid), MaxHandle)
      found == NumFound(MapOf(cache, op.uuid))
  IN IF cache.hasAll THEN Return(op, FoundInAll(op.uuid)) /\ UNCHANGED cache
     ELSE /\ cache' = Asked(cache, op.uuid)
          /\ IF todo = <<>> \/ found >= op.num THEN Return(op, Found(MapOf(cache, op.uuid)))
             ELSE Ask(op, [todo |-> todo, at |-> todo[1].start, found |-> found])

Known(op) == {d \in details : d.obj = op.obj /\ d.kind = op.kind}
BeginDetails(op) ==
  IF Known(op) # {} THEN Return(op, (CHOOSE d \in Known(op) : TRUE).what)
  ELSE Ask(op, [at |-> op.obj.start, found |-> <<>>])

\* With a part of the range, the loop over the maps takes the table of maps for a map.
BeginInvalidation(op) ==
  LET keep(map) == SelectSeq(map, LAMBDA r : r.start > op.range.end \/ r.end < op.range.start)
  IN IF op.range = Whole
     THEN cache' = Empty /\ gen' = gen + 1 /\ fresh' = TRUE /\ Quietly(op)
     ELSE /\ cache' = [cache EXCEPT !.all = keep(@), !.sec = keep(@)]
          /\ IF \E u \in Uuid : cache.byUuid[u] # None THEN Throw(op) ELSE Quietly(op)
          /\ UNCHANGED <<gen, fresh>>

Begin(op) ==
  \/ op.kind = "discover" /\ BeginDiscovery(op) /\ UNCHANGED <<inReliableWrite, gen, fresh>>
  \/ op.kind \in {"chars", "includes"} /\ BeginDetails(op) /\ UNCHANGED <<cache, inReliableWrite, gen, fresh>>
  \/ op.kind = "invalidate" /\ BeginInvalidation(op) /\ UNCHANGED inReliableWrite
  \/ op.kind = "begin" /\ inReliableWrite' = TRUE /\ Quietly(op) /\ UNCHANGED <<cache, gen, fresh>>
  \* readUsingCharacteristicUuid queues a handle where the procedure was meant
  \/ op.kind = "readByUuid" /\ Throw(op) /\ UNCHANGED <<cache, inReliableWrite, gen, fresh>>
  \/ op.kind = "write" /\ UNCHANGED <<cache, inReliableWrite, gen, fresh>>
     /\ Ask(op, [step |-> IF op.parts = 0 /\ ~inReliableWrite THEN "write" ELSE "piece",
                left |-> Max({1, op.parts}), success |-> FALSE])
  \/ op.kind \in {"commit", "cancel"} /\ Ask(op, [step |-> "execute"]) /\ UNCHANGED <<cache, inReliableWrite, gen, fresh>>

EnqueueWith(op, c) ==
  IF current = Idle THEN Begin(op) /\ UNCHANGED queue
  ELSE queue' = Append(queue, op) /\ cache' = c /\ UNCHANGED <<current, inReliableWrite, gen, fresh, answer>>
EnqueueRequest(op) == EnqueueWith(op, cache)
\* The callback has returned.
DoneNextRequest ==
  /\ current.phase = "returned"
  /\ IF queue = <<>> THEN current' = Idle /\ UNCHANGED <<cache, queue, inReliableWrite, gen, fresh, answer>>
     ELSE queue' = Tail(queue) /\ Begin(Head(queue))
  /\ turn' = 1 - turn
  /\ UNCHANGED <<details, db, staged, budget>>
-----------------------------------------------------------------------------
(* Users. *)

Call(kind) ==
  /\ budget.calls > 0 /\ kind \in budget.of
  /\ budget' = [budget EXCEPT !.calls = @ - 1]
  /\ UNCHANGED <<details, db, staged, turn>>
\* An answer from the cache does not wait for the queue.
AtOnce(op, what) ==
  /\ answer' = [op |-> op, what |-> what, gen |-> gen]
  /\ UNCHANGED <<queue, current, inReliableWrite, gen, fresh>>
DiscoverPrimaryServices(uuid, num) ==
  LET op == [kind |-> "discover", uuid |-> uuid, num |-> num]
  IN /\ Call("discover")
     /\ \/ cache.hasAll /\ AtOnce(op, FoundInAll(uuid)) /\ UNCHANGED cache
        \/ /\ ~cache.hasAll /\ Gaps(MapOf(cache, uuid), MaxHandle) = <<>>
           /\ AtOnce(op, Found(MapOf(cache, uuid))) /\ UNCHANGED cache
        \/ /\ ~cache.hasAll /\ Gaps(MapOf(cache, uuid), MaxHandle) # <<>>
           /\ EnqueueWith(op, Asked(cache, uuid))
DiscoverDetails(kind, s) ==
  LET op == [kind |-> kind, obj |-> [gen |-> gen, start |-> s.start, end |-> s.end]]
  IN /\ Call(kind) /\ s.kind = "service"
     /\ IF Known(op) # {} THEN AtOnce(op, (CHOOSE d \in Known(op) : TRUE).what) /\ UNCHANGED cache
        ELSE EnqueueRequest(op)
InvalidateServices(range) == Call("invalidate") /\ EnqueueRequest([kind |-> "invalidate", range |-> range])
ReadUsingCharacteristicUuid == Call("readByUuid") /\ EnqueueRequest([kind |-> "readByUuid"])
\* parts: 0 for a value that fits one request, else the pieces of a long one.
Write(parts) == Call("write") /\ EnqueueRequest([kind |-> "write", parts |-> parts])
ReliableWrite(kind) == Call("write") /\ kind \in {"begin", "commit", "cancel"} /\ EnqueueRequest([kind |-> kind])
User ==
  \/ DiscoverPrimaryServices(None, Many)
  \/ \E u \in Uuid, n \in NumsToFind : DiscoverPrimaryServices(u, n)
  \/ \E kind \in {"chars", "includes"} : \E s \in ToSet(cache.all) \cup ToSet(cache.sec) : DiscoverDetails(kind, s)
  \/ \E range \in Invalidations : InvalidateServices(range)
  \/ ReadUsingCharacteristicUuid
  \/ \E parts \in 0 .. 2 : Write(parts)
  \/ \E kind \in {"begin", "commit", "cancel"} : ReliableWrite(kind)
-----------------------------------------------------------------------------
(* Responses.  The peer answers with the first one or two of what it has.  *)

Asking(kinds) == current.phase = "asking" /\ current.op.kind \in kinds
First(items) == CHOOSE a \in items : \A b \in items : a.start <= b.start
Pages(items) ==
  IF items = {} THEN {<<>>}
  ELSE {<<First(items)>>} \cup {<<First(items), First(rest)>> : rest \in {items \ {First(items)}} \ {{}}}

\* The services of a response go into the cache one by one.
ServiceFound(acc, v, range) ==
  LET valid == v.start > acc.last /\ v.end <= range.end
      c == CASE ~valid \/ Has(acc.cache.all, v.start) -> acc.cache
             [] valid /\ ~Has(acc.cache.all, v.start) /\ Has(acc.cache.sec, v.start) -> Moved(acc.cache, v.start)
             [] OTHER -> Created(acc.cache, Service(v.start, v.end, v.uuid))
  IN [cache |-> c, end |-> Max({acc.end, v.end}), last |-> IF valid THEN v.end ELSE acc.last,
      found |-> IF valid THEN acc.found + 1 ELSE acc.found]
ServicesFound ==
  /\ Asking({"discover"})
  /\ LET op == current.op
         st == current.state
         range == st.todo[1]
         there == {s \in db : s.primary /\ st.at <= s.start /\ s.start <= range.end /\ op.uuid \in {None, s.uuid}}
     IN \E page \in Pages(there) :
          LET acc == Folded(LAMBDA a, v : ServiceFound(a, v, range),
                       [cache |-> cache, end |-> st.at - 1, last |-> st.at - 1, found |-> st.found], page)
              upTo == IF page = <<>> THEN range.end ELSE acc.end
              whole == Checked(acc.cache, op, upTo)
          IN CASE page # <<>> /\ acc.end < range.end /\ acc.found < op.num ->
                    cache' = acc.cache /\ Ask(op, [st EXCEPT !.at = acc.end + 1, !.found = acc.found])
               [] ~(page # <<>> /\ acc.end < range.end) /\ Len(st.todo) > 1 /\ acc.found < op.num ->
                    cache' = acc.cache /\
                    Ask(op, [todo |-> Tail(st.todo), at |-> st.todo[2].start, found |-> acc.found])
               [] OTHER -> cache' = whole /\ Return(op, Found(MapOf(whole, op.uuid)))
  /\ UNCHANGED <<details, queue, inReliableWrite, db, staged, gen, fresh, budget>>

Keep(op, what) == details' = details \cup {[obj |-> op.obj, kind |-> op.kind, what |-> what]}
CharacteristicsFound ==
  /\ Asking({"chars"})
  /\ LET op == current.op
         st == current.state
         there == {c \in UNION {s.chars : s \in db} : st.at <= c.start /\ c.start <= op.obj.end}
     IN \E page \in Pages(there) :
          LET all == st.found \o [i \in DOMAIN page |-> page[i].start]
          IN IF page = <<>> \/ Last(page).start >= op.obj.end
             THEN Keep(op, all) /\ Return(op, all)
             ELSE Ask(op, [at |-> Last(page).start + 1, found |-> all]) /\ UNCHANGED details
  /\ UNCHANGED <<cache, queue, inReliableWrite, db, staged, gen, fresh, budget>>

\* Includes in a response have one length; those with a 16-bit UUID are dropped.  The
\* UUIDs of the others are read one by one, here in the last step.
IncludePages(items) == {p \in Pages(items) : \A i \in DOMAIN p : p[i].short = p[1].short}
Include(acc, s) ==
  IF Has(acc.cache.sec, s.start) THEN [acc EXCEPT !.what = Append(@, None)]
  ELSE [cache |-> CreatedSecondary(acc.cache, Service(s.start, s.end, Lost)), what |-> Append(acc.what, s.start)]
IncludesFound ==
  /\ Asking({"includes"})
  /\ LET op == current.op
         st == current.state
         there == {c \in UNION {s.includes : s \in db} : st.at <= c.start /\ c.start <= op.obj.end}
     IN \E page \in IncludePages(there) :
          LET taken == SelectSeq(page, LAMBDA c : ~c.short)
              all == st.found \o [i \in DOMAIN taken |-> taken[i].service]
              exist == SelectSeq(all, LAMBDA s : \E t \in db : t.start = s.start /\ t.end = s.end)
              acc == Folded(Include, [cache |-> cache, what |-> <<>>], exist)
          IN IF page = <<>> \/ Last(page).start >= op.obj.end
             THEN cache' = acc.cache /\ Keep(op, acc.what) /\ Return(op, acc.what)
             ELSE /\ Ask(op, [at |-> IF taken = <<>> THEN st.at ELSE Last(taken).start + 1, found |-> all])
                  /\ UNCHANGED <<cache, details>>
  /\ UNCHANGED <<queue, inReliableWrite, db, staged, gen, fresh, budget>>

\* Slip: the pieces of a failed write are left in the server.
AfterErrorLeft(op, st) == Quietly(op)
\* Slip: a piece that is refused is sent again.
AfterErrorAgain(op, st) == Ask(op, st)
AfterError(op, st) == IF st.success /\ ~inReliableWrite THEN Ask(op, [st EXCEPT !.step = "abort"]) ELSE Quietly(op)

\* A write of one request, or of pieces and their execution; the answer to a piece
\* repeats it, perhaps wrongly, which ends a reliable write.
Written ==
  /\ Asking({"write"}) /\ current.state.step # "piece"
  /\ Quietly(current.op)
  /\ staged' = (current.state.step = "write" /\ staged)
  /\ inReliableWrite' = (inReliableWrite /\ current.state.step # "mismatch")
  /\ UNCHANGED <<cache, details, queue, db, gen, fresh, budget>>
PieceAnswered(result) ==
  /\ Asking({"write"}) /\ current.state.step = "piece"
  /\ LET op == current.op
         st == current.state
         ends == result = "mismatch" /\ inReliableWrite
     IN CASE result = "error" -> AfterError(op, st)
          [] ends -> Ask(op, [st EXCEPT !.step = "mismatch"])
          [] result # "error" /\ ~ends /\ st.left > 1 -> Ask(op, [st EXCEPT !.left = @ - 1, !.success = TRUE])
          [] OTHER -> IF inReliableWrite THEN Quietly(op) ELSE Ask(op, [st EXCEPT !.step = "execute"])
  /\ staged' = (staged \/ result # "error")
  /\ UNCHANGED <<cache, details, queue, inReliableWrite, db, gen, fresh, budget>>
Executed ==
  /\ Asking({"commit", "cancel"})
  /\ Quietly(current.op) /\ inReliableWrite' = FALSE /\ staged' = FALSE
  /\ UNCHANGED <<cache, details, queue, db, gen, fresh, budget>>

PeerChanges ==
  /\ budget.changes > 0 /\ budget' = [budget EXCEPT !.changes = @ - 1]
  /\ db' \in Databases \ {db}
  /\ fresh' = FALSE
  /\ UNCHANGED <<cache, details, queue, current, inReliableWrite, staged, gen, answer, turn>>

Response ==
  /\ turn' = 1 - turn
  /\ \/ ServicesFound \/ CharacteristicsFound \/ IncludesFound
     \/ Written \/ Executed \/ \E result \in {"ok", "mismatch", "error"} : PieceAnswered(result)
ClientNext == User \/ Response \/ DoneNextRequest \/ PeerChanges
ClientSpec == ClientInit /\ [][ClientNext]_clientVars
\* The peer answers, and callbacks return: the queue takes its steps, which turn counts.
Steps == current.phase \notin {"idle", "thrown"} /\ turn' = 1 - turn
FairClientSpec == ClientSpec /\ WF_turn(Steps)
-----------------------------------------------------------------------------
Thrown == current.phase = "thrown"
Trusted == fresh /\ ~Thrown
There(uuid) == {s.start : s \in {t \in db : t.primary /\ uuid \in {None, t.uuid}}}
\* Services that the client first met as included ones: it forgets their UUIDs.
Met == {r.start : r \in {r \in ToSet(cache.sec) \cup ToSet(cache.all) : r.uuid = Lost}}
Disjoint(map) == \A i, j \in DOMAIN map : i < j => map[i].end < map[j].start
IsTrue(r, uuid) ==
  IF r.kind = "hole" THEN (There(uuid) \ (IF uuid = None THEN {} ELSE Met)) \cap (r.start .. r.end) = {}
  ELSE \E s \in db : s.start = r.start /\ s.end = r.end /\ uuid \in {None, s.uuid}

\* What the cache says of a database that has not changed since it was cleared is
\* true: ranges do not overlap, services exist, there is nothing in the holes, and a
\* cache that claims to be complete is, whatever searches were cut short in between.
CacheIsTruthful ==
  Trusted =>
    /\ \A map \in {cache.all, cache.sec} \cup {MapOf(cache, u) : u \in Uuid} : Disjoint(map)
    /\ \A r \in ToSet(cache.all) : IsTrue(r, None)
    /\ \A u \in Uuid : \A r \in ToSet(MapOf(cache, u)) : IsTrue(r, u)
    /\ cache.hasAll => There(None) \subseteq {r.start : r \in ToSet(cache.all)}

\* A discovery answers with what the peer has: services of the UUID that was asked
\* for (those met as included ones aside), as many as were asked for, and every
\* characteristic and included service of a service.
AnswersAreComplete ==
  Trusted /\ answer # None /\ answer.gen = gen =>
    LET op == answer.op
        got == ToSet(answer.what) \ {None}
        inside(items) == {c \in items : op.obj.start <= c.start /\ c.start <= op.obj.end}
    IN CASE op.kind = "discover" ->
              /\ got \subseteq There(op.uuid)
              /\ \/ There(op.uuid) \ Met \subseteq got
                 \/ Len(answer.what) >= op.num
         [] op.kind = "chars" /\ op.obj.gen = gen ->
              got = {c.start : c \in inside(UNION {s.chars : s \in db})}
         [] op.kind = "includes" /\ op.obj.gen = gen ->
              Len(answer.what) = Cardinality(inside(UNION {s.includes : s \in db}))
         [] OTHER -> TRUE

\* Pieces are left waiting at the server only by a reliable write that is still open.
StagedOnlyInReliable == staged => inReliableWrite \/ Asking({"write"})

\* Every procedure comes to its end and lets the next one begin, unless one throws.
EveryProcedureEnds == []<>(current = Idle \/ Thrown)
=============================================================================
