-------------------------- MODULE AttBearerProofs --------------------------
(***************************************************************************)
(* Proofs about AttBearer: each transaction is answered with its own       *)
(* answer and none is dropped, both ends keep to the MTU they agreed on,   *)
(* and a client's procedures are served in order, for any MTUs and any     *)
(* number of requests, commands, notifications, indications and timeouts   *)
(* of either end.  Then about GattServerDb: the database matches the       *)
(* services, and the subscriptions are what the application was told and   *)
(* what is stored of each peer, for any services, peers and bonds.  What   *)
(* the code's promises rest on are named hypotheses, each at its place.    *)
(***************************************************************************)
EXTENDS AttBearer, GattServerDb, SequenceTheorems, FiniteSetTheorems, WellFoundedInduction, TLAPS

\* No Write Command carries more than its attribute takes: the server answers one that does with
\* an Error Response, which the client takes for that of its request (CommandsAreNotRequests).
CommandsFit == ~LongCommands

-----------------------------------------------------------------------------
(* The inductive invariant. *)

\* The two kinds of transactions: the packets that ask and those that reply, what the
\* application is asked in between, and the callback that ends it.
Kinds == {"request", "indication"}
Asks(k) == {k}
Replies(k) == IF k = "request" THEN {"response", "error"} ELSE {"confirmation"}
TasksOf(k, b) == {t \in b.tasks : t.op \in IF k = "request" THEN {"read", "write"} ELSE {"confirm"}}
Callback(k) == IF k = "request" THEN "response" ELSE "confirmation"

\* The transaction that an end has outstanding.
IdOf(k, b) == IF k = "request" THEN b.currentOutgoingRequest.id ELSE b.currentOutgoingIndication
OpOf(k, b) == IF k = "request" THEN b.currentOutgoingRequest.op ELSE "none"
TaskOp(k, op) == IF k = "request" THEN op ELSE "confirm"

\* Packets of these types are in q only if the transaction is here, one and about it.
OnlyAt(q, types, here, id, op) ==
  \A i \in 1 .. Len(q) : q[i].type \in types =>
    /\ here /\ q[i].id = id /\ q[i].op = op
    /\ \A j \in 1 .. Len(q) : q[j].type \in types => j = i

\* Likewise for what the application is asked.
AskedAt(tasks, here, id, op) ==
  \A t \in tasks : here /\ t.id = id /\ t.op = op /\ \A u \in tasks : u = t

\* A transaction is at one place at most: with the adapter, on its way, with the application
\* of the other end, with the adapter there, on its way back, or in its callback.
PathAt(at, k, id, op, out, wire1, tasks, back, wire2, called) ==
  /\ id = None => at = "nowhere"
  /\ OnlyAt(out, Asks(k), at = "asking", id, op)
  /\ OnlyAt(wire1, Asks(k), at = "asked", id, op)
  /\ AskedAt(tasks, at = "task", id, TaskOp(k, op))
  /\ OnlyAt(back, Replies(k), at = "replying", id, op)
  /\ OnlyAt(wire2, Replies(k), at = "replied", id, op)
  /\ called => at = "called"
Path(k, id, op, out, wire1, tasks, back, wire2, called) ==
  \E at : PathAt(at, k, id, op, out, wire1, tasks, back, wire2, called)

\* The path of the transactions of kind k that end x has with end y, when x and y have
\* written wx and wy and the activations on the stack of x are cx.
Runs(cx, k) == cx # <<>> /\ cx[1] = Callback(k)
PathOf(k, x, y, wx, wy, cx) ==
  Path(k, IdOf(k, x), OpOf(k, x), x.out, wx, TasksOf(k, y), y.out, wy, Runs(cx, k))

\* No packet of these types is in q.
NoneIn(q, types) == \A i \in 1 .. Len(q) : q[i].type \notin types

\* What holds of an end by itself.  Unless it has timed out and sends nothing any more, it is
\* handling a request only while the application is asked or the response is not written, and
\* likewise for the other flags.
FlagsMean(b) ==
  ~b.timedout =>
    /\ b.isHandlingRequest => TasksOf("request", b) # {} \/ ~NoneIn(b.out, Replies("request"))
    /\ b.hasOutgoingConfirmation => ~NoneIn(b.out, Replies("indication"))
    /\ b.currentOutgoingRequest # NoRequest /\ ~b.currentOutgoingRequestIsSent =>
         ~NoneIn(b.out, Asks("request"))
StagesMean(b) == \A t \in b.tasks : t.op \in {"read", "confirm"} => t.stage = "answer"
Sound(b) ==
  /\ b \in Bearer /\ b.indicationQueue \in Seq(Nat \ {None})
  /\ StagesMean(b) /\ FlagsMean(b)

\* Only callbacks of sent packets run inside of another activation.
Frames == {"response", "confirmation", "sent", "flush"}
Nested(c) == c \in Seq(Frames) /\ \A i \in 2 .. Len(c) : c[i] = "sent"

\* The MTU of end x is the default or m, and so are the lengths of what it sends, q being
\* what it has written and is going to write.
MtuResponse(p) == p.type = "response" /\ p.op = "mtu"
Lengths(m, x, q) ==
  /\ x.currentMtu \in {DefaultMtu, m}
  /\ \A t \in x.tasks : t.mtu <= m
  /\ \A i \in 1 .. Len(q) : q[i].len <= m
  /\ \A i \in 1 .. Len(q) : MtuResponse(q[i]) => q[i].len = DefaultMtu /\ x.currentMtu = m

\* End y knows the MTU m already, or is told before it gets anything that needs it.
Announced(q) ==
  \A i \in 1 .. Len(q) : q[i].len > DefaultMtu =>
    \E j \in 1 .. Len(q) : j < i /\ MtuResponse(q[j])
Told(m, x, y, q) ==
  \/ y.currentMtu = m
  \/ /\ Announced(q)
     /\ \A t \in x.tasks : t.op = "read" => t.mtu <= DefaultMtu
     /\ x.currentMtu # DefaultMtu => \E i \in 1 .. Len(q) : MtuResponse(q[i])

\* What holds of end x as the one that asks end y and sends to it.
Way(m, x, y, wx, wy, cx) ==
  /\ wx \in Seq(Packet) /\ Sound(x) /\ Nested(cx)
  /\ \A k \in Kinds : PathOf(k, x, y, wx, wy, cx)
  /\ Lengths(m, x, wx \o x.out) /\ Told(m, x, y, wx \o x.out)
Pair(m, x, y, wx, wy, cx, cy) == Way(m, x, y, wx, wy, cx) /\ Way(m, y, x, wy, wx, cy)

\* The MTU that both ends agree on.
Agreed(s) == Negotiated(RxMtu[s], RxMtu[Other(s)])
Records ==
  /\ budget \in Budgets /\ calls \in [Side -> [Counted -> Nat]]
  /\ answer \in [Side -> [Ids("request") -> {"none", "own"}]]
  /\ confirmed \in [Side -> SUBSET (Nat \X Nat)]
  /\ \A s \in Side : \A pair \in confirmed[s] : pair[1] = pair[2]
  /\ notified \in [Side -> Seq(Nat)]
AttInv ==
  /\ Records /\ att \in [Side -> Bearer]
  /\ callStack \in [Side -> Seq(Frames)] /\ wire \in [Side -> Seq(Packet)]
  /\ \A s \in Side : Pair(Agreed(s), att[s], att[Other(s)], wire[s], wire[Other(s)],
                           callStack[s], callStack[Other(s)])

-----------------------------------------------------------------------------
(* Sequences of packets. *)

LEMMA AppendElements ==
  ASSUME NEW S, NEW s \in Seq(S), NEW e \in S
  PROVE  /\ Append(s, e) \in Seq(S) /\ Len(s) \in Nat
         /\ Len(Append(s, e)) = Len(s) + 1 /\ Append(s, e)[Len(s) + 1] = e
         /\ \A i \in 1 .. Len(s) : Append(s, e)[i] = s[i]
         /\ Append(s, e) # <<>>
BY AppendProperties, EmptySeq

LEMMA TailElements ==
  ASSUME NEW S, NEW s \in Seq(S), s # <<>>
  PROVE  /\ Tail(s) \in Seq(S) /\ Len(s) \in Nat \ {0} /\ Len(Tail(s)) = Len(s) - 1
         /\ Head(s) = s[1] /\ Head(s) \in S
         /\ \A i \in 1 .. Len(Tail(s)) : Tail(s)[i] = s[i + 1]
BY HeadTailProperties, EmptySeq

LEMMA NoneAnywhere ==
  \A q, types, here, id, op : NoneIn(q, types) => OnlyAt(q, types, here, id, op)
BY DEF NoneIn, OnlyAt

LEMMA NotHere ==
  \A q, types, here, id, op : OnlyAt(q, types, here, id, op) /\ ~here => NoneIn(q, types)
BY DEF NoneIn, OnlyAt

LEMMA OnlyAtAppendOther ==
  ASSUME NEW q \in Seq(Packet), NEW p \in Packet, NEW types, p.type \notin types,
         NEW here, NEW id, NEW op, OnlyAt(q, types, here, id, op)
  PROVE  OnlyAt(Append(q, p), types, here, id, op)
<1> HIDE DEF Packet
<1> DEFINE r == Append(q, p)
<1>1. /\ Len(q) \in Nat /\ Len(r) = Len(q) + 1 /\ r[Len(q) + 1] = p
      /\ \A i \in 1 .. Len(q) : r[i] = q[i]
  BY AppendElements
<1> HIDE DEF r
<1>2. \A i \in 1 .. Len(r) : r[i].type \in types => i \in 1 .. Len(q)
  BY <1>1
<1>3. OnlyAt(r, types, here, id, op)
  BY <1>1, <1>2 DEF OnlyAt
<1>4. QED
  BY <1>3 DEF r

LEMMA OnlyAtAppendFirst ==
  ASSUME NEW q \in Seq(Packet), NEW p \in Packet, NEW types, NoneIn(q, types),
         NEW here, here, NEW id, NEW op, p.id = id, p.op = op
  PROVE  OnlyAt(Append(q, p), types, here, id, op)
<1> HIDE DEF Packet
<1> DEFINE r == Append(q, p)
<1>1. /\ Len(q) \in Nat /\ Len(r) = Len(q) + 1 /\ r[Len(q) + 1] = p
      /\ \A i \in 1 .. Len(q) : r[i] = q[i]
  BY AppendElements
<1> HIDE DEF r
<1>2. \A i \in 1 .. Len(r) : r[i].type \in types => i = Len(q) + 1
  BY <1>1 DEF NoneIn
<1>3. OnlyAt(r, types, here, id, op)
  BY <1>1, <1>2 DEF OnlyAt
<1>4. QED
  BY <1>3 DEF r

LEMMA OnlyAtTail ==
  ASSUME NEW q \in Seq(Packet), q # <<>>, NEW types, NEW here, NEW id, NEW op,
         OnlyAt(q, types, here, id, op)
  PROVE  /\ OnlyAt(Tail(q), types, here, id, op)
         /\ Head(q).type \in types =>
              /\ NoneIn(Tail(q), types)
              /\ here /\ Head(q).id = id /\ Head(q).op = op
<1> HIDE DEF Packet
<1> DEFINE r == Tail(q)
<1>1. /\ Len(q) \in Nat \ {0} /\ Len(r) = Len(q) - 1 /\ Head(q) = q[1]
      /\ \A i \in 1 .. Len(r) : r[i] = q[i + 1]
  BY TailElements
<1> HIDE DEF r
<1>2. \A i \in 1 .. Len(r) : i + 1 \in 1 .. Len(q) /\ i + 1 # 1
  BY <1>1
<1>3. 1 \in 1 .. Len(q)
  BY <1>1
<1>4. OnlyAt(r, types, here, id, op)
  <2> SUFFICES ASSUME NEW i \in 1 .. Len(r), r[i].type \in types
               PROVE  /\ here /\ r[i].id = id /\ r[i].op = op
                      /\ \A j \in 1 .. Len(r) : r[j].type \in types => j = i
    BY DEF OnlyAt
  <2>1. q[i + 1].type \in types /\ i + 1 \in 1 .. Len(q) /\ r[i] = q[i + 1]
    BY <1>1, <1>2
  <2>2. here /\ r[i].id = id /\ r[i].op = op
    BY <2>1 DEF OnlyAt
  <2>3. ASSUME NEW j \in 1 .. Len(r), r[j].type \in types
        PROVE  j = i
    <3>1. j + 1 \in 1 .. Len(q) /\ q[j + 1].type \in types
      BY <1>1, <1>2, <2>3
    <3>2. j + 1 = i + 1
      BY <2>1, <3>1 DEF OnlyAt
    <3>3. QED
      BY <1>1, <3>2
  <2>4. QED
    BY <2>2, <2>3
<1>5. ASSUME Head(q).type \in types
      PROVE  NoneIn(r, types) /\ here /\ Head(q).id = id /\ Head(q).op = op
  <2>1. here /\ Head(q).id = id /\ Head(q).op = op
    BY <1>1, <1>3, <1>5 DEF OnlyAt
  <2>2. ASSUME NEW i \in 1 .. Len(r), r[i].type \in types
        PROVE  FALSE
    <3>1. q[i + 1].type \in types /\ i + 1 \in 1 .. Len(q) /\ q[1].type \in types
      BY <1>1, <1>2, <1>5, <2>2
    <3>2. i + 1 = 1
      BY <1>3, <3>1 DEF OnlyAt
    <3>3. QED
      BY <1>2, <3>2
  <2>3. QED
    BY <2>1, <2>2 DEF NoneIn
<1>6. QED
  BY <1>4, <1>5 DEF r

-----------------------------------------------------------------------------
(* What the steps of a transaction do to its path. *)

\* A packet that is not of the transaction is sent.
LEMMA PathOtherSent ==
  ASSUME NEW k, NEW id, NEW op, NEW out \in Seq(Packet), NEW wire1, NEW tasks, NEW back, NEW wire2,
         NEW called, Path(k, id, op, out, wire1, tasks, back, wire2, called),
         NEW p \in Packet, p.type \notin Asks(k)
  PROVE  Path(k, id, op, Append(out, p), wire1, tasks, back, wire2, called)
BY OnlyAtAppendOther DEF Path, PathAt

LEMMA PathOtherReplied ==
  ASSUME NEW k, NEW id, NEW op, NEW out, NEW wire1, NEW tasks, NEW back \in Seq(Packet), NEW wire2,
         NEW called, Path(k, id, op, out, wire1, tasks, back, wire2, called),
         NEW p \in Packet, p.type \notin Replies(k)
  PROVE  Path(k, id, op, out, wire1, tasks, Append(back, p), wire2, called)
BY OnlyAtAppendOther DEF Path, PathAt

\* A packet arrives that is not of the transaction, or is dropped.
LEMMA PathOtherArrives ==
  ASSUME NEW k, NEW id, NEW op, NEW out, NEW wire1 \in Seq(Packet), NEW tasks, NEW back, NEW wire2,
         NEW called, Path(k, id, op, out, wire1, tasks, back, wire2, called), wire1 # <<>>
  PROVE  Path(k, id, op, out, Tail(wire1), tasks, back, wire2, called)
BY OnlyAtTail DEF Path, PathAt

LEMMA PathOtherReturns ==
  ASSUME NEW k, NEW id, NEW op, NEW out, NEW wire1, NEW tasks, NEW back, NEW wire2 \in Seq(Packet),
         NEW called, Path(k, id, op, out, wire1, tasks, back, wire2, called), wire2 # <<>>
  PROVE  Path(k, id, op, out, wire1, tasks, back, Tail(wire2), called)
BY OnlyAtTail DEF Path, PathAt

\* The transaction begins, unless the end has timed out and sends nothing.
LEMMA PathBegins ==
  ASSUME NEW k, NEW op, NEW out \in Seq(Packet), NEW wire1, NEW tasks, NEW back, NEW wire2,
         NEW called, Path(k, None, op, out, wire1, tasks, back, wire2, called),
         NEW id \in Nat \ {None}, NEW op2, NEW out2,
         \/ out2 = out
         \/ \E p \in Packet : p.id = id /\ p.op = op2 /\ out2 = Append(out, p)
  PROVE  Path(k, id, op2, out2, wire1, tasks, back, wire2, called)
<1> HIDE DEF Packet
<1>1. /\ NoneIn(out, Asks(k)) /\ NoneIn(wire1, Asks(k)) /\ tasks = {}
      /\ NoneIn(back, Replies(k)) /\ NoneIn(wire2, Replies(k)) /\ ~called
  <2>1. PICK at : PathAt(at, k, None, op, out, wire1, tasks, back, wire2, called)
    BY DEF Path
  <2>2. at = "nowhere"
    BY <2>1 DEF PathAt
  <2>3. NoneIn(out, Asks(k)) /\ NoneIn(wire1, Asks(k)) /\ NoneIn(back, Replies(k))
        /\ NoneIn(wire2, Replies(k))
    BY <2>1, <2>2, NotHere DEF PathAt
  <2>4. tasks = {} /\ ~called
    BY <2>1, <2>2 DEF PathAt, AskedAt
  <2>5. QED
    BY <2>3, <2>4
<1>2. OnlyAt(out2, Asks(k), TRUE, id, op2)
  <2>1. CASE out2 = out
    BY <1>1, <2>1, NoneAnywhere
  <2>2. ASSUME NEW p \in Packet, p.id = id, p.op = op2, out2 = Append(out, p)
        PROVE  OnlyAt(out2, Asks(k), TRUE, id, op2)
    BY <1>1, <2>2, OnlyAtAppendFirst
  <2>3. QED
    BY <2>1, <2>2
<1>3. PathAt("asking", k, id, op2, out2, wire1, tasks, back, wire2, called)
  BY <1>1, <1>2, NoneAnywhere DEF PathAt, AskedAt
<1>4. QED
  BY <1>3 DEF Path

\* The adapter of the asking end writes its oldest packet.
LEMMA PathWritten ==
  ASSUME NEW k, NEW id, NEW op, NEW out \in Seq(Packet), NEW wire1 \in Seq(Packet), NEW tasks,
         NEW back, NEW wire2, NEW called,
         Path(k, id, op, out, wire1, tasks, back, wire2, called), out # <<>>
  PROVE  Path(k, id, op, Tail(out), Append(wire1, Head(out)), tasks, back, wire2, called)
<1> HIDE DEF Packet
<1>1. PICK at : PathAt(at, k, id, op, out, wire1, tasks, back, wire2, called)
  BY DEF Path
<1>2. Head(out) \in Packet
  BY TailElements
<1>3. CASE Head(out).type \notin Asks(k)
  <2>1. OnlyAt(Tail(out), Asks(k), at = "asking", id, op)
    BY <1>1, OnlyAtTail DEF PathAt
  <2>2. OnlyAt(Append(wire1, Head(out)), Asks(k), at = "asked", id, op)
    BY <1>1, <1>2, <1>3, OnlyAtAppendOther DEF PathAt
  <2>3. QED
    BY <1>1, <2>1, <2>2 DEF Path, PathAt
<1>4. CASE Head(out).type \in Asks(k)
  <2>1. /\ NoneIn(Tail(out), Asks(k)) /\ at = "asking" /\ Head(out).id = id /\ Head(out).op = op
    <3> DEFINE here == at = "asking"
    <3>1. OnlyAt(out, Asks(k), here, id, op)
      BY <1>1 DEF PathAt
    <3> HIDE DEF here
    <3>2. NoneIn(Tail(out), Asks(k)) /\ here /\ Head(out).id = id /\ Head(out).op = op
      BY <3>1, <1>4, OnlyAtTail
    <3>3. QED
      BY <3>2 DEF here
  <2>2. NoneIn(wire1, Asks(k)) /\ NoneIn(back, Replies(k)) /\ NoneIn(wire2, Replies(k))
        /\ tasks = {} /\ ~called /\ id # None
    BY <1>1, <2>1, NotHere DEF PathAt, AskedAt
  <2>3. OnlyAt(Append(wire1, Head(out)), Asks(k), TRUE, id, op)
    BY <1>2, <2>1, <2>2, OnlyAtAppendFirst
  <2>4. PathAt("asked", k, id, op, Tail(out), Append(wire1, Head(out)), tasks, back, wire2, called)
    BY <2>1, <2>2, <2>3, NoneAnywhere DEF PathAt, AskedAt
  <2>5. QED
    BY <2>4 DEF Path
<1>5. QED
  BY <1>3, <1>4

\* The adapter of the other end writes its oldest packet.
LEMMA PathReplyWritten ==
  ASSUME NEW k, NEW id, NEW op, NEW out, NEW wire1, NEW tasks,
         NEW back \in Seq(Packet), NEW wire2 \in Seq(Packet), NEW called,
         Path(k, id, op, out, wire1, tasks, back, wire2, called), back # <<>>
  PROVE  Path(k, id, op, out, wire1, tasks, Tail(back), Append(wire2, Head(back)), called)
<1> HIDE DEF Packet
<1>1. PICK at : PathAt(at, k, id, op, out, wire1, tasks, back, wire2, called)
  BY DEF Path
<1>2. Head(back) \in Packet
  BY TailElements
<1>3. CASE Head(back).type \notin Replies(k)
  <2>1. OnlyAt(Tail(back), Replies(k), at = "replying", id, op)
    BY <1>1, OnlyAtTail DEF PathAt
  <2>2. OnlyAt(Append(wire2, Head(back)), Replies(k), at = "replied", id, op)
    BY <1>1, <1>2, <1>3, OnlyAtAppendOther DEF PathAt
  <2>3. QED
    BY <1>1, <2>1, <2>2 DEF Path, PathAt
<1>4. CASE Head(back).type \in Replies(k)
  <2>1. /\ NoneIn(Tail(back), Replies(k)) /\ at = "replying" /\ Head(back).id = id /\ Head(back).op = op
    <3> DEFINE here == at = "replying"
    <3>1. OnlyAt(back, Replies(k), here, id, op)
      BY <1>1 DEF PathAt
    <3> HIDE DEF here
    <3>2. NoneIn(Tail(back), Replies(k)) /\ here /\ Head(back).id = id /\ Head(back).op = op
      BY <3>1, <1>4, OnlyAtTail
    <3>3. QED
      BY <3>2 DEF here
  <2>2. NoneIn(wire1, Asks(k)) /\ NoneIn(out, Asks(k)) /\ NoneIn(wire2, Replies(k))
        /\ tasks = {} /\ ~called /\ id # None
    BY <1>1, <2>1, NotHere DEF PathAt, AskedAt
  <2>3. OnlyAt(Append(wire2, Head(back)), Replies(k), TRUE, id, op)
    BY <1>2, <2>1, <2>2, OnlyAtAppendFirst
  <2>4. PathAt("replied", k, id, op, out, wire1, tasks, Tail(back), Append(wire2, Head(back)), called)
    BY <2>1, <2>2, <2>3, NoneAnywhere DEF PathAt, AskedAt
  <2>5. QED
    BY <2>4 DEF Path
<1>5. QED
  BY <1>3, <1>4

\* What is known when the packet that asks has arrived.
LEMMA PathAsked ==
  ASSUME NEW k, NEW id, NEW op, NEW out, NEW wire1 \in Seq(Packet), NEW tasks, NEW back, NEW wire2,
         NEW called, Path(k, id, op, out, wire1, tasks, back, wire2, called), wire1 # <<>>,
         Head(wire1).type \in Asks(k)
  PROVE  /\ Head(wire1).id = id /\ Head(wire1).op = op /\ id # None /\ ~called
         /\ NoneIn(out, Asks(k)) /\ NoneIn(Tail(wire1), Asks(k)) /\ tasks = {}
         /\ NoneIn(back, Replies(k)) /\ NoneIn(wire2, Replies(k))
<1> HIDE DEF Packet
<1>1. PICK at : PathAt(at, k, id, op, out, wire1, tasks, back, wire2, called)
  BY DEF Path
<1>2. /\ NoneIn(Tail(wire1), Asks(k)) /\ at = "asked" /\ Head(wire1).id = id /\ Head(wire1).op = op
  <2> DEFINE here == at = "asked"
  <2>1. OnlyAt(wire1, Asks(k), here, id, op)
    BY <1>1 DEF PathAt
  <2> HIDE DEF here
  <2>2. NoneIn(Tail(wire1), Asks(k)) /\ here /\ Head(wire1).id = id /\ Head(wire1).op = op
    BY <2>1, OnlyAtTail
  <2>3. QED
    BY <2>2 DEF here
<1>3. NoneIn(out, Asks(k)) /\ NoneIn(back, Replies(k)) /\ NoneIn(wire2, Replies(k))
      /\ tasks = {} /\ ~called /\ id # None
  BY <1>1, <1>2, NotHere DEF PathAt, AskedAt
<1>4. QED
  BY <1>2, <1>3

\* The application is asked.
LEMMA PathToTask ==
  ASSUME NEW k, NEW id, NEW op, NEW out, NEW wire1 \in Seq(Packet), NEW tasks, NEW back, NEW wire2,
         NEW called, Path(k, id, op, out, wire1, tasks, back, wire2, called), wire1 # <<>>,
         Head(wire1).type \in Asks(k), NEW t, t.id = Head(wire1).id,
         t.op = TaskOp(k, Head(wire1).op)
  PROVE  Path(k, id, op, out, Tail(wire1), {t}, back, wire2, called)
<1> HIDE DEF Packet
<1>1. /\ Head(wire1).id = id /\ Head(wire1).op = op /\ id # None /\ ~called
      /\ NoneIn(out, Asks(k)) /\ NoneIn(Tail(wire1), Asks(k)) /\ tasks = {}
      /\ NoneIn(back, Replies(k)) /\ NoneIn(wire2, Replies(k))
  BY PathAsked
<1>2. PathAt("task", k, id, op, out, Tail(wire1), {t}, back, wire2, called)
  BY <1>1, NoneAnywhere DEF PathAt, AskedAt
<1>3. QED
  BY <1>2 DEF Path

\* The other end answers at once.
LEMMA PathToReply ==
  ASSUME NEW k, NEW id, NEW op, NEW out, NEW wire1 \in Seq(Packet), NEW tasks,
         NEW back \in Seq(Packet), NEW wire2,
         NEW called, Path(k, id, op, out, wire1, tasks, back, wire2, called), wire1 # <<>>,
         Head(wire1).type \in Asks(k), NEW p \in Packet, p.id = Head(wire1).id, p.op = Head(wire1).op
  PROVE  Path(k, id, op, out, Tail(wire1), tasks, Append(back, p), wire2, called)
<1> HIDE DEF Packet
<1>1. /\ Head(wire1).id = id /\ Head(wire1).op = op /\ id # None /\ ~called
      /\ NoneIn(out, Asks(k)) /\ NoneIn(Tail(wire1), Asks(k)) /\ tasks = {}
      /\ NoneIn(back, Replies(k)) /\ NoneIn(wire2, Replies(k))
  BY PathAsked
<1>2. OnlyAt(Append(back, p), Replies(k), TRUE, id, op)
  BY <1>1, OnlyAtAppendFirst
<1>3. PathAt("replying", k, id, op, out, Tail(wire1), tasks, Append(back, p), wire2, called)
  BY <1>1, <1>2, NoneAnywhere DEF PathAt, AskedAt
<1>4. QED
  BY <1>3 DEF Path

\* What is known while the application is asked.
LEMMA PathTask ==
  ASSUME NEW k, NEW id, NEW op, NEW out, NEW wire1, NEW tasks, NEW back, NEW wire2,
         NEW called, Path(k, id, op, out, wire1, tasks, back, wire2, called), NEW t \in tasks
  PROVE  /\ t.id = id /\ t.op = TaskOp(k, op) /\ id # None /\ ~called /\ tasks = {t}
         /\ NoneIn(out, Asks(k)) /\ NoneIn(wire1, Asks(k))
         /\ NoneIn(back, Replies(k)) /\ NoneIn(wire2, Replies(k))
<1>1. PICK at : PathAt(at, k, id, op, out, wire1, tasks, back, wire2, called)
  BY DEF Path
<1>2. at = "task" /\ t.id = id /\ t.op = TaskOp(k, op) /\ tasks = {t}
  BY <1>1 DEF PathAt, AskedAt
<1>3. /\ NoneIn(out, Asks(k)) /\ NoneIn(wire1, Asks(k)) /\ NoneIn(back, Replies(k))
      /\ NoneIn(wire2, Replies(k)) /\ ~called /\ id # None
  BY <1>1, <1>2, NotHere DEF PathAt
<1>4. QED
  BY <1>2, <1>3

\* The application goes on, or is done with nothing sent.
LEMMA PathTaskGoesOn ==
  ASSUME NEW k, NEW id, NEW op, NEW out, NEW wire1, NEW tasks, NEW back, NEW wire2,
         NEW called, Path(k, id, op, out, wire1, tasks, back, wire2, called), NEW t \in tasks,
         NEW tasks2, tasks2 = {} \/ \E u : u.id = t.id /\ u.op = t.op /\ tasks2 = {u}
  PROVE  Path(k, id, op, out, wire1, tasks2, back, wire2, called)
<1>1. /\ t.id = id /\ t.op = TaskOp(k, op) /\ id # None /\ ~called /\ tasks = {t}
      /\ NoneIn(out, Asks(k)) /\ NoneIn(wire1, Asks(k))
      /\ NoneIn(back, Replies(k)) /\ NoneIn(wire2, Replies(k))
  BY PathTask
<1>2. PathAt("task", k, id, op, out, wire1, tasks2, back, wire2, called)
  BY <1>1, NoneAnywhere DEF PathAt, AskedAt
<1>3. QED
  BY <1>2 DEF Path

\* The application has answered.
LEMMA PathTaskReplies ==
  ASSUME NEW k, NEW id, NEW op, NEW out, NEW wire1, NEW tasks, NEW back \in Seq(Packet), NEW wire2,
         NEW called, Path(k, id, op, out, wire1, tasks, back, wire2, called), NEW t \in tasks,
         NEW p \in Packet, p.id = t.id, p.op = op
  PROVE  Path(k, id, op, out, wire1, {}, Append(back, p), wire2, called)
<1> HIDE DEF Packet
<1>1. /\ t.id = id /\ t.op = TaskOp(k, op) /\ id # None /\ ~called /\ tasks = {t}
      /\ NoneIn(out, Asks(k)) /\ NoneIn(wire1, Asks(k))
      /\ NoneIn(back, Replies(k)) /\ NoneIn(wire2, Replies(k))
  BY PathTask
<1>2. OnlyAt(Append(back, p), Replies(k), TRUE, id, op)
  BY <1>1, OnlyAtAppendFirst
<1>3. PathAt("replying", k, id, op, out, wire1, {}, Append(back, p), wire2, called)
  BY <1>1, <1>2, NoneAnywhere DEF PathAt, AskedAt
<1>4. QED
  BY <1>3 DEF Path

\* The reply has arrived, and its callback begins or not.
LEMMA PathReturns ==
  ASSUME NEW k, NEW id, NEW op, NEW out, NEW wire1, NEW tasks, NEW back, NEW wire2 \in Seq(Packet),
         NEW called, Path(k, id, op, out, wire1, tasks, back, wire2, called), wire2 # <<>>,
         Head(wire2).type \in Replies(k), NEW called2
  PROVE  /\ Head(wire2).id = id /\ Head(wire2).op = op /\ id # None /\ ~called
         /\ NoneIn(out, Asks(k)) /\ NoneIn(wire1, Asks(k))
         /\ Path(k, id, op, out, wire1, tasks, back, Tail(wire2), called2)
<1> HIDE DEF Packet
<1>1. PICK at : PathAt(at, k, id, op, out, wire1, tasks, back, wire2, called)
  BY DEF Path
<1>2. /\ NoneIn(Tail(wire2), Replies(k)) /\ at = "replied" /\ Head(wire2).id = id /\ Head(wire2).op = op
  <2> DEFINE here == at = "replied"
  <2>1. OnlyAt(wire2, Replies(k), here, id, op)
    BY <1>1 DEF PathAt
  <2> HIDE DEF here
  <2>2. NoneIn(Tail(wire2), Replies(k)) /\ here /\ Head(wire2).id = id /\ Head(wire2).op = op
    BY <2>1, OnlyAtTail
  <2>3. QED
    BY <2>2 DEF here
<1>3. /\ NoneIn(out, Asks(k)) /\ NoneIn(wire1, Asks(k)) /\ NoneIn(back, Replies(k))
      /\ tasks = {} /\ ~called /\ id # None
  BY <1>1, <1>2, NotHere DEF PathAt, AskedAt
<1>4. PathAt("called", k, id, op, out, wire1, tasks, back, Tail(wire2), called2)
  BY <1>2, <1>3, NoneAnywhere DEF PathAt, AskedAt
<1>5. QED
  BY <1>2, <1>3, <1>4 DEF Path

\* The callback has returned.
LEMMA PathEnds ==
  ASSUME NEW k, NEW id, NEW op, NEW out, NEW wire1, NEW tasks, NEW back, NEW wire2,
         Path(k, id, op, out, wire1, tasks, back, wire2, TRUE), NEW op2
  PROVE  Path(k, None, op2, out, wire1, tasks, back, wire2, FALSE)
<1>1. PICK at : PathAt(at, k, id, op, out, wire1, tasks, back, wire2, TRUE)
  BY DEF Path
<1>2. /\ NoneIn(out, Asks(k)) /\ NoneIn(wire1, Asks(k)) /\ NoneIn(back, Replies(k))
      /\ NoneIn(wire2, Replies(k)) /\ tasks = {}
  BY <1>1, NotHere DEF PathAt, AskedAt
<1>3. PathAt("nowhere", k, None, op2, out, wire1, tasks, back, wire2, FALSE)
  BY <1>2, NoneAnywhere DEF PathAt, AskedAt
<1>4. QED
  BY <1>3 DEF Path

-----------------------------------------------------------------------------
(* What an end has written and is going to write, as one sequence. *)

LEMMA ConcatAppend ==
  ASSUME NEW S, NEW w \in Seq(S), NEW q \in Seq(S), NEW p \in S
  PROVE  w \o Append(q, p) = Append(w \o q, p) /\ w \o q \in Seq(S)
<1>1. /\ w \o q \in Seq(S) /\ Append(q, p) = q \o <<p>> /\ <<p>> \in Seq(S)
      /\ Append(w \o q, p) = (w \o q) \o <<p>>
  BY ConcatProperties, AppendIsConcat
<1>2. QED
  BY <1>1, ConcatAssociative

LEMMA ConcatWritten ==
  ASSUME NEW S, NEW w \in Seq(S), NEW q \in Seq(S), q # <<>>
  PROVE  Append(w, Head(q)) \o Tail(q) = w \o q
<1>1. /\ Head(q) \in S /\ Tail(q) \in Seq(S) /\ Len(q) \in Nat \ {0} /\ Len(w) \in Nat
      /\ Len(Tail(q)) = Len(q) - 1 /\ Head(q) = q[1]
      /\ \A i \in 1 .. Len(Tail(q)) : Tail(q)[i] = q[i + 1]
  BY TailElements, EmptySeq, LenProperties
<1>2. /\ Append(w, Head(q)) \in Seq(S) /\ Len(Append(w, Head(q))) = Len(w) + 1
      /\ \A i \in 1 .. Len(w) : Append(w, Head(q))[i] = w[i]
      /\ Append(w, Head(q))[Len(w) + 1] = Head(q)
  BY <1>1, AppendProperties
<1> DEFINE v == Append(w, Head(q))
           t == Tail(q)
<1>3. /\ v \o t \in Seq(S) /\ Len(v \o t) = Len(v) + Len(t)
      /\ \A i \in 1 .. Len(v) + Len(t) : (v \o t)[i] = IF i <= Len(v) THEN v[i] ELSE t[i - Len(v)]
  BY <1>1, <1>2, ConcatProperties
<1>4. /\ w \o q \in Seq(S) /\ Len(w \o q) = Len(w) + Len(q)
      /\ \A i \in 1 .. Len(w) + Len(q) : (w \o q)[i] = IF i <= Len(w) THEN w[i] ELSE q[i - Len(w)]
  BY ConcatProperties
<1> HIDE DEF v, t
<1>5. Len(v) = Len(w) + 1 /\ Len(t) = Len(q) - 1 /\ Len(v \o t) = Len(w \o q)
  BY <1>1, <1>2, <1>3, <1>4 DEF v, t
<1>6. ASSUME NEW i \in 1 .. Len(v \o t)
      PROVE  (v \o t)[i] = (w \o q)[i]
  <2>1. CASE i <= Len(w)
    <3>1. v[i] = w[i]
      BY <1>1, <1>2, <2>1 DEF v
    <3>2. QED
      BY <1>1, <1>3, <1>4, <1>5, <2>1, <3>1
  <2>2. CASE i = Len(w) + 1
    <3>1. v[i] = q[1]
      BY <1>1, <1>2, <2>2 DEF v
    <3>2. i - Len(w) = 1 /\ ~(i <= Len(w)) /\ i <= Len(v)
      BY <1>1, <1>5, <2>2
    <3>3. QED
      BY <1>1, <1>3, <1>4, <1>5, <3>1, <3>2
  <2>3. CASE i > Len(w) + 1
    <3> DEFINE j == i - Len(v)
    <3>1. j \in 1 .. Len(t) /\ j + 1 = i - Len(w)
      BY <1>1, <1>3, <1>5, <2>3
    <3> HIDE DEF j
    <3>2. t[j] = q[j + 1]
      BY <1>1, <3>1 DEF t
    <3>3. (v \o t)[i] = t[j]
      BY <1>1, <1>3, <1>5, <2>3 DEF j
    <3>4. (w \o q)[i] = q[i - Len(w)]
      BY <1>1, <1>3, <1>4, <1>5, <2>3
    <3>5. QED
      BY <3>1, <3>2, <3>3, <3>4
  <2>4. QED
    BY <1>1, <1>3, <1>5, <2>1, <2>2, <2>3
<1>7. v \o t = w \o q
  BY <1>3, <1>4, <1>5, <1>6, SeqEqual
<1>8. QED
  BY <1>7 DEF v, t

LEMMA ConcatTail ==
  ASSUME NEW S, NEW w \in Seq(S), NEW q \in Seq(S), w # <<>>
  PROVE  /\ w \o q \in Seq(S) /\ w \o q # <<>> /\ Head(w \o q) = Head(w)
         /\ Tail(w \o q) = Tail(w) \o q
<1>1. /\ Len(w) \in Nat \ {0} /\ Len(q) \in Nat /\ Tail(w) \in Seq(S) /\ Len(Tail(w)) = Len(w) - 1
      /\ Head(w) = w[1] /\ \A i \in 1 .. Len(Tail(w)) : Tail(w)[i] = w[i + 1]
  BY TailElements, LenProperties
<1> DEFINE c == w \o q
           t == Tail(w)
           d == t \o q
<1>2. /\ c \in Seq(S) /\ Len(c) = Len(w) + Len(q)
      /\ \A i \in 1 .. Len(w) + Len(q) : c[i] = IF i <= Len(w) THEN w[i] ELSE q[i - Len(w)]
  BY ConcatProperties
<1>3. /\ d \in Seq(S) /\ Len(d) = Len(t) + Len(q)
      /\ \A i \in 1 .. Len(t) + Len(q) : d[i] = IF i <= Len(t) THEN t[i] ELSE q[i - Len(t)]
  BY <1>1, ConcatProperties
<1>4. c # <<>>
  BY <1>1, <1>2, EmptySeq
<1>5. /\ Tail(c) \in Seq(S) /\ Len(Tail(c)) = Len(c) - 1 /\ Head(c) = c[1]
      /\ \A i \in 1 .. Len(Tail(c)) : Tail(c)[i] = c[i + 1]
  BY <1>2, <1>4, TailElements
<1> HIDE DEF c, t, d
<1>6. Len(t) = Len(w) - 1 /\ \A i \in 1 .. Len(t) : t[i] = w[i + 1]
  BY <1>1 DEF t
<1>7. Len(Tail(c)) = Len(d)
  BY <1>1, <1>2, <1>3, <1>5, <1>6
<1>8. ASSUME NEW i \in 1 .. Len(d)
      PROVE  Tail(c)[i] = d[i]
  <2>1. Tail(c)[i] = c[i + 1]
    BY <1>5, <1>7
  <2>2. i \in Nat /\ i + 1 \in 1 .. Len(w) + Len(q) /\ i \in 1 .. Len(t) + Len(q)
    BY <1>1, <1>3, <1>6
  <2>3. CASE i <= Len(t)
    <3>1. i + 1 <= Len(w) /\ t[i] = w[i + 1]
      BY <1>1, <1>6, <2>2, <2>3
    <3>2. c[i + 1] = w[i + 1] /\ d[i] = t[i]
      BY <1>2, <1>3, <2>2, <2>3, <3>1
    <3>3. QED
      BY <2>1, <3>1, <3>2
  <2>4. CASE ~(i <= Len(t))
    <3>1. ~(i + 1 <= Len(w)) /\ (i + 1) - Len(w) = i - Len(t)
      BY <1>1, <1>6, <2>2, <2>4
    <3>2. c[i + 1] = q[(i + 1) - Len(w)] /\ d[i] = q[i - Len(t)]
      BY <1>2, <1>3, <2>2, <2>4, <3>1
    <3>3. QED
      BY <2>1, <3>1, <3>2
  <2>5. QED
    BY <2>3, <2>4
<1>9. Tail(c) = d
  BY <1>3, <1>5, <1>7, <1>8, SeqEqual
<1>10. Head(c) = Head(w)
  <2>1. 1 \in 1 .. Len(w) + Len(q) /\ 1 <= Len(w)
    BY <1>1
  <2>2. QED
    BY <1>1, <1>2, <1>5, <2>1
<1>11. QED
  BY <1>2, <1>4, <1>9, <1>10 DEF c, d, t

-----------------------------------------------------------------------------
(* What sending and arriving do to the lengths, q being what is on its way. *)

LEMMA LengthsSent ==
  ASSUME NEW m, NEW x, NEW x2, NEW q \in Seq(Packet), NEW p \in Packet, Lengths(m, x, q),
         x2.currentMtu = x.currentMtu, \A t \in x2.tasks : t.mtu <= m,
         p.len <= m, MtuResponse(p) => p.len = DefaultMtu /\ x.currentMtu = m
  PROVE  Lengths(m, x2, Append(q, p))
<1> HIDE DEF Packet
<1> DEFINE r == Append(q, p)
<1>1. /\ Len(q) \in Nat /\ Len(r) = Len(q) + 1 /\ r[Len(q) + 1] = p
      /\ \A i \in 1 .. Len(q) : r[i] = q[i]
  BY AppendElements
<1> HIDE DEF r, MtuResponse
<1>2. \A i \in 1 .. Len(r) : i \in 1 .. Len(q) \/ i = Len(q) + 1
  BY <1>1
<1>3. ASSUME NEW i \in 1 .. Len(r)
      PROVE  r[i].len <= m /\ (MtuResponse(r[i]) => r[i].len = DefaultMtu /\ x.currentMtu = m)
  <2>1. CASE i \in 1 .. Len(q)
    BY <1>1, <2>1 DEF Lengths
  <2>2. CASE i = Len(q) + 1
    BY <1>1, <2>2
  <2>3. QED
    BY <1>2, <2>1, <2>2
<1>4. Lengths(m, x2, r)
  BY <1>3 DEF Lengths
<1>5. QED
  BY <1>4 DEF r

LEMMA LengthsArrived ==
  ASSUME NEW m, NEW x, NEW q \in Seq(Packet), q # <<>>, Lengths(m, x, q)
  PROVE  Lengths(m, x, Tail(q))
<1> HIDE DEF Packet
<1>1. /\ Len(q) \in Nat \ {0} /\ Len(Tail(q)) = Len(q) - 1
      /\ \A i \in 1 .. Len(Tail(q)) : Tail(q)[i] = q[i + 1]
  BY TailElements
<1>2. \A i \in 1 .. Len(Tail(q)) : i + 1 \in 1 .. Len(q)
  BY <1>1
<1> HIDE DEF MtuResponse
<1>3. QED
  BY <1>1, <1>2 DEF Lengths

LEMMA ToldSent ==
  ASSUME NEW m, NEW x, NEW x2, NEW y, NEW q \in Seq(Packet), NEW p \in Packet, Told(m, x, y, q),
         x2.currentMtu = x.currentMtu, \A t \in x2.tasks : t.op = "read" => t \in x.tasks,
         y.currentMtu # m => p.len <= DefaultMtu \/ p.len = x.currentMtu
  PROVE  Told(m, x2, y, Append(q, p))
<1>0. p.len \in Nat /\ DefaultMtu \in Nat
  BY AttAssumption DEF Packet
<1> HIDE DEF Packet
<1> DEFINE r == Append(q, p)
<1>1. /\ Len(q) \in Nat /\ Len(r) = Len(q) + 1 /\ r[Len(q) + 1] = p
      /\ \A i \in 1 .. Len(q) : r[i] = q[i]
  BY AppendElements
<1> HIDE DEF r, MtuResponse
<1>2. CASE y.currentMtu = m
  BY <1>2 DEF Told, r
<1>3. CASE y.currentMtu # m
  <2>1. /\ Announced(q)
        /\ \A t \in x.tasks : t.op = "read" => t.mtu <= DefaultMtu
        /\ x.currentMtu # DefaultMtu => \E i \in 1 .. Len(q) : MtuResponse(q[i])
    BY <1>3 DEF Told
  <2>2. \A i \in 1 .. Len(q) : i \in 1 .. Len(r)
    BY <1>1
  <2>3. x.currentMtu # DefaultMtu => \E i \in 1 .. Len(q) : i \in 1 .. Len(r) /\ MtuResponse(r[i])
    BY <1>1, <2>1, <2>2
  <2>4. ASSUME NEW i \in 1 .. Len(r), r[i].len > DefaultMtu
        PROVE  \E j \in 1 .. Len(r) : j < i /\ MtuResponse(r[j])
    <3>1. CASE i \in 1 .. Len(q)
      <4>1. PICK j \in 1 .. Len(q) : j < i /\ MtuResponse(q[j])
        BY <1>1, <2>1, <2>4, <3>1 DEF Announced
      <4>2. QED
        BY <1>1, <2>2, <4>1
    <3>2. CASE i = Len(q) + 1
      <4>1. r[i].len = p.len
        BY <1>1, <3>2
      <4>2. x.currentMtu # DefaultMtu
        BY <1>0, <1>3, <2>4, <4>1
      <4>3. PICK j \in 1 .. Len(q) : j \in 1 .. Len(r) /\ MtuResponse(r[j])
        BY <2>3, <4>2
      <4>4. j < i
        BY <1>1, <3>2
      <4>5. QED
        BY <4>3, <4>4
    <3>3. QED
      BY <1>1, <3>1, <3>2
  <2>5. Announced(r)
    BY <2>4 DEF Announced
  <2>6. QED
    BY <2>1, <2>3, <2>5 DEF Told, r
<1>4. QED
  BY <1>2, <1>3

LEMMA ToldArrived ==
  ASSUME NEW m, NEW x, NEW y, NEW q \in Seq(Packet), q # <<>>, Told(m, x, y, q),
         ~MtuResponse(Head(q)) \/ y.currentMtu = m
  PROVE  Told(m, x, y, Tail(q))
<1> HIDE DEF Packet
<1> DEFINE r == Tail(q)
<1>1. /\ Len(q) \in Nat \ {0} /\ Len(r) = Len(q) - 1 /\ Head(q) = q[1]
      /\ \A i \in 1 .. Len(r) : r[i] = q[i + 1]
  BY TailElements
<1> HIDE DEF r, MtuResponse
<1>2. CASE y.currentMtu = m
  BY <1>2 DEF Told, r
<1>3. CASE y.currentMtu # m
  <2>1. /\ Announced(q)
        /\ \A t \in x.tasks : t.op = "read" => t.mtu <= DefaultMtu
        /\ x.currentMtu # DefaultMtu => \E i \in 1 .. Len(q) : MtuResponse(q[i])
    BY <1>3 DEF Told
  <2>2. ASSUME NEW j \in 1 .. Len(q), MtuResponse(q[j])
        PROVE  j - 1 \in 1 .. Len(r) /\ MtuResponse(r[j - 1])
    <3>1. j # 1
      BY <1>1, <1>3, <2>2
    <3>2. j - 1 \in 1 .. Len(r) /\ (j - 1) + 1 = j
      BY <1>1, <3>1
    <3>3. r[j - 1] = q[j]
      BY <1>1, <3>2
    <3>4. QED
      BY <2>2, <3>2, <3>3
  <2>3. ASSUME NEW i \in 1 .. Len(r), r[i].len > DefaultMtu
        PROVE  \E j \in 1 .. Len(r) : j < i /\ MtuResponse(r[j])
    <3>1. i + 1 \in 1 .. Len(q) /\ q[i + 1].len > DefaultMtu
      BY <1>1, <2>3
    <3>2. PICK j \in 1 .. Len(q) : j < i + 1 /\ MtuResponse(q[j])
      BY <2>1, <3>1 DEF Announced
    <3>3. j - 1 < i
      BY <1>1, <3>2
    <3>4. QED
      BY <2>2, <3>2, <3>3
  <2>4. Announced(r)
    BY <2>3 DEF Announced
  <2>5. x.currentMtu # DefaultMtu => \E i \in 1 .. Len(r) : MtuResponse(r[i])
    BY <2>1, <2>2
  <2>6. QED
    BY <2>1, <2>4, <2>5 DEF Told, r
<1>4. QED
  BY <1>2, <1>3

-----------------------------------------------------------------------------
(* Steps in which an end sends something of its own. *)

\* The state of an end goes from b to b2: a transaction begins or something is sent that is
\* not of a transaction, unless the end has timed out, or nothing is sent at all.
Sent(type, b, b2) ==
  \/ b2.out = b.out
  \/ \E p \in Packet :
       /\ p.type = type /\ p.len \in {DefaultMtu, b.currentMtu}
       /\ type \in Kinds => p.id = IdOf(type, b2) /\ p.op = OpOf(type, b2)
       /\ b2.out = Append(b.out, p)
OwnTypes == {"request", "indication", "command", "notification"}
StepOf(type, b, b2) ==
  /\ type \in Kinds => IdOf(type, b) = None /\ IdOf(type, b2) \in Nat \ {None}
  /\ \A k \in Kinds : k # type => IdOf(k, b2) = IdOf(k, b) /\ OpOf(k, b2) = OpOf(k, b)
  /\ Sent(type, b, b2)
OwnStep(b, b2) ==
  /\ Sound(b2) /\ b2.tasks = b.tasks /\ b2.currentMtu = b.currentMtu
  /\ \E type \in OwnTypes : StepOf(type, b, b2)

\* The transactions that the end has with the other.
LEMMA OwnStepAsks ==
  ASSUME NEW x, NEW x2, NEW y, NEW wx, NEW wy, NEW cx, x.out \in Seq(Packet), OwnStep(x, x2),
         NEW k \in Kinds, PathOf(k, x, y, wx, wy, cx)
  PROVE  PathOf(k, x2, y, wx, wy, cx)
<1> HIDE DEF Packet
<1>1. PICK type \in OwnTypes : StepOf(type, x, x2)
  BY DEF OwnStep
<1>2. Path(k, IdOf(k, x), OpOf(k, x), x.out, wx, TasksOf(k, y), y.out, wy, Runs(cx, k))
  BY DEF PathOf
<1>3. CASE type = k
  <2>1. IdOf(k, x) = None /\ IdOf(k, x2) \in Nat \ {None}
    BY <1>1, <1>3 DEF StepOf
  <2>2. \/ x2.out = x.out
        \/ \E p \in Packet : p.id = IdOf(k, x2) /\ p.op = OpOf(k, x2) /\ x2.out = Append(x.out, p)
    BY <1>1, <1>3 DEF StepOf, Sent
  <2> DEFINE id2 == IdOf(k, x2)
             op2 == OpOf(k, x2)
             out2 == x2.out
  <2>3. Path(k, None, OpOf(k, x), x.out, wx, TasksOf(k, y), y.out, wy, Runs(cx, k))
    BY <1>2, <2>1
  <2>4. id2 \in Nat \ {None}
    BY <2>1
  <2>5. out2 = x.out \/ \E p \in Packet : p.id = id2 /\ p.op = op2 /\ out2 = Append(x.out, p)
    BY <2>2
  <2> HIDE DEF id2, op2, out2
  <2>6. Path(k, id2, op2, out2, wx, TasksOf(k, y), y.out, wy, Runs(cx, k))
    BY <2>3, <2>4, <2>5, PathBegins
  <2>7. QED
    BY <2>6 DEF PathOf, id2, op2, out2
<1>4. CASE type # k
  <2>1. IdOf(k, x2) = IdOf(k, x) /\ OpOf(k, x2) = OpOf(k, x)
    BY <1>1, <1>4 DEF StepOf
  <2>2. CASE x2.out = x.out
    BY <1>2, <2>1, <2>2 DEF PathOf
  <2>3. ASSUME NEW p \in Packet, p.type = type, x2.out = Append(x.out, p)
        PROVE  PathOf(k, x2, y, wx, wy, cx)
    <3>1. p.type \notin Asks(k)
      BY <1>4, <2>3 DEF Asks
    <3>2. Path(k, IdOf(k, x), OpOf(k, x), Append(x.out, p), wx, TasksOf(k, y), y.out, wy, Runs(cx, k))
      BY <1>2, <3>1, PathOtherSent
    <3>3. QED
      BY <2>1, <2>3, <3>2 DEF PathOf
  <2>4. QED
    BY <1>1, <2>2, <2>3 DEF StepOf, Sent
<1>5. QED
  BY <1>3, <1>4

\* The transactions that the other has with the end.
LEMMA OwnStepReplies ==
  ASSUME NEW x, NEW x2, NEW y, NEW wx, NEW wy, NEW cy, x.out \in Seq(Packet), OwnStep(x, x2),
         NEW k \in Kinds, PathOf(k, y, x, wy, wx, cy)
  PROVE  PathOf(k, y, x2, wy, wx, cy)
<1> HIDE DEF Packet
<1>1. PICK type \in OwnTypes : StepOf(type, x, x2)
  BY DEF OwnStep
<1>2. Path(k, IdOf(k, y), OpOf(k, y), y.out, wy, TasksOf(k, x), x.out, wx, Runs(cy, k))
  BY DEF PathOf
<1>3. TasksOf(k, x2) = TasksOf(k, x)
  BY DEF OwnStep, TasksOf
<1>4. CASE x2.out = x.out
  BY <1>2, <1>3, <1>4 DEF PathOf
<1>5. ASSUME NEW p \in Packet, p.type = type, x2.out = Append(x.out, p)
      PROVE  PathOf(k, y, x2, wy, wx, cy)
  <2>1. p.type \notin Replies(k)
    BY <1>5 DEF Replies, OwnTypes
  <2>2. Path(k, IdOf(k, y), OpOf(k, y), y.out, wy, TasksOf(k, x), Append(x.out, p), wx, Runs(cy, k))
    BY <1>2, <2>1, PathOtherReplied
  <2>3. QED
    BY <1>3, <1>5, <2>2 DEF PathOf
<1>6. QED
  BY <1>1, <1>4, <1>5 DEF StepOf, Sent

\* The MTU m that the ends agree on.
Mtu(m) == m \in Nat /\ DefaultMtu \in Nat /\ DefaultMtu <= m

LEMMA OwnStepLengths ==
  ASSUME NEW m, Mtu(m), NEW x, NEW x2, NEW y, NEW wx \in Seq(Packet), x.out \in Seq(Packet),
         OwnStep(x, x2), Lengths(m, x, wx \o x.out), Told(m, x, y, wx \o x.out)
  PROVE  Lengths(m, x2, wx \o x2.out) /\ Told(m, x2, y, wx \o x2.out)
<1> HIDE DEF Packet
<1>1. PICK type \in OwnTypes : StepOf(type, x, x2)
  BY DEF OwnStep
<1>2. x2.tasks = x.tasks /\ x2.currentMtu = x.currentMtu
  BY DEF OwnStep
<1>3. CASE x2.out = x.out
  BY <1>2, <1>3 DEF Lengths, Told
<1>4. ASSUME NEW p \in Packet, p.type = type, p.len \in {DefaultMtu, x.currentMtu},
             x2.out = Append(x.out, p)
      PROVE  Lengths(m, x2, wx \o x2.out) /\ Told(m, x2, y, wx \o x2.out)
  <2> DEFINE q == wx \o x.out
  <2>1. wx \o x2.out = Append(q, p) /\ q \in Seq(Packet)
    BY <1>4, ConcatAppend
  <2>2. p.len <= m
    BY <1>4 DEF Lengths, Mtu
  <2>3. ~MtuResponse(p)
    BY <1>4 DEF MtuResponse, OwnTypes
  <2>4. \A t \in x2.tasks : t.mtu <= m
    BY <1>2 DEF Lengths
  <2>5. Lengths(m, x, q) /\ Told(m, x, y, q)
    OBVIOUS
  <2> HIDE DEF q
  <2>6. Lengths(m, x2, Append(q, p))
    BY <1>2, <2>1, <2>2, <2>3, <2>4, <2>5, LengthsSent
  <2>7. Told(m, x2, y, Append(q, p))
    <3>1. p.len <= DefaultMtu \/ p.len = x.currentMtu
      BY <1>4 DEF Mtu
    <3>2. QED
      BY <1>2, <2>1, <2>5, <3>1, ToldSent
  <2>8. QED
    BY <2>1, <2>6, <2>7
<1>5. QED
  BY <1>1, <1>3, <1>4 DEF StepOf, Sent

\* Nothing that the other end has sent is touched.
LEMMA PairOwnStep ==
  ASSUME NEW m, Mtu(m), NEW x, NEW x2, NEW y, NEW wx, NEW wy, NEW cx, NEW cy,
         Pair(m, x, y, wx, wy, cx, cy), OwnStep(x, x2)
  PROVE  Pair(m, x2, y, wx, wy, cx, cy)
<1> HIDE DEF Packet
<1>1. x.out \in Seq(Packet) /\ wx \in Seq(Packet)
  BY DEF Pair, Way, Sound, Bearer
<1>2. \A k \in Kinds : PathOf(k, x2, y, wx, wy, cx)
  BY <1>1, OwnStepAsks DEF Pair, Way
<1>3. \A k \in Kinds : PathOf(k, y, x2, wy, wx, cy)
  BY <1>1, OwnStepReplies DEF Pair, Way
<1>4. Lengths(m, x2, wx \o x2.out) /\ Told(m, x2, y, wx \o x2.out)
  BY <1>1, OwnStepLengths DEF Pair, Way
<1>5. Told(m, y, x2, wy \o y.out)
  BY DEF Pair, Way, Told, OwnStep
<1>6. QED
  BY <1>2, <1>3, <1>4, <1>5 DEF Pair, Way, OwnStep

-----------------------------------------------------------------------------
(* The functions of AttConnection and GattConnection. *)

LEMMA SomeInSent ==
  ASSUME NEW q \in Seq(Packet), NEW p \in Packet, NEW types, ~NoneIn(q, types) \/ p.type \in types
  PROVE  ~NoneIn(Append(q, p), types)
<1> HIDE DEF Packet
<1> DEFINE r == Append(q, p)
<1>1. /\ Len(q) \in Nat /\ Len(r) = Len(q) + 1 /\ r[Len(q) + 1] = p
      /\ \A i \in 1 .. Len(q) : r[i] = q[i]
  BY AppendElements
<1> HIDE DEF r
<1>2. Len(q) + 1 \in 1 .. Len(r) /\ \A i \in 1 .. Len(q) : i \in 1 .. Len(r)
  BY <1>1
<1>3. ~NoneIn(r, types)
  BY <1>1, <1>2 DEF NoneIn
<1>4. QED
  BY <1>3 DEF r

LEMMA SendDataSound ==
  ASSUME NEW b, Sound(b), NEW p \in Packet
  PROVE  /\ Sound(SendData(b, p))
         /\ SendData(b, p).out = (IF b.timedout THEN b.out ELSE Append(b.out, p))
         /\ SendData(b, p).tasks = b.tasks /\ SendData(b, p).currentMtu = b.currentMtu
         /\ SendData(b, p).currentOutgoingRequest = b.currentOutgoingRequest
         /\ SendData(b, p).currentOutgoingIndication = b.currentOutgoingIndication
<1> HIDE DEF Packet
<1>1. CASE b.timedout
  BY <1>1 DEF SendData
<1>2. CASE ~b.timedout
  <2> DEFINE c == [b EXCEPT !.out = Append(@, p)]
  <2>1. b \in Bearer /\ b.out \in Seq(Packet)
    BY DEF Sound, Bearer
  <2>2. Append(b.out, p) \in Seq(Packet)
    BY <2>1, AppendElements
  <2>3. c \in Bearer
    BY <2>1, <2>2 DEF Bearer
  <2>4. /\ c.out = Append(b.out, p)
        /\ c.tasks = b.tasks /\ c.currentMtu = b.currentMtu /\ c.timedout = b.timedout
        /\ c.currentOutgoingRequest = b.currentOutgoingRequest
        /\ c.currentOutgoingRequestIsSent = b.currentOutgoingRequestIsSent
        /\ c.currentOutgoingIndication = b.currentOutgoingIndication
        /\ c.isHandlingRequest = b.isHandlingRequest
        /\ c.hasOutgoingConfirmation = b.hasOutgoingConfirmation
        /\ c.indicationQueue = b.indicationQueue
    BY <2>1 DEF Bearer
  <2> HIDE DEF c
  <2>5. \A types : ~NoneIn(b.out, types) => ~NoneIn(c.out, types)
    BY <2>1, <2>4, SomeInSent
  <2>6. FlagsMean(c)
    BY <2>4, <2>5 DEF Sound, FlagsMean, TasksOf
  <2>7. Sound(c)
    BY <2>3, <2>4, <2>6 DEF Sound, StagesMean
  <2>8. SendData(b, p) = c
    BY <1>2 DEF SendData, c
  <2>9. QED
    BY <1>2, <2>4, <2>7, <2>8
<1>3. QED
  BY <1>1, <1>2

\* A command or a notification.
LEMMA SendDataStep ==
  ASSUME NEW b, Sound(b), NEW type \in {"command", "notification"}, NEW op \in {"command", "none"},
         NEW id \in Nat, NEW len \in {DefaultMtu, b.currentMtu}, DefaultMtu \in Nat
  PROVE  OwnStep(b, SendData(b, Pdu(type, op, id, len)))
<1> DEFINE p == Pdu(type, op, id, len)
           c == SendData(b, p)
<1>1. p \in Packet /\ p.type = type /\ p.len = len
  BY DEF Pdu, Packet, Type, Sound, Bearer
<1> HIDE DEF p, Packet
<1>2. /\ Sound(c) /\ c.out = (IF b.timedout THEN b.out ELSE Append(b.out, p))
      /\ c.tasks = b.tasks /\ c.currentMtu = b.currentMtu
      /\ c.currentOutgoingRequest = b.currentOutgoingRequest
      /\ c.currentOutgoingIndication = b.currentOutgoingIndication
  BY <1>1, SendDataSound
<1> HIDE DEF c
<1>3. Sent(type, b, c)
  BY <1>1, <1>2 DEF Sent, Kinds
<1>4. StepOf(type, b, c)
  BY <1>2, <1>3 DEF StepOf, IdOf, OpOf, Kinds
<1>5. OwnStep(b, c)
  BY <1>2, <1>4 DEF OwnStep, OwnTypes
<1>6. QED
  BY <1>5 DEF c, p

LEMMA SendNextRequestStep ==
  ASSUME NEW b, Sound(b), DefaultMtu \in Nat
  PROVE  OwnStep(b, SendNextRequest(b))
<1>1. b \in Bearer
  BY DEF Sound
<1>2. CASE ~MaySendRequest(b)
  <2>1. StepOf("command", b, b)
    BY DEF StepOf, Sent, Kinds
  <2>2. SendNextRequest(b) = b
    BY <1>2 DEF SendNextRequest
  <2>3. QED
    BY <2>1, <2>2 DEF OwnStep, OwnTypes
<1>3. CASE MaySendRequest(b)
  <2> DEFINE next == Head(b.requestQueue)
             p == Pdu("request", next.op, next.id, IF next.op = "mtu" THEN DefaultMtu ELSE b.currentMtu)
             b1 == [b EXCEPT !.currentOutgoingRequest = next, !.requestQueue = Tail(@),
                             !.currentOutgoingRequestIsSent = FALSE]
             c == SendData(b1, p)
  <2>1. b.requestQueue \in Seq(Request) /\ b.requestQueue # <<>> /\ b.currentOutgoingRequest = NoRequest
    BY <1>1, <1>3 DEF MaySendRequest, Bearer
  <2>2. next \in Request /\ Tail(b.requestQueue) \in Seq(Request)
    <3> HIDE DEF Request
    <3>1. QED
      BY <2>1, TailElements
  <2>3. /\ next.id \in Nat \ {None} /\ next.op \in Op
    BY <2>2 DEF Request
  <2> HIDE DEF next
  <2>4. /\ p \in Packet /\ p.type = "request" /\ p.id = next.id /\ p.op = next.op
        /\ p.len \in {DefaultMtu, b.currentMtu}
    BY <1>1, <2>3 DEF Pdu, Packet, Type, Bearer
  <2> HIDE DEF p, Packet
  <2>5. b1 \in Bearer /\ b.out \in Seq(Packet)
    <3> HIDE DEF Request
    <3>1. QED
      BY <1>1, <2>2 DEF Bearer
  <2>6. /\ b1.out = b.out /\ b1.tasks = b.tasks /\ b1.currentMtu = b.currentMtu
        /\ b1.timedout = b.timedout /\ b1.currentOutgoingRequest = next
        /\ b1.currentOutgoingIndication = b.currentOutgoingIndication
        /\ b1.isHandlingRequest = b.isHandlingRequest
        /\ b1.hasOutgoingConfirmation = b.hasOutgoingConfirmation
        /\ b1.indicationQueue = b.indicationQueue
    BY <1>1 DEF Bearer
  <2> HIDE DEF b1
  <2>7. /\ c \in Bearer /\ c.out = (IF b.timedout THEN b.out ELSE Append(b.out, p))
        /\ c.tasks = b.tasks /\ c.currentMtu = b.currentMtu
        /\ c.timedout = b.timedout /\ c.currentOutgoingRequest = next
        /\ c.currentOutgoingIndication = b.currentOutgoingIndication
        /\ c.isHandlingRequest = b.isHandlingRequest
        /\ c.hasOutgoingConfirmation = b.hasOutgoingConfirmation
        /\ c.indicationQueue = b.indicationQueue
    <3>1. CASE b.timedout
      BY <2>5, <2>6, <3>1 DEF SendData
    <3>2. CASE ~b.timedout
      <4>1. Append(b1.out, p) \in Seq(Packet)
        BY <2>4, <2>5, <2>6, AppendElements
      <4>2. c = [b1 EXCEPT !.out = Append(@, p)]
        BY <2>6, <3>2 DEF SendData
      <4> HIDE DEF c
      <4>3. c \in Bearer
        BY <2>5, <4>1, <4>2 DEF Bearer
      <4>4. QED
        BY <2>5, <2>6, <3>2, <4>2, <4>3 DEF Bearer
    <3>3. QED
      BY <3>1, <3>2
  <2>8. SendNextRequest(b) = c
    BY <1>3 DEF SendNextRequest, c, p, b1, next
  <2> HIDE DEF c
  <2>9. FlagsMean(c)
    <3>1. CASE b.timedout
      BY <2>7, <3>1 DEF FlagsMean
    <3>2. CASE ~b.timedout
      <4>1. \A types : ~NoneIn(b.out, types) \/ "request" \in types => ~NoneIn(c.out, types)
        BY <2>4, <2>5, <2>7, <3>2, SomeInSent
      <4>2. QED
        BY <2>7, <3>2, <4>1 DEF FlagsMean, Sound, TasksOf, Asks
    <3>3. QED
      BY <3>1, <3>2
  <2>10. Sound(c)
    BY <2>7, <2>9 DEF Sound, StagesMean
  <2>11. Sent("request", b, c)
    BY <2>4, <2>7 DEF Sent, IdOf, OpOf
  <2>12. StepOf("request", b, c)
    BY <2>1, <2>3, <2>7, <2>11 DEF StepOf, IdOf, OpOf, Kinds, NoRequest
  <2>13. QED
    BY <2>7, <2>8, <2>10, <2>12 DEF OwnStep, OwnTypes
<1>4. QED
  BY <1>2, <1>3

LEMMA SendNextIndicationStep ==
  ASSUME NEW b, Sound(b), DefaultMtu \in Nat
  PROVE  OwnStep(b, SendNextIndication(b))
<1>1. b \in Bearer
  BY DEF Sound
<1>2. CASE ~MaySendIndication(b)
  <2>1. StepOf("command", b, b)
    BY DEF StepOf, Sent, Kinds
  <2>2. SendNextIndication(b) = b
    BY <1>2 DEF SendNextIndication
  <2>3. QED
    BY <2>1, <2>2 DEF OwnStep, OwnTypes
<1>3. CASE MaySendIndication(b)
  <2> DEFINE next == Head(b.indicationQueue)
             p == Pdu("indication", "none", next, b.currentMtu)
             b1 == [b EXCEPT !.currentOutgoingIndication = next, !.indicationQueue = Tail(@),
                             !.currentOutgoingIndicationIsSent = FALSE]
             c == SendData(b1, p)
  <2>1. /\ b.indicationQueue \in Seq(Nat \ {None}) /\ b.indicationQueue # <<>>
        /\ b.currentOutgoingIndication = None
    BY <1>3 DEF MaySendIndication, Sound
  <2>2. next \in Nat \ {None} /\ Tail(b.indicationQueue) \in Seq(Nat \ {None})
    BY <2>1, TailElements
  <2>3. Tail(b.indicationQueue) \in Seq(Nat)
    BY <1>1, <2>1, TailElements DEF Bearer
  <2> HIDE DEF next
  <2>4. /\ p \in Packet /\ p.type = "indication" /\ p.id = next /\ p.op = "none"
        /\ p.len \in {DefaultMtu, b.currentMtu}
    BY <1>1, <2>2 DEF Pdu, Packet, Type, Bearer
  <2> HIDE DEF p, Packet
  <2>5. b1 \in Bearer /\ b.out \in Seq(Packet)
    BY <1>1, <2>2, <2>3 DEF Bearer
  <2>6. /\ b1.out = b.out /\ b1.tasks = b.tasks /\ b1.currentMtu = b.currentMtu
        /\ b1.timedout = b.timedout /\ b1.currentOutgoingIndication = next
        /\ b1.currentOutgoingRequest = b.currentOutgoingRequest
        /\ b1.currentOutgoingRequestIsSent = b.currentOutgoingRequestIsSent
        /\ b1.isHandlingRequest = b.isHandlingRequest
        /\ b1.hasOutgoingConfirmation = b.hasOutgoingConfirmation
        /\ b1.indicationQueue = Tail(b.indicationQueue)
    BY <1>1 DEF Bearer
  <2> HIDE DEF b1
  <2>7. /\ c \in Bearer /\ c.out = (IF b.timedout THEN b.out ELSE Append(b.out, p))
        /\ c.tasks = b.tasks /\ c.currentMtu = b.currentMtu
        /\ c.timedout = b.timedout /\ c.currentOutgoingIndication = next
        /\ c.currentOutgoingRequest = b.currentOutgoingRequest
        /\ c.currentOutgoingRequestIsSent = b.currentOutgoingRequestIsSent
        /\ c.isHandlingRequest = b.isHandlingRequest
        /\ c.hasOutgoingConfirmation = b.hasOutgoingConfirmation
        /\ c.indicationQueue = Tail(b.indicationQueue)
    <3>1. CASE b.timedout
      BY <2>5, <2>6, <3>1 DEF SendData
    <3>2. CASE ~b.timedout
      <4>1. Append(b1.out, p) \in Seq(Packet)
        BY <2>4, <2>5, <2>6, AppendElements
      <4>2. c = [b1 EXCEPT !.out = Append(@, p)]
        BY <2>6, <3>2 DEF SendData
      <4> HIDE DEF c
      <4>3. c \in Bearer
        BY <2>5, <4>1, <4>2 DEF Bearer
      <4>4. QED
        BY <2>5, <2>6, <3>2, <4>2, <4>3 DEF Bearer
    <3>3. QED
      BY <3>1, <3>2
  <2>8. SendNextIndication(b) = c
    BY <1>3 DEF SendNextIndication, c, p, b1, next
  <2> HIDE DEF c
  <2>9. FlagsMean(c)
    <3>1. CASE b.timedout
      BY <2>7, <3>1 DEF FlagsMean
    <3>2. CASE ~b.timedout
      <4>1. \A types : ~NoneIn(b.out, types) => ~NoneIn(c.out, types)
        BY <2>4, <2>5, <2>7, <3>2, SomeInSent
      <4>2. QED
        BY <2>7, <3>2, <4>1 DEF FlagsMean, Sound, TasksOf
    <3>3. QED
      BY <3>1, <3>2
  <2>10. Sound(c)
    BY <2>2, <2>7, <2>9 DEF Sound, StagesMean
  <2>11. Sent("indication", b, c)
    BY <2>4, <2>7 DEF Sent, IdOf, OpOf
  <2>12. StepOf("indication", b, c)
    BY <2>1, <2>2, <2>7, <2>11 DEF StepOf, IdOf, OpOf, Kinds
  <2>13. QED
    BY <2>7, <2>8, <2>10, <2>12 DEF OwnStep, OwnTypes
<1>4. QED
  BY <1>2, <1>3

\* b2 differs from b in queues and in flags of GattConnection at most.
QueuesChange(b, b2) ==
  /\ b2 \in Bearer /\ b2.indicationQueue \in Seq(Nat \ {None})
  /\ b2.out = b.out /\ b2.tasks = b.tasks /\ b2.currentMtu = b.currentMtu
  /\ b2.timedout = b.timedout
  /\ b2.currentOutgoingRequest = b.currentOutgoingRequest
  /\ b2.currentOutgoingRequestIsSent = b.currentOutgoingRequestIsSent
  /\ b2.currentOutgoingIndication = b.currentOutgoingIndication
  /\ b2.isHandlingRequest = b.isHandlingRequest
  /\ b2.hasOutgoingConfirmation = b.hasOutgoingConfirmation

LEMMA QueuesChangeStep ==
  ASSUME NEW b, Sound(b), NEW b2, QueuesChange(b, b2)
  PROVE  /\ Sound(b2) /\ OwnStep(b, b2)
         /\ \A b3 : OwnStep(b2, b3) => OwnStep(b, b3)
<1>1. Sound(b2)
  <2>1. FlagsMean(b2)
    BY DEF Sound, QueuesChange, FlagsMean, TasksOf
  <2>2. QED
    BY <2>1 DEF Sound, QueuesChange, StagesMean
<1>2. \A k : IdOf(k, b2) = IdOf(k, b) /\ OpOf(k, b2) = OpOf(k, b)
  BY DEF QueuesChange, IdOf, OpOf
<1>3. OwnStep(b, b2)
  <2>1. StepOf("command", b, b2)
    BY <1>2 DEF StepOf, Sent, Kinds, QueuesChange
  <2>2. QED
    BY <1>1, <2>1 DEF OwnStep, OwnTypes, QueuesChange
<1>4. ASSUME NEW b3, OwnStep(b2, b3)
      PROVE  OwnStep(b, b3)
  <2>1. PICK type \in OwnTypes : StepOf(type, b2, b3)
    BY <1>4 DEF OwnStep
  <2>2. Sent(type, b, b3)
    BY <2>1 DEF StepOf, Sent, QueuesChange
  <2>3. StepOf(type, b, b3)
    BY <1>2, <2>1, <2>2 DEF StepOf
  <2>4. QED
    BY <1>4, <2>3 DEF OwnStep, QueuesChange
<1>5. QED
  BY <1>1, <1>3, <1>4

LEMMA EnqueueRequestStep ==
  ASSUME NEW b, Sound(b), NEW r \in Request, DefaultMtu \in Nat
  PROVE  OwnStep(b, EnqueueRequest(b, r))
<1> HIDE DEF Request
<1> DEFINE b2 == [b EXCEPT !.requestQueue = Append(@, r)]
<1>1. b \in Bearer /\ Append(b.requestQueue, r) \in Seq(Request)
  BY AppendElements DEF Sound, Bearer
<1>2. b2 \in Bearer
  BY <1>1 DEF Bearer
<1>3. QueuesChange(b, b2)
  BY <1>1, <1>2 DEF QueuesChange, Bearer, Sound
<1> HIDE DEF b2
<1>4. OwnStep(b2, SendNextRequest(b2))
  BY <1>3, QueuesChangeStep, SendNextRequestStep
<1>5. OwnStep(b, SendNextRequest(b2))
  BY <1>3, <1>4, QueuesChangeStep
<1>6. QED
  BY <1>5 DEF EnqueueRequest, b2

LEMMA NextRequestStep ==
  ASSUME NEW b, Sound(b), DefaultMtu \in Nat
  PROVE  OwnStep(b, NextRequest(b))
<1> HIDE DEF Request
<1>1. CASE ~(~b.hasPendingRequest /\ b.procedureQueue # <<>>)
  <2>1. StepOf("command", b, b)
    BY DEF StepOf, Sent, Kinds
  <2>2. NextRequest(b) = b
    BY <1>1 DEF NextRequest
  <2>3. QED
    BY <2>1, <2>2 DEF OwnStep, OwnTypes
<1>2. CASE ~b.hasPendingRequest /\ b.procedureQueue # <<>>
  <2> DEFINE b2 == [b EXCEPT !.hasPendingRequest = TRUE, !.procedureQueue = Tail(@)]
             r == Head(b.procedureQueue)
  <2>1. b \in Bearer /\ b.procedureQueue \in Seq(Request)
    BY DEF Sound, Bearer
  <2>2. r \in Request /\ Tail(b.procedureQueue) \in Seq(Request)
    BY <1>2, <2>1, TailElements
  <2>3. b2 \in Bearer
    BY <2>1, <2>2 DEF Bearer
  <2>4. QueuesChange(b, b2)
    BY <2>1, <2>3 DEF QueuesChange, Bearer, Sound
  <2>5. NextRequest(b) = EnqueueRequest(b2, r)
    BY <1>2 DEF NextRequest
  <2> HIDE DEF b2, r
  <2>6. OwnStep(b2, EnqueueRequest(b2, r))
    BY <2>2, <2>4, QueuesChangeStep, EnqueueRequestStep
  <2>7. QED
    BY <2>4, <2>5, <2>6, QueuesChangeStep
<1>3. QED
  BY <1>1, <1>2

LEMMA DoneNextRequestStep ==
  ASSUME NEW b, Sound(b), DefaultMtu \in Nat
  PROVE  OwnStep(b, DoneNextRequest(b))
<1> DEFINE b2 == [b EXCEPT !.hasPendingRequest = FALSE]
<1>1. b \in Bearer
  BY DEF Sound
<1>2. b2 \in Bearer
  BY <1>1 DEF Bearer
<1>3. QueuesChange(b, b2)
  BY <1>1, <1>2 DEF QueuesChange, Bearer, Sound
<1> HIDE DEF b2
<1>4. OwnStep(b2, NextRequest(b2))
  BY <1>3, QueuesChangeStep, NextRequestStep
<1>5. QED
  BY <1>3, <1>4, QueuesChangeStep DEF DoneNextRequest, b2

-----------------------------------------------------------------------------
(* The calls of the application, as steps of an end. *)

LEMMA ProcedureStep ==
  ASSUME NEW b, Sound(b), NEW r \in Request, DefaultMtu \in Nat
  PROVE  OwnStep(b, NextRequest([b EXCEPT !.procedureQueue = Append(@, r),
                                          !.hasExchangedMtu = @ \/ r.op = "mtu"]))
<1> DEFINE b2 == [b EXCEPT !.procedureQueue = Append(@, r), !.hasExchangedMtu = @ \/ r.op = "mtu"]
           e == b.hasExchangedMtu \/ r.op = "mtu"
<1> HIDE DEF Request
<1>1. b \in Bearer /\ Append(b.procedureQueue, r) \in Seq(Request) /\ e \in BOOLEAN
  BY AppendElements DEF Sound, Bearer
<1>2. b2 = [b EXCEPT !.procedureQueue = Append(@, r), !.hasExchangedMtu = e]
  BY <1>1 DEF Bearer
<1> HIDE DEF b2, e
<1>3. b2 \in Bearer
  BY <1>1, <1>2 DEF Bearer
<1>4. QueuesChange(b, b2)
  BY <1>1, <1>2, <1>3 DEF QueuesChange, Bearer, Sound
<1>5. OwnStep(b2, NextRequest(b2))
  BY <1>4, QueuesChangeStep, NextRequestStep
<1>6. OwnStep(b, NextRequest(b2))
  BY <1>4, <1>5, QueuesChangeStep
<1>7. QED
  BY <1>6 DEF b2

LEMMA IndicateStep ==
  ASSUME NEW b, Sound(b), NEW n \in Nat \ {None}, DefaultMtu \in Nat
  PROVE  OwnStep(b, SendNextIndication([b EXCEPT !.indicationQueue = Append(@, n)]))
<1> DEFINE b2 == [b EXCEPT !.indicationQueue = Append(@, n)]
<1>1. b \in Bearer /\ Append(b.indicationQueue, n) \in Seq(Nat \ {None})
  BY AppendElements DEF Sound
<1>2. Append(b.indicationQueue, n) \in Seq(Nat)
  BY <1>1, AppendElements DEF Bearer
<1>3. b2 \in Bearer
  BY <1>1, <1>2 DEF Bearer
<1>4. QueuesChange(b, b2)
  BY <1>1, <1>3 DEF QueuesChange, Bearer
<1> HIDE DEF b2
<1>5. OwnStep(b2, SendNextIndication(b2))
  BY <1>4, QueuesChangeStep, SendNextIndicationStep
<1>6. OwnStep(b, SendNextIndication(b2))
  BY <1>4, <1>5, QueuesChangeStep
<1>7. QED
  BY <1>6 DEF b2

\* A notification waits for the end of an MTU exchange.
LEMMA NotificationWaits ==
  ASSUME NEW b, Sound(b), NEW n \in Nat
  PROVE  OwnStep(b, [b EXCEPT !.notificationQueue = Append(@, n)])
<1> DEFINE b2 == [b EXCEPT !.notificationQueue = Append(@, n)]
<1>1. b \in Bearer /\ Append(b.notificationQueue, n) \in Seq(Nat)
  BY AppendElements DEF Sound, Bearer
<1>2. b2 \in Bearer
  BY <1>1 DEF Bearer
<1>3. QueuesChange(b, b2)
  BY <1>1, <1>2 DEF QueuesChange, Bearer, Sound
<1> HIDE DEF b2
<1>4. OwnStep(b, b2)
  BY <1>3, QueuesChangeStep
<1>5. QED
  BY <1>4 DEF b2

LEMMA FlushStep ==
  ASSUME NEW b, Sound(b), b.notificationQueue # <<>>, DefaultMtu \in Nat
  PROVE  OwnStep(b, SendData([b EXCEPT !.notificationQueue = Tail(@)],
                             Pdu("notification", "none", Head(b.notificationQueue), b.currentMtu)))
<1> DEFINE b2 == [b EXCEPT !.notificationQueue = Tail(@)]
           n == Head(b.notificationQueue)
<1>1. b \in Bearer /\ n \in Nat /\ Tail(b.notificationQueue) \in Seq(Nat)
  BY TailElements DEF Sound, Bearer
<1>2. b2 \in Bearer
  BY <1>1 DEF Bearer
<1>3. QueuesChange(b, b2)
  BY <1>1, <1>2 DEF QueuesChange, Bearer, Sound
<1> DEFINE c == SendData(b2, Pdu("notification", "none", n, b.currentMtu))
<1> HIDE DEF b2, n
<1>4. OwnStep(b2, c)
  <2>1. b2.currentMtu = b.currentMtu /\ Sound(b2)
    BY <1>3, QueuesChangeStep DEF QueuesChange
  <2>2. QED
    BY <1>1, <2>1, SendDataStep
<1> HIDE DEF c
<1>5. OwnStep(b, c)
  BY <1>3, <1>4, QueuesChangeStep
<1>6. QED
  BY <1>5 DEF b2, n, c

-----------------------------------------------------------------------------
(* The activations on the stack of an end. *)

LEMMA CalledLess ==
  ASSUME NEW k, NEW id, NEW op, NEW out, NEW wire1, NEW tasks, NEW back, NEW wire2,
         NEW called, NEW called2, called2 => called,
         Path(k, id, op, out, wire1, tasks, back, wire2, called)
  PROVE  Path(k, id, op, out, wire1, tasks, back, wire2, called2)
BY DEF Path, PathAt

LEMMA PairStack ==
  ASSUME NEW m, NEW x, NEW y, NEW wx, NEW wy, NEW cx, NEW cy, Pair(m, x, y, wx, wy, cx, cy),
         NEW cx2, Nested(cx2), \A k \in Kinds : Runs(cx2, k) => Runs(cx, k)
  PROVE  Pair(m, x, y, wx, wy, cx2, cy)
<1>1. ASSUME NEW k \in Kinds
      PROVE  PathOf(k, x, y, wx, wy, cx2)
  <2>1. Path(k, IdOf(k, x), OpOf(k, x), x.out, wx, TasksOf(k, y), y.out, wy, Runs(cx, k))
    BY DEF Pair, Way, PathOf
  <2> DEFINE called == Runs(cx, k)
             called2 == Runs(cx2, k)
  <2>2. called2 => called
    OBVIOUS
  <2>3. Path(k, IdOf(k, x), OpOf(k, x), x.out, wx, TasksOf(k, y), y.out, wy, called)
    BY <2>1
  <2> HIDE DEF called, called2
  <2>4. Path(k, IdOf(k, x), OpOf(k, x), x.out, wx, TasksOf(k, y), y.out, wy, called2)
    BY <2>2, <2>3, CalledLess
  <2>5. QED
    BY <2>4 DEF PathOf, called2
<1>2. QED
  BY <1>1 DEF Pair, Way

\* A callback of a sent packet begins.
LEMMA PushSent ==
  ASSUME NEW c, Nested(c)
  PROVE  /\ Nested(Append(c, "sent"))
         /\ \A k \in Kinds : Runs(Append(c, "sent"), k) => Runs(c, k)
<1> DEFINE d == Append(c, "sent")
<1>1. c \in Seq(Frames) /\ "sent" \in Frames
  BY DEF Nested, Frames
<1>2. /\ d \in Seq(Frames) /\ Len(c) \in Nat /\ Len(d) = Len(c) + 1 /\ d[Len(c) + 1] = "sent"
      /\ \A i \in 1 .. Len(c) : d[i] = c[i]
  BY <1>1, AppendElements
<1>3. c # <<>> => Len(c) \in Nat \ {0}
  BY <1>1, EmptySeq
<1>4. c = <<>> => Len(c) = 0
  BY <1>1, EmptySeq
<1> HIDE DEF d, Frames
<1>5. Nested(d)
  <2>1. ASSUME NEW i \in 2 .. Len(d)
        PROVE  d[i] = "sent"
    <3>1. i \in 2 .. Len(c) \/ i = Len(c) + 1
      BY <1>2
    <3>2. i \in 2 .. Len(c) => i \in 1 .. Len(c)
      BY <1>2
    <3>3. QED
      BY <1>2, <3>1, <3>2 DEF Nested
  <2>2. QED
    BY <1>2, <2>1 DEF Nested
<1>6. ASSUME NEW k \in Kinds, Runs(d, k)
      PROVE  Runs(c, k)
  <2>1. CASE c = <<>>
    <3>1. d[1] = "sent"
      BY <1>2, <1>4, <2>1
    <3>2. QED
      BY <1>6, <3>1 DEF Runs, Callback
  <2>2. CASE c # <<>>
    <3>1. d[1] = c[1]
      BY <1>2, <1>3, <2>2
    <3>2. QED
      BY <1>6, <2>2, <3>1 DEF Runs
  <2>3. QED
    BY <2>1, <2>2
<1>7. QED
  BY <1>5, <1>6 DEF d

\* An activation ends.
LEMMA PopFrame ==
  ASSUME NEW c, Nested(c), c # <<>>
  PROVE  LET d == SubSeq(c, 1, Len(c) - 1) IN
         /\ Nested(d) /\ \A k \in Kinds : Runs(d, k) => Runs(c, k)
         /\ c[Len(c)] # "sent" => Len(c) = 1 /\ d = <<>>
<1> DEFINE d == SubSeq(c, 1, Len(c) - 1)
<1>1. c \in Seq(Frames) /\ Len(c) \in Nat \ {0}
  BY EmptySeq DEF Nested
<1>2. \A i \in 1 .. Len(c) - 1 : c[i] \in Frames
  <2> HIDE DEF Frames
  <2>1. \A i \in 1 .. Len(c) - 1 : i \in 1 .. Len(c)
    BY <1>1
  <2>2. QED
    BY <1>1, <2>1, ElementOfSeq
<1>3. /\ d \in Seq(Frames) /\ Len(d) = Len(c) - 1
      /\ \A i \in 1 .. Len(c) - 1 : d[i] = c[i]
  <2> HIDE DEF Frames
  <2> DEFINE n == Len(c) - 1
  <2>1. n \in Int /\ 1 \in Int /\ n - 1 + 1 = n /\ n >= 0
    BY <1>1
  <2>2. /\ SubSeq(c, 1, n) \in Seq(Frames)
        /\ Len(SubSeq(c, 1, n)) = (IF 1 <= n THEN n - 1 + 1 ELSE 0)
        /\ \A i \in 1 .. n - 1 + 1 : SubSeq(c, 1, n)[i] = c[1 + i - 1]
    <3>1. \A i \in 1 .. n : c[i] \in Frames
      BY <1>2
    <3> HIDE DEF n
    <3>2. QED
      BY <2>1, <3>1, SubSeqProperties
  <2>3. \A i \in 1 .. n : 1 + i - 1 = i
    BY <2>1
  <2>4. Len(SubSeq(c, 1, n)) = n
    <3> HIDE DEF n
    <3>1. QED
      BY <2>1, <2>2
  <2>5. \A i \in 1 .. n : SubSeq(c, 1, n)[i] = c[i]
    <3> HIDE DEF n
    <3>1. QED
      BY <2>1, <2>2, <2>3
  <2>6. QED
    BY <2>2, <2>4, <2>5
<1>4. d # <<>> => Len(d) \in Nat \ {0}
  <2> HIDE DEF d, Frames
  <2>1. QED
    BY <1>3, EmptySeq
<1> HIDE DEF d
<1>5. Nested(d)
  <2>1. \A i \in 2 .. Len(d) : i \in 2 .. Len(c) /\ i \in 1 .. Len(c) - 1
    BY <1>1, <1>3
  <2>2. QED
    BY <1>3, <2>1 DEF Nested
<1>6. ASSUME NEW k \in Kinds, Runs(d, k)
      PROVE  Runs(c, k)
  <2>1. d # <<>>
    BY <1>6 DEF Runs
  <2>2. 1 \in 1 .. Len(c) - 1
    BY <1>1, <1>3, <1>4, <2>1
  <2>3. QED
    BY <1>3, <1>6, <2>2 DEF Runs
<1>7. ASSUME c[Len(c)] # "sent"
      PROVE  Len(c) = 1 /\ d = <<>>
  <2>1. Len(c) \notin 2 .. Len(c)
    BY <1>7 DEF Nested
  <2>2. Len(c) = 1
    <3> DEFINE n == Len(c)
    <3>1. n \in Nat \ {0} /\ n \notin 2 .. n
      BY <1>1, <2>1
    <3> HIDE DEF n
    <3>2. n = 1
      BY <3>1
    <3>3. QED
      BY <3>2 DEF n
  <2>3. Len(d) = 0
    BY <1>3, <2>2
  <2>4. QED
    BY <1>4, <2>2, <2>3
<1>8. QED
  BY <1>5, <1>6, <1>7 DEF d

-----------------------------------------------------------------------------
(* The adapter writes, and time passes. *)

LEMMA SomeInTail ==
  ASSUME NEW q \in Seq(Packet), q # <<>>, NEW types, ~NoneIn(q, types), Head(q).type \notin types
  PROVE  ~NoneIn(Tail(q), types)
<1> HIDE DEF Packet
<1> DEFINE r == Tail(q)
<1>1. /\ Len(q) \in Nat \ {0} /\ Len(r) = Len(q) - 1 /\ Head(q) = q[1]
      /\ \A i \in 1 .. Len(r) : r[i] = q[i + 1]
  BY TailElements
<1> HIDE DEF r
<1>2. PICK i \in 1 .. Len(q) : q[i].type \in types
  BY DEF NoneIn
<1>3. i # 1
  BY <1>1, <1>2
<1>4. i - 1 \in 1 .. Len(r) /\ (i - 1) + 1 = i
  BY <1>1, <1>3
<1>5. r[i - 1].type \in types
  BY <1>1, <1>2, <1>4
<1>6. ~NoneIn(r, types)
  BY <1>4, <1>5 DEF NoneIn
<1>7. QED
  BY <1>6 DEF r

LEMMA WrittenSound ==
  ASSUME NEW b, Sound(b), b.out # <<>>
  PROVE  LET c == AfterWritten([b EXCEPT !.out = Tail(@)], Head(b.out).type) IN
         /\ Sound(c) /\ c.out = Tail(b.out) /\ c.tasks = b.tasks /\ c.currentMtu = b.currentMtu
         /\ c.currentOutgoingRequest = b.currentOutgoingRequest
         /\ c.currentOutgoingIndication = b.currentOutgoingIndication
<1> DEFINE type == Head(b.out).type
           requestSent == b.currentOutgoingRequestIsSent \/ type = "request"
           indicationSent == b.currentOutgoingIndicationIsSent \/ type = "indication"
           confirming == b.hasOutgoingConfirmation /\ type # "confirmation"
           handling == b.isHandlingRequest /\ type \notin {"response", "error"}
           c == AfterWritten([b EXCEPT !.out = Tail(@)], type)
<1>1. b \in Bearer /\ b.out \in Seq(Packet)
  BY DEF Sound, Bearer
<1>2. Tail(b.out) \in Seq(Packet)
  <2> HIDE DEF Packet
  <2>1. QED
    BY <1>1, TailElements
<1> HIDE DEF Packet
<1>3. c = [b EXCEPT !.out = Tail(b.out), !.currentOutgoingRequestIsSent = requestSent,
                    !.currentOutgoingIndicationIsSent = indicationSent,
                    !.hasOutgoingConfirmation = confirming, !.isHandlingRequest = handling]
  BY <1>1 DEF AfterWritten, Bearer
<1>4. /\ requestSent \in BOOLEAN /\ indicationSent \in BOOLEAN /\ confirming \in BOOLEAN
      /\ handling \in BOOLEAN
  BY <1>1 DEF Bearer
<1>5. /\ handling => b.isHandlingRequest /\ type \notin Replies("request")
      /\ confirming => b.hasOutgoingConfirmation /\ type \notin Replies("indication")
      /\ ~requestSent => ~b.currentOutgoingRequestIsSent /\ type \notin Asks("request")
  BY DEF Replies, Asks
<1> HIDE DEF c, requestSent, indicationSent, confirming, handling
<1>6. c \in Bearer
  <2> DEFINE q == Tail(b.out)
  <2>1. q \in Seq(Packet)
    BY <1>2
  <2>2. c = [b EXCEPT !.out = q, !.currentOutgoingRequestIsSent = requestSent,
                      !.currentOutgoingIndicationIsSent = indicationSent,
                      !.hasOutgoingConfirmation = confirming, !.isHandlingRequest = handling]
    BY <1>3
  <2> HIDE DEF q, type, Request, NoRequest, Task
  <2> DEFINE b1 == [b EXCEPT !.out = q, !.currentOutgoingRequestIsSent = requestSent,
                             !.currentOutgoingIndicationIsSent = indicationSent]
  <2>3. b1 \in Bearer
    BY <1>1, <1>4, <2>1 DEF Bearer
  <2>4. c = [b1 EXCEPT !.hasOutgoingConfirmation = confirming, !.isHandlingRequest = handling]
    BY <2>2
  <2> HIDE DEF b1
  <2>5. QED
    BY <1>4, <2>3, <2>4 DEF Bearer
<1>7. /\ c.out = Tail(b.out) /\ c.tasks = b.tasks /\ c.currentMtu = b.currentMtu
      /\ c.timedout = b.timedout /\ c.indicationQueue = b.indicationQueue
      /\ c.currentOutgoingRequest = b.currentOutgoingRequest
      /\ c.currentOutgoingIndication = b.currentOutgoingIndication
      /\ c.currentOutgoingRequestIsSent = requestSent
      /\ c.hasOutgoingConfirmation = confirming /\ c.isHandlingRequest = handling
  BY <1>1, <1>3 DEF Bearer
<1>8. \A types : ~NoneIn(b.out, types) /\ type \notin types => ~NoneIn(c.out, types)
  BY <1>1, <1>7, SomeInTail
<1> HIDE DEF type
<1>9. TasksOf("request", c) = TasksOf("request", b)
  BY <1>7 DEF TasksOf
<1>10. FlagsMean(c)
  <2> SUFFICES ASSUME ~c.timedout
               PROVE  /\ c.isHandlingRequest =>
                           TasksOf("request", c) # {} \/ ~NoneIn(c.out, Replies("request"))
                      /\ c.hasOutgoingConfirmation => ~NoneIn(c.out, Replies("indication"))
                      /\ c.currentOutgoingRequest # NoRequest /\ ~c.currentOutgoingRequestIsSent =>
                           ~NoneIn(c.out, Asks("request"))
    BY DEF FlagsMean
  <2>1. /\ b.isHandlingRequest => TasksOf("request", b) # {} \/ ~NoneIn(b.out, Replies("request"))
        /\ b.hasOutgoingConfirmation => ~NoneIn(b.out, Replies("indication"))
        /\ b.currentOutgoingRequest # NoRequest /\ ~b.currentOutgoingRequestIsSent =>
             ~NoneIn(b.out, Asks("request"))
    BY <1>7 DEF Sound, FlagsMean
  <2>2. c.isHandlingRequest => TasksOf("request", c) # {} \/ ~NoneIn(c.out, Replies("request"))
    BY <1>5, <1>7, <1>8, <1>9, <2>1
  <2>3. c.hasOutgoingConfirmation => ~NoneIn(c.out, Replies("indication"))
    BY <1>5, <1>7, <1>8, <2>1
  <2>4. c.currentOutgoingRequest # NoRequest /\ ~c.currentOutgoingRequestIsSent =>
          ~NoneIn(c.out, Asks("request"))
    BY <1>5, <1>7, <1>8, <2>1
  <2>5. QED
    BY <2>2, <2>3, <2>4
<1>11. Sound(c)
  BY <1>6, <1>7, <1>10 DEF Sound, StagesMean
<1>12. QED
  BY <1>7, <1>11 DEF c, type

LEMMA PairWritten ==
  ASSUME NEW m, NEW x, NEW y, NEW wx, NEW wy, NEW cx, NEW cy, Pair(m, x, y, wx, wy, cx, cy),
         x.out # <<>>
  PROVE  Pair(m, AfterWritten([x EXCEPT !.out = Tail(@)], Head(x.out).type), y,
              Append(wx, Head(x.out)), wy, cx, cy)
<1> DEFINE x2 == AfterWritten([x EXCEPT !.out = Tail(@)], Head(x.out).type)
           w2 == Append(wx, Head(x.out))
<1>1. /\ Sound(x) /\ Sound(y) /\ x.out \in Seq(Packet) /\ wx \in Seq(Packet)
      /\ wy \in Seq(Packet) /\ y.out \in Seq(Packet)
  <2> HIDE DEF Packet
  <2>1. QED
    BY DEF Pair, Way, Sound, Bearer
<1>2. /\ Sound(x2) /\ x2.out = Tail(x.out) /\ x2.tasks = x.tasks /\ x2.currentMtu = x.currentMtu
      /\ x2.currentOutgoingRequest = x.currentOutgoingRequest
      /\ x2.currentOutgoingIndication = x.currentOutgoingIndication
  BY <1>1, WrittenSound
<1> HIDE DEF x2, Packet
<1>3. \A k : IdOf(k, x2) = IdOf(k, x) /\ OpOf(k, x2) = OpOf(k, x) /\ TasksOf(k, x2) = TasksOf(k, x)
  BY <1>2 DEF IdOf, OpOf, TasksOf
<1>4. ASSUME NEW k \in Kinds
      PROVE  PathOf(k, x2, y, w2, wy, cx)
  <2>1. Path(k, IdOf(k, x), OpOf(k, x), x.out, wx, TasksOf(k, y), y.out, wy, Runs(cx, k))
    BY DEF Pair, Way, PathOf
  <2>2. Path(k, IdOf(k, x), OpOf(k, x), Tail(x.out), w2, TasksOf(k, y), y.out, wy, Runs(cx, k))
    BY <1>1, <2>1, PathWritten
  <2>3. QED
    BY <1>2, <1>3, <2>2 DEF PathOf
<1>5. ASSUME NEW k \in Kinds
      PROVE  PathOf(k, y, x2, wy, w2, cy)
  <2>1. Path(k, IdOf(k, y), OpOf(k, y), y.out, wy, TasksOf(k, x), x.out, wx, Runs(cy, k))
    BY DEF Pair, Way, PathOf
  <2>2. Path(k, IdOf(k, y), OpOf(k, y), y.out, wy, TasksOf(k, x), Tail(x.out), w2, Runs(cy, k))
    BY <1>1, <2>1, PathReplyWritten
  <2>3. QED
    BY <1>2, <1>3, <2>2 DEF PathOf
<1>6. w2 \in Seq(Packet) /\ w2 \o x2.out = wx \o x.out
  <2>1. Head(x.out) \in Packet
    BY <1>1, TailElements
  <2>2. w2 \in Seq(Packet)
    BY <1>1, <2>1, AppendElements
  <2>3. w2 \o Tail(x.out) = wx \o x.out
    BY <1>1, ConcatWritten
  <2>4. QED
    BY <1>2, <2>2, <2>3
<1> HIDE DEF w2
<1>7. Lengths(m, x2, w2 \o x2.out) /\ Told(m, x2, y, w2 \o x2.out)
  BY <1>2, <1>6 DEF Pair, Way, Lengths, Told
<1>8. Told(m, y, x2, wy \o y.out)
  BY <1>2 DEF Pair, Way, Told
<1>9. Pair(m, x2, y, w2, wy, cx, cy)
  BY <1>2, <1>4, <1>5, <1>6, <1>7, <1>8 DEF Pair, Way
<1>10. QED
  BY <1>9 DEF x2, w2

\* A timed out end promises less.
LEMMA TimeoutStep ==
  ASSUME NEW b, Sound(b)
  PROVE  OwnStep(b, [b EXCEPT !.timedout = TRUE])
<1> DEFINE c == [b EXCEPT !.timedout = TRUE]
<1>1. b \in Bearer
  BY DEF Sound
<1>2. c \in Bearer
  BY <1>1 DEF Bearer
<1>3. /\ c.out = b.out /\ c.tasks = b.tasks /\ c.currentMtu = b.currentMtu /\ c.timedout
      /\ c.currentOutgoingRequest = b.currentOutgoingRequest
      /\ c.currentOutgoingIndication = b.currentOutgoingIndication
      /\ c.indicationQueue = b.indicationQueue
  BY <1>1 DEF Bearer
<1> HIDE DEF c
<1>4. Sound(c)
  BY <1>2, <1>3 DEF Sound, FlagsMean, StagesMean
<1>5. StepOf("command", b, c)
  BY <1>3 DEF StepOf, Sent, Kinds, IdOf, OpOf
<1>6. OwnStep(b, c)
  BY <1>3, <1>4, <1>5 DEF OwnStep, OwnTypes
<1>7. QED
  BY <1>6 DEF c

-----------------------------------------------------------------------------
(* The functions of the server, which take one task or answer one. *)

\* An end that is sound but for a response that it still has to send.
AlmostSound(b) ==
  /\ b \in Bearer /\ b.indicationQueue \in Seq(Nat \ {None}) /\ StagesMean(b)
  /\ ~b.timedout =>
       /\ b.hasOutgoingConfirmation => ~NoneIn(b.out, Replies("indication"))
       /\ b.currentOutgoingRequest # NoRequest /\ ~b.currentOutgoingRequestIsSent =>
            ~NoneIn(b.out, Asks("request"))

\* The server leaves the MTU and the transactions of the client alone.
SameClient(b, c) ==
  /\ c.currentMtu = b.currentMtu
  /\ c.currentOutgoingRequest = b.currentOutgoingRequest
  /\ c.currentOutgoingIndication = b.currentOutgoingIndication

LEMMA SoundIsAlmost ==
  ASSUME NEW b, Sound(b)
  PROVE  AlmostSound(b)
BY DEF Sound, AlmostSound, FlagsMean

LEMMA HandlingAlmostSound ==
  ASSUME NEW b, Sound(b)
  PROVE  LET c == [b EXCEPT !.isHandlingRequest = TRUE] IN
         /\ AlmostSound(c) /\ SameClient(b, c) /\ c.tasks = b.tasks /\ c.out = b.out
<1> DEFINE c == [b EXCEPT !.isHandlingRequest = TRUE]
<1>1. b \in Bearer
  BY DEF Sound
<1>2. c \in Bearer
  BY <1>1 DEF Bearer
<1>3. /\ SameClient(b, c) /\ c.tasks = b.tasks /\ c.out = b.out /\ c.timedout = b.timedout
      /\ c.indicationQueue = b.indicationQueue
      /\ c.currentOutgoingRequestIsSent = b.currentOutgoingRequestIsSent
      /\ c.hasOutgoingConfirmation = b.hasOutgoingConfirmation
  BY <1>1 DEF Bearer, SameClient
<1> HIDE DEF c
<1>4. AlmostSound(c)
  BY <1>2, <1>3 DEF AlmostSound, Sound, StagesMean, FlagsMean, SameClient
<1>5. QED
  BY <1>3, <1>4 DEF c

LEMMA WithoutSound ==
  ASSUME NEW b, Sound(b), NEW t
  PROVE  LET c == Without(b, t) IN
         /\ AlmostSound(c) /\ (t.op \notin {"read", "write"} => Sound(c))
         /\ SameClient(b, c) /\ c.tasks = b.tasks \ {t} /\ c.out = b.out
         /\ c.timedout = b.timedout
<1> DEFINE c == Without(b, t)
<1>1. b \in Bearer /\ b.tasks \ {t} \subseteq Task
  BY DEF Sound, Bearer
<1>2. c \in Bearer
  <2> HIDE DEF Task
  <2> DEFINE T == b.tasks \ {t}
  <2>1. T \in SUBSET Task /\ c = [b EXCEPT !.tasks = T]
    BY <1>1 DEF Without
  <2> HIDE DEF T, c
  <2>2. QED
    BY <1>1, <2>1 DEF Bearer
<1>3. /\ SameClient(b, c) /\ c.tasks = b.tasks \ {t} /\ c.out = b.out /\ c.timedout = b.timedout
      /\ c.indicationQueue = b.indicationQueue /\ c.isHandlingRequest = b.isHandlingRequest
      /\ c.currentOutgoingRequestIsSent = b.currentOutgoingRequestIsSent
      /\ c.hasOutgoingConfirmation = b.hasOutgoingConfirmation
  BY <1>1 DEF Bearer, SameClient, Without
<1> HIDE DEF c
<1>4. AlmostSound(c)
  BY <1>2, <1>3 DEF AlmostSound, Sound, StagesMean, FlagsMean, SameClient
<1>5. ASSUME t.op \notin {"read", "write"}
      PROVE  Sound(c)
  <2>1. TasksOf("request", c) = TasksOf("request", b)
    BY <1>3, <1>5 DEF TasksOf
  <2>2. QED
    BY <1>3, <1>4, <2>1 DEF AlmostSound, Sound, FlagsMean
<1>6. QED
  BY <1>3, <1>4, <1>5 DEF c

LEMMA TaskAddedSound ==
  ASSUME NEW b, AlmostSound(b), NEW u \in Task, u.op \in {"read", "confirm"} => u.stage = "answer",
         u.op \in {"read", "write"} \/ Sound(b)
  PROVE  LET c == [b EXCEPT !.tasks = @ \cup {u}] IN
         /\ Sound(c) /\ SameClient(b, c) /\ c.tasks = b.tasks \cup {u} /\ c.out = b.out
<1> DEFINE c == [b EXCEPT !.tasks = @ \cup {u}]
<1> HIDE DEF Task
<1>1. b \in Bearer /\ b.tasks \cup {u} \subseteq Task
  BY DEF AlmostSound, Bearer
<1>2. c \in Bearer
  <2> DEFINE T == b.tasks \cup {u}
  <2>1. T \in SUBSET Task /\ c = [b EXCEPT !.tasks = T]
    BY <1>1
  <2> HIDE DEF T, c
  <2>2. QED
    BY <1>1, <2>1 DEF Bearer
<1>3. /\ SameClient(b, c) /\ c.tasks = b.tasks \cup {u} /\ c.out = b.out /\ c.timedout = b.timedout
      /\ c.indicationQueue = b.indicationQueue /\ c.isHandlingRequest = b.isHandlingRequest
      /\ c.currentOutgoingRequestIsSent = b.currentOutgoingRequestIsSent
      /\ c.hasOutgoingConfirmation = b.hasOutgoingConfirmation
  BY <1>1 DEF Bearer, SameClient
<1> HIDE DEF c
<1>4. AlmostSound(c)
  BY <1>2, <1>3 DEF AlmostSound, StagesMean, SameClient
<1>5. ~b.timedout /\ b.isHandlingRequest =>
        TasksOf("request", c) # {} \/ ~NoneIn(c.out, Replies("request"))
  <2>1. CASE u.op \in {"read", "write"}
    <3>1. u \in TasksOf("request", c)
      BY <1>3, <2>1 DEF TasksOf
    <3>2. QED
      BY <3>1
  <2>2. CASE Sound(b)
    <3>1. TasksOf("request", b) \subseteq TasksOf("request", c)
      BY <1>3 DEF TasksOf
    <3>2. QED
      BY <1>3, <2>2, <3>1 DEF Sound, FlagsMean
  <2>3. QED
    BY <2>1, <2>2
<1>6. Sound(c)
  BY <1>3, <1>4, <1>5 DEF AlmostSound, Sound, FlagsMean
<1>7. QED
  BY <1>3, <1>6 DEF c

LEMMA SendResponseSound ==
  ASSUME NEW b, AlmostSound(b), NEW p \in Packet, p.type \in Replies("request")
  PROVE  LET c == SendResponse(b, p) IN
         /\ Sound(c) /\ SameClient(b, c) /\ c.tasks = b.tasks
         /\ c.out = (IF b.timedout THEN b.out ELSE Append(b.out, p))
<1> HIDE DEF Packet
<1> DEFINE b1 == [b EXCEPT !.isHandlingRequest = TRUE]
           c == SendData(b1, p)
<1>1. b \in Bearer /\ b.out \in Seq(Packet)
  BY DEF AlmostSound, Bearer
<1>2. b1 \in Bearer
  BY <1>1 DEF Bearer
<1>3. /\ SameClient(b, b1) /\ b1.tasks = b.tasks /\ b1.out = b.out /\ b1.timedout = b.timedout
      /\ b1.indicationQueue = b.indicationQueue
      /\ b1.currentOutgoingRequestIsSent = b.currentOutgoingRequestIsSent
      /\ b1.hasOutgoingConfirmation = b.hasOutgoingConfirmation
  BY <1>1 DEF Bearer, SameClient
<1> HIDE DEF b1
<1>4. /\ c \in Bearer /\ SameClient(b, c) /\ c.tasks = b.tasks /\ c.timedout = b.timedout
      /\ c.out = (IF b.timedout THEN b.out ELSE Append(b.out, p))
      /\ c.indicationQueue = b.indicationQueue
      /\ c.currentOutgoingRequestIsSent = b.currentOutgoingRequestIsSent
      /\ c.hasOutgoingConfirmation = b.hasOutgoingConfirmation
  <2>1. CASE b.timedout
    BY <1>2, <1>3, <2>1 DEF SendData
  <2>2. CASE ~b.timedout
    <3>1. Append(b1.out, p) \in Seq(Packet)
      BY <1>1, <1>3, AppendElements
    <3>2. c = [b1 EXCEPT !.out = Append(@, p)]
      BY <1>3, <2>2 DEF SendData
    <3> HIDE DEF c
    <3>3. c \in Bearer
      BY <1>2, <3>1, <3>2 DEF Bearer
    <3>4. QED
      BY <1>2, <1>3, <2>2, <3>2, <3>3 DEF Bearer, SameClient
  <2>3. QED
    BY <2>1, <2>2
<1> HIDE DEF c
<1>5. FlagsMean(c)
  <2>1. CASE b.timedout
    BY <1>4, <2>1 DEF FlagsMean
  <2>2. CASE ~b.timedout
    <3>1. \A types : ~NoneIn(b.out, types) \/ p.type \in types => ~NoneIn(c.out, types)
      BY <1>1, <1>4, <2>2, SomeInSent
    <3>2. QED
      BY <1>4, <2>2, <3>1 DEF FlagsMean, AlmostSound, SameClient
  <2>3. QED
    BY <2>1, <2>2
<1>6. Sound(c)
  BY <1>4, <1>5 DEF AlmostSound, Sound, StagesMean
<1>7. QED
  BY <1>4, <1>6 DEF SendResponse, c, b1

LEMMA SendConfirmationSound ==
  ASSUME NEW b, Sound(b), NEW id \in Nat, DefaultMtu \in Nat
  PROVE  LET c == SendConfirmation(b, id)
             p == Pdu("confirmation", "none", id, DefaultMtu)
         IN /\ Sound(c) /\ SameClient(b, c) /\ c.tasks = b.tasks
            /\ c.out = (IF b.timedout THEN b.out ELSE Append(b.out, p))
<1> DEFINE p == Pdu("confirmation", "none", id, DefaultMtu)
           b1 == [b EXCEPT !.hasOutgoingConfirmation = TRUE]
           c == SendData(b1, p)
<1>0. p \in Packet /\ p.type \in Replies("indication")
  BY DEF Packet, Pdu, Type, Replies
<1> HIDE DEF Packet, p
<1>1. b \in Bearer /\ b.out \in Seq(Packet)
  BY DEF Sound, Bearer
<1>2. b1 \in Bearer
  BY <1>1 DEF Bearer
<1>3. /\ SameClient(b, b1) /\ b1.tasks = b.tasks /\ b1.out = b.out /\ b1.timedout = b.timedout
      /\ b1.indicationQueue = b.indicationQueue
      /\ b1.currentOutgoingRequestIsSent = b.currentOutgoingRequestIsSent
      /\ b1.isHandlingRequest = b.isHandlingRequest
  BY <1>1 DEF Bearer, SameClient
<1> HIDE DEF b1
<1>4. /\ c \in Bearer /\ SameClient(b, c) /\ c.tasks = b.tasks /\ c.timedout = b.timedout
      /\ c.out = (IF b.timedout THEN b.out ELSE Append(b.out, p))
      /\ c.indicationQueue = b.indicationQueue
      /\ c.currentOutgoingRequestIsSent = b.currentOutgoingRequestIsSent
      /\ c.isHandlingRequest = b.isHandlingRequest
  <2>1. CASE b.timedout
    BY <1>2, <1>3, <2>1 DEF SendData
  <2>2. CASE ~b.timedout
    <3>1. Append(b1.out, p) \in Seq(Packet)
      BY <1>0, <1>1, <1>3, AppendElements
    <3>2. c = [b1 EXCEPT !.out = Append(@, p)]
      BY <1>3, <2>2 DEF SendData
    <3> HIDE DEF c
    <3>3. c \in Bearer
      BY <1>2, <3>1, <3>2 DEF Bearer
    <3>4. QED
      BY <1>2, <1>3, <2>2, <3>2, <3>3 DEF Bearer, SameClient
  <2>3. QED
    BY <2>1, <2>2
<1> HIDE DEF c
<1>5. FlagsMean(c)
  <2>1. CASE b.timedout
    BY <1>4, <2>1 DEF FlagsMean
  <2>2. CASE ~b.timedout
    <3>1. \A types : ~NoneIn(b.out, types) \/ p.type \in types => ~NoneIn(c.out, types)
      BY <1>0, <1>1, <1>4, <2>2, SomeInSent
    <3>2. QED
      BY <1>0, <1>4, <2>2, <3>1 DEF FlagsMean, Sound, SameClient, TasksOf
  <2>3. QED
    BY <2>1, <2>2
<1>6. Sound(c)
  BY <1>4, <1>5 DEF Sound, StagesMean
<1>7. QED
  BY <1>4, <1>6 DEF SendConfirmation, c, b1, p

-----------------------------------------------------------------------------
(* A packet arrives at end x: the oldest of those that y has written. *)

LEMMA PairTypes ==
  ASSUME NEW m, NEW x, NEW y, NEW wx, NEW wy, NEW cx, NEW cy, Pair(m, x, y, wx, wy, cx, cy)
  PROVE  /\ Sound(x) /\ Sound(y) /\ Nested(cx) /\ Nested(cy)
         /\ x.out \in Seq(Packet) /\ y.out \in Seq(Packet)
         /\ wx \in Seq(Packet) /\ wy \in Seq(Packet)
         /\ x.tasks \subseteq Task /\ x.currentMtu \in Nat
<1> HIDE DEF Packet, Task
<1>1. QED
  BY DEF Pair, Way, Sound, Bearer

\* What y still has on its way is as before.
LEMMA ArrivedLengths ==
  ASSUME NEW m, NEW x, NEW y, NEW wx, NEW wy, NEW cx, NEW cy, Pair(m, x, y, wx, wy, cx, cy),
         wy # <<>>, ~MtuResponse(Head(wy)) \/ x.currentMtu = m
  PROVE  /\ Tail(wy) \in Seq(Packet)
         /\ Lengths(m, y, Tail(wy) \o y.out) /\ Told(m, y, x, Tail(wy) \o y.out)
<1> HIDE DEF Packet, MtuResponse
<1> DEFINE q == wy \o y.out
<1>1. wy \in Seq(Packet) /\ y.out \in Seq(Packet)
  BY PairTypes
<1>2. /\ q \in Seq(Packet) /\ q # <<>> /\ Head(q) = Head(wy) /\ Tail(q) = Tail(wy) \o y.out
      /\ Tail(wy) \in Seq(Packet)
  BY <1>1, ConcatTail, TailElements
<1>3. Lengths(m, y, q) /\ Told(m, y, x, q)
  BY DEF Pair, Way
<1> HIDE DEF q
<1>4. Lengths(m, y, Tail(q)) /\ Told(m, y, x, Tail(q))
  BY <1>2, <1>3, LengthsArrived, ToldArrived
<1>5. QED
  BY <1>2, <1>4

\* The packet is handled with no consequence, or dropped.
LEMMA PairDropped ==
  ASSUME NEW m, NEW x, NEW y, NEW wx, NEW wy, NEW cx, NEW cy, Pair(m, x, y, wx, wy, cx, cy),
         wy # <<>>, ~MtuResponse(Head(wy)) \/ x.currentMtu = m
  PROVE  Pair(m, x, y, wx, Tail(wy), cx, cy)
<1> HIDE DEF Packet, MtuResponse
<1>1. wy \in Seq(Packet)
  BY PairTypes
<1>2. ASSUME NEW k \in Kinds
      PROVE  PathOf(k, x, y, wx, Tail(wy), cx)
  BY <1>1, PathOtherReturns DEF Pair, Way, PathOf
<1>3. ASSUME NEW k \in Kinds
      PROVE  PathOf(k, y, x, Tail(wy), wx, cy)
  BY <1>1, PathOtherArrives DEF Pair, Way, PathOf
<1>4. QED
  BY <1>2, <1>3, ArrivedLengths DEF Pair, Way

\* What is known when a packet arrives that answers.
LEMMA PairReturning ==
  ASSUME NEW m, NEW x, NEW y, NEW wx, NEW wy, NEW cx, NEW cy, Pair(m, x, y, wx, wy, cx, cy),
         wy # <<>>, NEW k \in Kinds, Head(wy).type \in Replies(k)
  PROVE  /\ Head(wy).id = IdOf(k, x) /\ Head(wy).op = OpOf(k, x) /\ IdOf(k, x) # None
         /\ NoneIn(x.out, Asks(k))
<1> HIDE DEF Packet
<1>1. wy \in Seq(Packet)
  BY PairTypes
<1>2. Path(k, IdOf(k, x), OpOf(k, x), x.out, wx, TasksOf(k, y), y.out, wy, Runs(cx, k))
  BY DEF Pair, Way, PathOf
<1>3. /\ Head(wy).id = IdOf(k, x) /\ Head(wy).op = OpOf(k, x) /\ IdOf(k, x) # None
      /\ NoneIn(x.out, Asks(k))
      /\ \A called :
           Path(k, IdOf(k, x), OpOf(k, x), x.out, wx, TasksOf(k, y), y.out, Tail(wy), called)
  BY <1>1, <1>2, PathReturns
<1>4. QED
  BY <1>3

\* The packet answers the transaction of kind k, which is the one that it is about, and the
\* callback of the transaction begins.
LEMMA PairAnswered ==
  ASSUME NEW m, NEW x, NEW y, NEW wx, NEW wy, NEW cy, Pair(m, x, y, wx, wy, <<>>, cy),
         wy # <<>>, ~MtuResponse(Head(wy)) \/ x.currentMtu = m,
         NEW k \in Kinds, Head(wy).type \in Replies(k)
  PROVE  /\ Head(wy).id = IdOf(k, x) /\ Head(wy).op = OpOf(k, x)
         /\ Pair(m, x, y, wx, Tail(wy), <<Callback(k)>>, cy)
<1> DEFINE c == <<Callback(k)>>
<1> HIDE DEF Packet, MtuResponse
<1>1. wy \in Seq(Packet)
  BY PairTypes
<1>2. c \in Seq(Frames) /\ c # <<>> /\ c[1] = Callback(k) /\ Nested(c)
  BY DEF Callback, Frames, Kinds, Nested
<1> HIDE DEF c
<1>3. Path(k, IdOf(k, x), OpOf(k, x), x.out, wx, TasksOf(k, y), y.out, wy, Runs(<<>>, k))
  BY DEF Pair, Way, PathOf
<1>4. /\ Head(wy).id = IdOf(k, x) /\ Head(wy).op = OpOf(k, x)
      /\ \A called2 :
           Path(k, IdOf(k, x), OpOf(k, x), x.out, wx, TasksOf(k, y), y.out, Tail(wy), called2)
  BY <1>1, <1>3, PathReturns
<1>5. PathOf(k, x, y, wx, Tail(wy), c)
  BY <1>4 DEF PathOf
<1>6. Pair(m, x, y, wx, Tail(wy), <<>>, cy)
  BY PairDropped
<1>7. ASSUME NEW j \in Kinds, j # k
      PROVE  PathOf(j, x, y, wx, Tail(wy), c)
  <2> DEFINE called == Runs(<<>>, j)
             called2 == Runs(c, j)
  <2>1. Path(j, IdOf(j, x), OpOf(j, x), x.out, wx, TasksOf(j, y), y.out, Tail(wy), called)
    BY <1>6 DEF Pair, Way, PathOf
  <2>2. ~called2
    BY <1>2, <1>7 DEF Runs, Callback, Kinds
  <2> HIDE DEF called, called2
  <2>3. Path(j, IdOf(j, x), OpOf(j, x), x.out, wx, TasksOf(j, y), y.out, Tail(wy), called2)
    BY <2>1, <2>2, CalledLess
  <2>4. QED
    BY <2>3 DEF PathOf, called2
<1>8. Pair(m, x, y, wx, Tail(wy), c, cy)
  BY <1>2, <1>5, <1>6, <1>7 DEF Pair, Way
<1>9. QED
  BY <1>4, <1>8 DEF c

\* The callback returns.  x2 is x without its transaction of kind k.
LEMMA PairEnds ==
  ASSUME NEW m, NEW x, NEW y, NEW wx, NEW wy, NEW cx, NEW cy, Pair(m, x, y, wx, wy, cx, cy),
         NEW k \in Kinds, Runs(cx, k), NEW x2, Sound(x2), x2.out = x.out, x2.tasks = x.tasks,
         x2.currentMtu = x.currentMtu, IdOf(k, x2) = None,
         \A j \in Kinds : j # k => IdOf(j, x2) = IdOf(j, x) /\ OpOf(j, x2) = OpOf(j, x),
         NEW cx2, Nested(cx2), \A j \in Kinds : ~Runs(cx2, j)
  PROVE  Pair(m, x2, y, wx, wy, cx2, cy)
<1>1. PathOf(k, x2, y, wx, wy, cx2)
  <2> DEFINE called == Runs(cx, k)
             called2 == Runs(cx2, k)
  <2>1. Path(k, IdOf(k, x), OpOf(k, x), x.out, wx, TasksOf(k, y), y.out, wy, called)
    BY DEF Pair, Way, PathOf
  <2>2. called = TRUE /\ called2 = FALSE
    OBVIOUS
  <2> HIDE DEF called, called2
  <2>3. Path(k, IdOf(k, x), OpOf(k, x), x.out, wx, TasksOf(k, y), y.out, wy, TRUE)
    BY <2>1, <2>2
  <2>4. Path(k, None, OpOf(k, x2), x.out, wx, TasksOf(k, y), y.out, wy, FALSE)
    BY <2>3, PathEnds
  <2>5. Path(k, IdOf(k, x2), OpOf(k, x2), x2.out, wx, TasksOf(k, y), y.out, wy, called2)
    BY <2>2, <2>4
  <2>6. QED
    BY <2>5 DEF PathOf, called2
<1>2. ASSUME NEW j \in Kinds, j # k
      PROVE  PathOf(j, x2, y, wx, wy, cx2)
  <2> DEFINE called == Runs(cx, j)
             called2 == Runs(cx2, j)
  <2>1. Path(j, IdOf(j, x), OpOf(j, x), x.out, wx, TasksOf(j, y), y.out, wy, called)
    BY DEF Pair, Way, PathOf
  <2>2. ~called2
    OBVIOUS
  <2> HIDE DEF called, called2
  <2>3. Path(j, IdOf(j, x), OpOf(j, x), x.out, wx, TasksOf(j, y), y.out, wy, called2)
    BY <2>1, <2>2, CalledLess
  <2>4. QED
    BY <1>2, <2>3 DEF PathOf, called2
<1>3. ASSUME NEW j \in Kinds
      PROVE  PathOf(j, y, x2, wy, wx, cy)
  BY DEF Pair, Way, PathOf, TasksOf
<1>4. Lengths(m, x2, wx \o x2.out) /\ Told(m, x2, y, wx \o x2.out) /\ Told(m, y, x2, wy \o y.out)
  BY DEF Pair, Way, Lengths, Told
<1>5. QED
  BY <1>1, <1>2, <1>3, <1>4 DEF Pair, Way

LEMMA WithMtuSound ==
  ASSUME NEW m \in Nat, NEW b, Sound(b), b.currentMtu \in {DefaultMtu, m}
  PROVE  LET c == WithMtu(b, m) IN
         /\ Sound(c) /\ c.out = b.out /\ c.tasks = b.tasks /\ c.currentMtu = m
         /\ c.currentOutgoingRequest = b.currentOutgoingRequest
         /\ c.currentOutgoingIndication = b.currentOutgoingIndication
<1> DEFINE c == WithMtu(b, m)
<1>1. b \in Bearer
  BY DEF Sound
<1>2. CASE b.currentMtu # DefaultMtu
  BY <1>2 DEF WithMtu
<1>3. CASE b.currentMtu = DefaultMtu
  <2>1. c = [b EXCEPT !.currentMtu = m]
    BY <1>3 DEF WithMtu
  <2> HIDE DEF c
  <2>2. c \in Bearer
    BY <1>1, <2>1 DEF Bearer
  <2>3. /\ c.out = b.out /\ c.tasks = b.tasks /\ c.currentMtu = m /\ c.timedout = b.timedout
        /\ c.currentOutgoingRequest = b.currentOutgoingRequest
        /\ c.currentOutgoingRequestIsSent = b.currentOutgoingRequestIsSent
        /\ c.currentOutgoingIndication = b.currentOutgoingIndication
        /\ c.isHandlingRequest = b.isHandlingRequest
        /\ c.hasOutgoingConfirmation = b.hasOutgoingConfirmation
        /\ c.indicationQueue = b.indicationQueue
    BY <1>1, <2>1 DEF Bearer
  <2>4. Sound(c)
    BY <2>2, <2>3 DEF Sound, StagesMean, FlagsMean, TasksOf
  <2>5. QED
    BY <2>3, <2>4 DEF c
<1>4. QED
  BY <1>2, <1>3

\* The MTU exchange is over at x, when y has the MTU already.
LEMMA PairMtu ==
  ASSUME NEW m \in Nat, NEW x, NEW y, NEW wx, NEW wy, NEW cx, NEW cy,
         Pair(m, x, y, wx, wy, cx, cy), y.currentMtu = m
  PROVE  /\ Pair(m, WithMtu(x, m), y, wx, wy, cx, cy) /\ WithMtu(x, m).currentMtu = m
         /\ \A k : IdOf(k, WithMtu(x, m)) = IdOf(k, x) /\ OpOf(k, WithMtu(x, m)) = OpOf(k, x)
<1> DEFINE c == WithMtu(x, m)
<1>1. Sound(x) /\ x.currentMtu \in {DefaultMtu, m}
  BY DEF Pair, Way, Lengths
<1>2. /\ Sound(c) /\ c.out = x.out /\ c.tasks = x.tasks /\ c.currentMtu = m
      /\ c.currentOutgoingRequest = x.currentOutgoingRequest
      /\ c.currentOutgoingIndication = x.currentOutgoingIndication
  BY <1>1, WithMtuSound
<1> HIDE DEF c
<1>3. \A k : IdOf(k, c) = IdOf(k, x) /\ OpOf(k, c) = OpOf(k, x) /\ TasksOf(k, c) = TasksOf(k, x)
  BY <1>2 DEF IdOf, OpOf, TasksOf
<1>4. \A k \in Kinds : PathOf(k, c, y, wx, wy, cx) /\ PathOf(k, y, c, wy, wx, cy)
  BY <1>2, <1>3 DEF Pair, Way, PathOf
<1>5. Lengths(m, c, wx \o c.out)
  BY <1>2 DEF Pair, Way, Lengths
<1>6. Told(m, c, y, wx \o c.out) /\ Told(m, y, c, wy \o y.out)
  BY <1>2 DEF Told
<1>7. Pair(m, c, y, wx, wy, cx, cy)
  BY <1>2, <1>4, <1>5, <1>6 DEF Pair, Way
<1>8. QED
  BY <1>2, <1>3, <1>7 DEF c

\* An MTU response that arrives has been sent by an end with the new MTU, and fits.
LEMMA MtuResponseArrives ==
  ASSUME NEW m, NEW x, NEW y, NEW wx, NEW wy, NEW cx, NEW cy, Pair(m, x, y, wx, wy, cx, cy),
         wy # <<>>, MtuResponse(Head(wy))
  PROVE  y.currentMtu = m /\ Head(wy).len = DefaultMtu
<1> HIDE DEF Packet, MtuResponse
<1> DEFINE q == wy \o y.out
<1>1. wy \in Seq(Packet) /\ y.out \in Seq(Packet)
  BY PairTypes
<1>2. q \in Seq(Packet) /\ q # <<>> /\ Head(q) = Head(wy)
  BY <1>1, ConcatTail
<1>3. Lengths(m, y, q)
  BY DEF Pair, Way
<1> HIDE DEF q
<1>4. Len(q) \in Nat \ {0} /\ Head(q) = q[1]
  BY <1>2, TailElements
<1>5. 1 \in 1 .. Len(q)
  BY <1>4
<1>6. QED
  BY <1>2, <1>3, <1>4, <1>5 DEF Lengths

\* Nothing arrives that is longer than the MTU.
LEMMA ArrivalFits ==
  ASSUME NEW m, Mtu(m), NEW x, NEW y, NEW wx, NEW wy, NEW cx, NEW cy, Pair(m, x, y, wx, wy, cx, cy),
         wy # <<>>
  PROVE  Head(wy).len <= x.currentMtu
<1> DEFINE q == wy \o y.out
<1>1. wy \in Seq(Packet) /\ y.out \in Seq(Packet)
  BY PairTypes
<1>2. q \in Seq(Packet) /\ q # <<>> /\ Head(q) = Head(wy)
  <2> HIDE DEF Packet
  <2>1. QED
    BY <1>1, ConcatTail
<1>3. Lengths(m, y, q) /\ Told(m, y, x, q) /\ x.currentMtu \in {DefaultMtu, m}
  BY DEF Pair, Way, Lengths
<1> HIDE DEF q
<1>4. Len(q) \in Nat \ {0} /\ Head(q) = q[1] /\ Head(q) \in Packet
  <2> HIDE DEF Packet
  <2>1. QED
    BY <1>2, TailElements
<1>5. 1 \in 1 .. Len(q) /\ Head(q).len \in Nat
  BY <1>4 DEF Packet
<1> HIDE DEF MtuResponse, Packet
<1>6. CASE x.currentMtu = m
  BY <1>2, <1>3, <1>4, <1>5, <1>6 DEF Lengths
<1>7. CASE x.currentMtu # m
  <2>1. ~(q[1].len > DefaultMtu)
    <3>1. ~\E j \in 1 .. Len(q) : j < 1
      BY <1>4
    <3>2. QED
      BY <1>3, <1>5, <1>7, <3>1 DEF Told, Announced
  <2>2. x.currentMtu = DefaultMtu
    BY <1>3, <1>7
  <2>3. QED
    BY <1>2, <1>4, <1>5, <2>1, <2>2 DEF Mtu
<1>8. QED
  BY <1>6, <1>7

\* An MTU response that is under way is written or waits to be.
LEMMA UnderWay ==
  ASSUME NEW w \in Seq(Packet), NEW q \in Seq(Packet),
         NoneIn(w, Replies("request")), NoneIn(q, Replies("request")),
         NEW i \in 1 .. Len(w \o q)
  PROVE  ~MtuResponse((w \o q)[i])
<1> HIDE DEF Packet
<1> DEFINE c == w \o q
<1>1. /\ Len(w) \in Nat /\ Len(q) \in Nat /\ Len(c) = Len(w) + Len(q)
      /\ \A j \in 1 .. Len(w) + Len(q) : c[j] = IF j <= Len(w) THEN w[j] ELSE q[j - Len(w)]
  BY ConcatProperties, LenProperties
<1> HIDE DEF c
<1>2. i \in 1 .. Len(c)
  BY DEF c
<1>3. c[i].type \notin Replies("request")
  <2>1. CASE i <= Len(w)
    <3>1. i \in 1 .. Len(w) /\ c[i] = w[i]
      BY <1>1, <1>2, <2>1
    <3>2. QED
      BY <3>1 DEF NoneIn
  <2>2. CASE ~(i <= Len(w))
    <3>1. i - Len(w) \in 1 .. Len(q) /\ c[i] = q[i - Len(w)]
      BY <1>1, <1>2, <2>2
    <3>2. QED
      BY <3>1 DEF NoneIn
  <2>3. QED
    BY <2>1, <2>2
<1>4. QED
  BY <1>3 DEF c, MtuResponse, Replies

\* The packet of a request, an indication or a command arrives, and the application is asked.
TaskFor(p, t) ==
  \/ p.type = "request" /\ t.op \in {"read", "write"} /\ t.op = p.op /\ t.id = p.id
  \/ p.type = "indication" /\ t.op = "confirm" /\ t.id = p.id
  \/ p.type = "command" /\ t.op = "command"

LEMMA PairTask ==
  ASSUME NEW m, Mtu(m), NEW x, NEW y, NEW wx, NEW wy, NEW cx, NEW cy,
         Pair(m, x, y, wx, wy, cx, cy), wy # <<>>,
         NEW t \in Task, TaskFor(Head(wy), t), t.mtu = x.currentMtu,
         NEW x2, Sound(x2), SameClient(x, x2), x2.out = x.out, x2.tasks = x.tasks \cup {t}
  PROVE  Pair(m, x2, y, wx, Tail(wy), cx, cy)
<1> HIDE DEF Packet, Task
<1>1. /\ wx \in Seq(Packet) /\ wy \in Seq(Packet) /\ x.out \in Seq(Packet) /\ x.currentMtu \in Nat
  BY PairTypes
<1>2. ~MtuResponse(Head(wy)) /\ \A k \in Kinds : Head(wy).type \notin Replies(k)
  BY DEF TaskFor, MtuResponse, Replies
<1> HIDE DEF MtuResponse
<1>3. Pair(m, x, y, wx, Tail(wy), cx, cy)
  BY <1>2, PairDropped
<1>4. \A k : IdOf(k, x2) = IdOf(k, x) /\ OpOf(k, x2) = OpOf(k, x)
  BY DEF SameClient, IdOf, OpOf
<1>5. ASSUME NEW k \in Kinds
      PROVE  PathOf(k, x2, y, wx, Tail(wy), cx)
  BY <1>3, <1>4 DEF Pair, Way, PathOf
<1>6. ASSUME NEW k \in Kinds
      PROVE  PathOf(k, y, x2, Tail(wy), wx, cy)
  <2>1. Path(k, IdOf(k, y), OpOf(k, y), y.out, wy, TasksOf(k, x), x.out, wx, Runs(cy, k))
    BY DEF Pair, Way, PathOf
  <2>2. CASE Head(wy).type \in Asks(k)
    <3>1. t.op = TaskOp(k, Head(wy).op) /\ t.id = Head(wy).id
      BY <2>2 DEF TaskFor, Asks, TaskOp, Kinds
    <3>2. Path(k, IdOf(k, y), OpOf(k, y), y.out, Tail(wy), {t}, x.out, wx, Runs(cy, k))
      BY <1>1, <2>1, <2>2, <3>1, PathToTask
    <3>3. TasksOf(k, x) = {}
      BY <1>1, <2>1, <2>2, PathAsked
    <3>4. TasksOf(k, x2) = {t}
      BY <2>2, <3>3 DEF TasksOf, TaskFor, Asks, Kinds
    <3>5. QED
      BY <3>2, <3>4 DEF PathOf
  <2>3. CASE Head(wy).type \notin Asks(k)
    <3>1. TasksOf(k, x2) = TasksOf(k, x)
      BY <2>3 DEF TasksOf, TaskFor, Asks, Kinds
    <3>2. PathOf(k, y, x, Tail(wy), wx, cy)
      BY <1>3 DEF Pair, Way
    <3>3. QED
      BY <3>1, <3>2 DEF PathOf
  <2>4. QED
    BY <2>2, <2>3
<1>7. Lengths(m, x2, wx \o x2.out)
  <2> DEFINE q == wx \o x.out
  <2>1. Lengths(m, x, q) /\ t.mtu <= m
    <3>1. Lengths(m, x, q)
      BY DEF Pair, Way
    <3>2. x.currentMtu \in {DefaultMtu, m} /\ DefaultMtu <= m /\ m \in Nat
      BY <3>1 DEF Lengths, Mtu
    <3> HIDE DEF q
    <3>3. t.mtu <= m
      BY <3>2
    <3>4. QED
      BY <3>1, <3>3
  <2>2. wx \o x2.out = q /\ x2.currentMtu = x.currentMtu
    BY DEF SameClient
  <2> HIDE DEF q
  <2>3. \A u \in x2.tasks : u.mtu <= m
    BY <2>1 DEF Lengths
  <2>4. Lengths(m, x2, q)
    BY <2>1, <2>2, <2>3 DEF Lengths
  <2>5. QED
    BY <2>2, <2>4
<1>8. Told(m, x2, y, wx \o x2.out)
  <2> DEFINE q == wx \o x.out
  <2>1. Told(m, x, y, q)
    BY DEF Pair, Way
  <2>2. ASSUME y.currentMtu # m, t.op = "read"
        PROVE  t.mtu <= DefaultMtu
    <3>1. Head(wy).type \in Asks("request") /\ "request" \in Kinds
      BY <2>2 DEF TaskFor, Asks, Kinds
    <3>2. Path("request", IdOf("request", y), OpOf("request", y), y.out, wy, TasksOf("request", x),
               x.out, wx, Runs(cy, "request"))
      BY <3>1 DEF Pair, Way, PathOf
    <3>3. NoneIn(x.out, Replies("request")) /\ NoneIn(wx, Replies("request"))
      BY <1>1, <3>1, <3>2, PathAsked
    <3>4. \A i \in 1 .. Len(q) : ~MtuResponse(q[i])
      BY <1>1, <3>3, UnderWay
    <3> HIDE DEF q
    <3>5. x.currentMtu = DefaultMtu
      BY <2>1, <2>2, <3>4 DEF Told
    <3>6. QED
      BY <3>5 DEF Mtu
  <2> HIDE DEF q
  <2>3. Told(m, x2, y, q)
    BY <2>1, <2>2 DEF Told, SameClient
  <2>4. QED
    BY <2>3 DEF q
<1>9. Told(m, y, x2, Tail(wy) \o y.out)
  BY <1>3 DEF Pair, Way, Told, SameClient
<1>10. QED
  BY <1>3, <1>5, <1>6, <1>7, <1>8, <1>9 DEF Pair, Way

\* An MTU exchange is asked for: the response is sent with the old MTU, then the MTU changes.
LEMMA PairMtuAsked ==
  ASSUME NEW m, Mtu(m), NEW x, NEW y, NEW wx, NEW wy, NEW cx, NEW cy,
         Pair(m, x, y, wx, wy, cx, cy), wy # <<>>, Head(wy).type = "request", Head(wy).op = "mtu",
         NEW p \in Packet, p.type = "response", p.op = "mtu", p.id = Head(wy).id, p.len = DefaultMtu,
         NEW x2, Sound(x2), x2.out = Append(x.out, p), x2.tasks = x.tasks, x2.currentMtu = m,
         x2.currentOutgoingRequest = x.currentOutgoingRequest,
         x2.currentOutgoingIndication = x.currentOutgoingIndication
  PROVE  Pair(m, x2, y, wx, Tail(wy), cx, cy)
<1> HIDE DEF Packet
<1>1. wx \in Seq(Packet) /\ wy \in Seq(Packet) /\ x.out \in Seq(Packet)
  BY PairTypes
<1>2. ~MtuResponse(Head(wy))
  BY DEF MtuResponse
<1>3. MtuResponse(p)
  BY DEF MtuResponse
<1> HIDE DEF MtuResponse
<1>4. Pair(m, x, y, wx, Tail(wy), cx, cy)
  BY <1>2, PairDropped
<1>5. \A k : IdOf(k, x2) = IdOf(k, x) /\ OpOf(k, x2) = OpOf(k, x) /\ TasksOf(k, x2) = TasksOf(k, x)
  BY DEF IdOf, OpOf, TasksOf
<1>6. ASSUME NEW k \in Kinds
      PROVE  PathOf(k, x2, y, wx, Tail(wy), cx)
  <2>1. p.type \notin Asks(k)
    BY DEF Asks, Kinds
  <2>2. Path(k, IdOf(k, x), OpOf(k, x), x.out, wx, TasksOf(k, y), y.out, Tail(wy), Runs(cx, k))
    BY <1>4 DEF Pair, Way, PathOf
  <2>3. Path(k, IdOf(k, x), OpOf(k, x), Append(x.out, p), wx, TasksOf(k, y), y.out, Tail(wy),
             Runs(cx, k))
    BY <1>1, <2>1, <2>2, PathOtherSent
  <2>4. QED
    BY <1>5, <2>3 DEF PathOf
<1>7. ASSUME NEW k \in Kinds
      PROVE  PathOf(k, y, x2, Tail(wy), wx, cy)
  <2>1. CASE k = "request"
    <3>1. Head(wy).type \in Asks(k)
      BY <2>1 DEF Asks
    <3>2. Path(k, IdOf(k, y), OpOf(k, y), y.out, wy, TasksOf(k, x), x.out, wx, Runs(cy, k))
      BY DEF Pair, Way, PathOf
    <3>3. Path(k, IdOf(k, y), OpOf(k, y), y.out, Tail(wy), TasksOf(k, x), Append(x.out, p), wx,
               Runs(cy, k))
      BY <1>1, <3>1, <3>2, PathToReply
    <3>4. QED
      BY <1>5, <3>3 DEF PathOf
  <2>2. CASE k # "request"
    <3>1. p.type \notin Replies(k)
      BY <2>2 DEF Replies
    <3>2. Path(k, IdOf(k, y), OpOf(k, y), y.out, Tail(wy), TasksOf(k, x), x.out, wx, Runs(cy, k))
      BY <1>4 DEF Pair, Way, PathOf
    <3>3. Path(k, IdOf(k, y), OpOf(k, y), y.out, Tail(wy), TasksOf(k, x), Append(x.out, p), wx,
               Runs(cy, k))
      BY <1>1, <3>1, <3>2, PathOtherReplied
    <3>4. QED
      BY <1>5, <3>3 DEF PathOf
  <2>3. QED
    BY <2>1, <2>2
<1> DEFINE q == wx \o x.out
<1>8. wx \o x2.out = Append(q, p) /\ q \in Seq(Packet)
  BY <1>1, ConcatAppend
<1>9. Lengths(m, x, q) /\ Told(m, x, y, q)
  BY DEF Pair, Way
<1> HIDE DEF q
<1>10. Lengths(m, x2, q)
  BY <1>9 DEF Lengths
<1>11. Lengths(m, x2, Append(q, p))
  <2>1. p.len <= m /\ \A t \in x2.tasks : t.mtu <= m
    BY <1>10 DEF Lengths, Mtu
  <2>2. QED
    BY <1>8, <1>10, <2>1, LengthsSent
<1>12. Told(m, x2, y, Append(q, p))
  <2>1. p.len <= DefaultMtu
    BY DEF Mtu
  <2>2. Told(m, x, y, Append(q, p))
    BY <1>8, <1>9, <2>1, ToldSent
  <2> DEFINE r == Append(q, p)
  <2>3. Len(q) \in Nat /\ Len(r) = Len(q) + 1 /\ r[Len(q) + 1] = p
    BY <1>8, AppendElements
  <2>4. Told(m, x, y, r)
    BY <2>2
  <2> HIDE DEF r
  <2>5. Len(q) + 1 \in 1 .. Len(r) /\ MtuResponse(r[Len(q) + 1])
    BY <1>3, <2>3
  <2>6. Told(m, x2, y, r)
    BY <2>4, <2>5 DEF Told
  <2>7. QED
    BY <2>6 DEF r
<1>13. Told(m, y, x2, Tail(wy) \o y.out)
  BY DEF Told
<1>14. QED
  BY <1>4, <1>6, <1>7, <1>8, <1>11, <1>12, <1>13 DEF Pair, Way

-----------------------------------------------------------------------------
(* The application of end x does what is asked of it. *)

\* It goes on with the task as u, or is done and nothing is sent.
LEMMA PairTaskGoesOn ==
  ASSUME NEW m, NEW x, NEW y, NEW wx, NEW wy, NEW cx, NEW cy, Pair(m, x, y, wx, wy, cx, cy),
         NEW t \in x.tasks, NEW x2, Sound(x2), SameClient(x, x2), x2.out = x.out,
         \/ x2.tasks = x.tasks \ {t}
         \/ \E u : u.id = t.id /\ u.op = t.op /\ u.mtu = t.mtu /\ x2.tasks = (x.tasks \ {t}) \cup {u}
  PROVE  Pair(m, x2, y, wx, wy, cx, cy)
<1>1. \A k : IdOf(k, x2) = IdOf(k, x) /\ OpOf(k, x2) = OpOf(k, x)
  BY DEF SameClient, IdOf, OpOf
<1>2. ASSUME NEW k \in Kinds
      PROVE  PathOf(k, x2, y, wx, wy, cx)
  BY <1>1 DEF Pair, Way, PathOf
<1>3. ASSUME NEW k \in Kinds
      PROVE  PathOf(k, y, x2, wy, wx, cy)
  <2>1. Path(k, IdOf(k, y), OpOf(k, y), y.out, wy, TasksOf(k, x), x.out, wx, Runs(cy, k))
    BY DEF Pair, Way, PathOf
  <2>2. CASE t \in TasksOf(k, x)
    <3>1. TasksOf(k, x) = {t}
      BY <2>1, <2>2, PathTask
    <3>2. CASE x2.tasks = x.tasks \ {t}
      <4>1. TasksOf(k, x2) = {}
        BY <3>1, <3>2 DEF TasksOf
      <4>2. Path(k, IdOf(k, y), OpOf(k, y), y.out, wy, {}, x.out, wx, Runs(cy, k))
        BY <2>1, <2>2, PathTaskGoesOn
      <4>3. QED
        BY <4>1, <4>2 DEF PathOf
    <3>3. ASSUME NEW u, u.id = t.id, u.op = t.op, x2.tasks = (x.tasks \ {t}) \cup {u}
          PROVE  PathOf(k, y, x2, wy, wx, cy)
      <4>1. TasksOf(k, x2) = {u}
        BY <2>2, <3>1, <3>3 DEF TasksOf
      <4>2. Path(k, IdOf(k, y), OpOf(k, y), y.out, wy, {u}, x.out, wx, Runs(cy, k))
        BY <2>1, <2>2, <3>3, PathTaskGoesOn
      <4>3. QED
        BY <4>1, <4>2 DEF PathOf
    <3>4. QED
      BY <3>2, <3>3
  <2>3. CASE t \notin TasksOf(k, x)
    <3>1. TasksOf(k, x2) = TasksOf(k, x)
      BY <2>3 DEF TasksOf
    <3>2. QED
      BY <2>1, <3>1 DEF PathOf
  <2>4. QED
    BY <2>2, <2>3
<1>4. Lengths(m, x2, wx \o x2.out)
  BY DEF Pair, Way, Lengths, SameClient
<1>5. Told(m, x2, y, wx \o x2.out)
  BY DEF Pair, Way, Told, SameClient
<1>6. Told(m, y, x2, wy \o y.out)
  BY DEF Pair, Way, Told, SameClient
<1>7. QED
  BY <1>2, <1>3, <1>4, <1>5, <1>6 DEF Pair, Way

\* Packet p answers the task.
ReplyTo(p, t) ==
  \/ /\ t.op \in {"read", "write"} /\ p.type \in Replies("request") /\ p.op = t.op
     /\ p.len = DefaultMtu \/ (t.op = "read" /\ p.len = t.mtu)
  \/ /\ t.op = "confirm" /\ p.type \in Replies("indication") /\ p.op = "none"
     /\ p.len = DefaultMtu

LEMMA PairTaskReplies ==
  ASSUME NEW m, Mtu(m), NEW x, NEW y, NEW wx, NEW wy, NEW cx, NEW cy,
         Pair(m, x, y, wx, wy, cx, cy), NEW t \in x.tasks,
         NEW p \in Packet, p.id = t.id, ReplyTo(p, t),
         NEW x2, Sound(x2), SameClient(x, x2), x2.out = Append(x.out, p), x2.tasks = x.tasks \ {t}
  PROVE  Pair(m, x2, y, wx, wy, cx, cy)
<1> HIDE DEF Packet
<1>1. wx \in Seq(Packet) /\ wy \in Seq(Packet) /\ x.out \in Seq(Packet)
  BY PairTypes
<1>2. \A k : IdOf(k, x2) = IdOf(k, x) /\ OpOf(k, x2) = OpOf(k, x)
  BY DEF SameClient, IdOf, OpOf
<1>3. ASSUME NEW k \in Kinds
      PROVE  PathOf(k, x2, y, wx, wy, cx)
  <2>1. p.type \notin Asks(k)
    BY DEF Asks, Kinds, ReplyTo, Replies
  <2>2. Path(k, IdOf(k, x), OpOf(k, x), x.out, wx, TasksOf(k, y), y.out, wy, Runs(cx, k))
    BY DEF Pair, Way, PathOf
  <2>3. Path(k, IdOf(k, x), OpOf(k, x), Append(x.out, p), wx, TasksOf(k, y), y.out, wy, Runs(cx, k))
    BY <1>1, <2>1, <2>2, PathOtherSent
  <2>4. QED
    BY <1>2, <2>3 DEF PathOf
<1>4. ASSUME NEW k \in Kinds
      PROVE  PathOf(k, y, x2, wy, wx, cy)
  <2>1. Path(k, IdOf(k, y), OpOf(k, y), y.out, wy, TasksOf(k, x), x.out, wx, Runs(cy, k))
    BY DEF Pair, Way, PathOf
  <2>2. CASE t \in TasksOf(k, x)
    <3>1. TasksOf(k, x) = {t} /\ t.op = TaskOp(k, OpOf(k, y))
      BY <2>1, <2>2, PathTask
    <3>2. TasksOf(k, x2) = {}
      BY <3>1 DEF TasksOf
    <3>3. p.op = OpOf(k, y)
      BY <2>2, <3>1 DEF ReplyTo, TaskOp, OpOf, TasksOf, Kinds
    <3>4. Path(k, IdOf(k, y), OpOf(k, y), y.out, wy, {}, Append(x.out, p), wx, Runs(cy, k))
      BY <1>1, <2>1, <2>2, <3>3, PathTaskReplies
    <3>5. QED
      BY <3>2, <3>4 DEF PathOf
  <2>3. CASE t \notin TasksOf(k, x)
    <3>1. TasksOf(k, x2) = TasksOf(k, x)
      BY <2>3 DEF TasksOf
    <3>2. p.type \notin Replies(k)
      BY <2>3 DEF ReplyTo, Replies, TasksOf, Kinds
    <3>3. Path(k, IdOf(k, y), OpOf(k, y), y.out, wy, TasksOf(k, x), Append(x.out, p), wx, Runs(cy, k))
      BY <1>1, <2>1, <3>2, PathOtherReplied
    <3>4. QED
      BY <3>1, <3>3 DEF PathOf
  <2>4. QED
    BY <2>2, <2>3
<1> DEFINE q == wx \o x.out
<1>5. wx \o x2.out = Append(q, p) /\ q \in Seq(Packet)
  BY <1>1, ConcatAppend
<1>6. Lengths(m, x, q) /\ Told(m, x, y, q)
  BY DEF Pair, Way
<1> HIDE DEF q
<1>7. x2.currentMtu = x.currentMtu
  BY DEF SameClient
<1>8. Lengths(m, x2, Append(q, p))
  <2>1. p.len <= m
    BY <1>6 DEF ReplyTo, Lengths, Mtu
  <2>2. ~MtuResponse(p)
    BY DEF ReplyTo, MtuResponse
  <2>3. \A u \in x2.tasks : u.mtu <= m
    BY <1>6 DEF Lengths
  <2>4. QED
    BY <1>5, <1>6, <1>7, <2>1, <2>2, <2>3, LengthsSent
<1>9. Told(m, x2, y, Append(q, p))
  <2>1. y.currentMtu # m => p.len <= DefaultMtu
    BY <1>6 DEF Told, ReplyTo, Mtu
  <2>2. QED
    BY <1>5, <1>6, <1>7, <2>1, ToldSent
<1>10. Told(m, y, x2, wy \o y.out)
  BY <1>7 DEF Pair, Way, Told
<1>11. QED
  BY <1>3, <1>4, <1>5, <1>8, <1>9, <1>10 DEF Pair, Way

-----------------------------------------------------------------------------
(* The two ends. *)

LEMMA Sides ==
  ASSUME NEW s \in Side
  PROVE  /\ Other(s) \in Side /\ Other(s) # s /\ Other(Other(s)) = s
         /\ \A t \in Side : t = s \/ t = Other(s)
<1>1. PICK a, b \in Side : a # b /\ Side = {a, b}
  BY AttAssumption
<1>2. ASSUME NEW r \in Side
      PROVE  Other(r) \in Side /\ Other(r) # r
  <2>1. \E t \in Side : t # r
    BY <1>1
  <2>2. QED
    BY <2>1 DEF Other
<1>3. Other(s) \in Side /\ Other(s) # s
  BY <1>2
<1>4. Other(Other(s)) \in Side /\ Other(Other(s)) # Other(s)
  BY <1>2, <1>3
<1>5. QED
  BY <1>1, <1>3, <1>4

LEMMA AgreedMtu ==
  ASSUME NEW s \in Side
  PROVE  /\ Agreed(s) \in Nat /\ Mtu(Agreed(s)) /\ Agreed(s) <= RxMtu[s]
         /\ Agreed(Other(s)) = Agreed(s)
<1>1. /\ Other(s) \in Side /\ Other(Other(s)) = s
      /\ DefaultMtu \in Nat /\ RxMtu[s] \in Nat /\ RxMtu[s] >= DefaultMtu
      /\ RxMtu[Other(s)] \in Nat /\ RxMtu[Other(s)] >= DefaultMtu
  BY Sides, AttAssumption
<1>2. QED
  BY <1>1 DEF Agreed, Negotiated, Mtu

\* What an end sees from the other's side.
LEMMA PairSymmetric ==
  ASSUME NEW m, NEW x, NEW y, NEW wx, NEW wy, NEW cx, NEW cy, Pair(m, x, y, wx, wy, cx, cy)
  PROVE  Pair(m, y, x, wy, wx, cy, cx)
BY DEF Pair

LEMMA SameFunction ==
  ASSUME NEW S, NEW T, NEW f \in [S -> T], NEW s
  PROVE  f = [f EXCEPT ![s] = f[s]]
OBVIOUS

\* A step of end s keeps the invariant if it does at s.
LEMMA Preserved ==
  ASSUME AttInv, Records', NEW s \in Side, NEW b, NEW c, NEW t \in Side, NEW w,
         att' = [att EXCEPT ![s] = b], callStack' = [callStack EXCEPT ![s] = c],
         wire' = [wire EXCEPT ![t] = w],
         Pair(Agreed(s), b, att[Other(s)], wire'[s], wire'[Other(s)], c, callStack[Other(s)])
  PROVE  AttInv'
<1> HIDE DEF Packet, Frames, Bearer
<1> DEFINE o == Other(s)
<1>1. o \in Side /\ o # s /\ Other(o) = s /\ \A r \in Side : r = s \/ r = o
  BY Sides
<1>2. Agreed(o) = Agreed(s)
  BY AgreedMtu
<1>3. /\ att \in [Side -> Bearer] /\ callStack \in [Side -> Seq(Frames)]
      /\ wire \in [Side -> Seq(Packet)]
  BY DEF AttInv
<1>4. Pair(Agreed(s), b, att[o], wire'[s], wire'[o], c, callStack[o])
  OBVIOUS
<1> HIDE DEF o
<1>5. /\ b \in Bearer /\ c \in Seq(Frames) /\ wire'[s] \in Seq(Packet)
      /\ wire'[o] \in Seq(Packet)
  BY <1>4 DEF Pair, Way, Sound, Nested
<1>6. /\ att' \in [Side -> Bearer] /\ att'[s] = b /\ att'[o] = att[o]
      /\ callStack' \in [Side -> Seq(Frames)] /\ callStack'[s] = c /\ callStack'[o] = callStack[o]
  BY <1>1, <1>3, <1>5
<1>7. wire' \in [Side -> Seq(Packet)]
  <2>1. w = wire'[t]
    BY <1>3
  <2>2. w \in Seq(Packet)
    BY <1>1, <1>5, <2>1
  <2>3. QED
    BY <1>3, <2>2
<1>8. Pair(Agreed(s), att'[s], att'[o], wire'[s], wire'[o], callStack'[s], callStack'[o])
  BY <1>4, <1>6
<1>9. Pair(Agreed(o), att'[o], att'[s], wire'[o], wire'[s], callStack'[o], callStack'[s])
  BY <1>2, <1>8, PairSymmetric
<1>10. ASSUME NEW r \in Side
       PROVE  Pair(Agreed(r), att'[r], att'[Other(r)], wire'[r], wire'[Other(r)],
                   callStack'[r], callStack'[Other(r)])
  <2>1. CASE r = s
    BY <1>8, <2>1 DEF o
  <2>2. CASE r = o
    BY <1>1, <1>9, <2>2
  <2>3. QED
    BY <1>1, <2>1, <2>2
<1>11. QED
  BY <1>6, <1>7, <1>10 DEF AttInv

\* What is known of end s before a step.
LEMMA Before ==
  ASSUME AttInv, NEW s \in Side
  PROVE  /\ Other(s) \in Side /\ Other(s) # s
         /\ Pair(Agreed(s), att[s], att[Other(s)], wire[s], wire[Other(s)],
                 callStack[s], callStack[Other(s)])
         /\ Mtu(Agreed(s)) /\ Agreed(s) \in Nat /\ DefaultMtu \in Nat
         /\ Sound(att[s]) /\ Nested(callStack[s])
         /\ callStack = [callStack EXCEPT ![s] = callStack[s]]
         /\ wire = [wire EXCEPT ![s] = wire[s]] /\ att = [att EXCEPT ![s] = att[s]]
         /\ wire \in [Side -> Seq(Packet)] /\ callStack \in [Side -> Seq(Frames)]
<1> HIDE DEF Packet, Frames, Bearer
<1>1. Other(s) \in Side /\ Other(s) # s
  BY Sides
<1>2. Pair(Agreed(s), att[s], att[Other(s)], wire[s], wire[Other(s)],
           callStack[s], callStack[Other(s)])
  BY DEF AttInv
<1>3. Mtu(Agreed(s)) /\ Agreed(s) \in Nat /\ DefaultMtu \in Nat
  BY AgreedMtu, AttAssumption
<1>4. Sound(att[s]) /\ Nested(callStack[s])
  BY <1>2 DEF Pair, Way
<1>5. /\ att \in [Side -> Bearer] /\ callStack \in [Side -> Seq(Frames)]
      /\ wire \in [Side -> Seq(Packet)]
  BY DEF AttInv
<1>6. /\ callStack = [callStack EXCEPT ![s] = callStack[s]]
      /\ wire = [wire EXCEPT ![s] = wire[s]] /\ att = [att EXCEPT ![s] = att[s]]
  BY <1>5, SameFunction
<1>7. QED
  BY <1>1, <1>2, <1>3, <1>4, <1>5, <1>6

\* A step in which nothing is written, nothing arrives and the stack stays.
LEMMA PreservedOwnStep ==
  ASSUME AttInv, Records', NEW s \in Side, NEW b, OwnStep(att[s], b), Becomes(s, b),
         UNCHANGED <<callStack, wire>>
  PROVE  AttInv'
<1>1. Pair(Agreed(s), b, att[Other(s)], wire[s], wire[Other(s)], callStack[s], callStack[Other(s)])
  BY Before, PairOwnStep
<1>2. wire' = [wire EXCEPT ![s] = wire[s]] /\ callStack' = [callStack EXCEPT ![s] = callStack[s]]
  BY Before
<1>3. QED
  BY <1>1, <1>2, Preserved DEF Becomes

LEMMA RecordsUnchanged ==
  ASSUME AttInv, UNCHANGED historyVars
  PROVE  Records'
BY DEF AttInv, Records, historyVars

-----------------------------------------------------------------------------
(* Every action keeps the invariant. *)

LEMMA CallsRecords ==
  ASSUME AttInv, NEW s \in Side, NEW type \in Counted, Calls(s, type)
  PROVE  /\ Records' /\ UNCHANGED <<callStack, wire>>
         /\ calls[s][type] + 1 \in Nat \ {None}
<1>1. calls \in [Side -> [Counted -> Nat]]
  BY DEF AttInv, Records
<1>2. calls' \in [Side -> [Counted -> Nat]]
  BY <1>1 DEF Calls
<1>3. calls[s][type] + 1 \in Nat \ {None}
  BY <1>1 DEF None
<1>4. QED
  BY <1>2, <1>3 DEF AttInv, Records, Calls

LEMMA StartProcedureInv ==
  ASSUME AttInv, NEW s \in Side, NEW op \in Op, StartProcedure(s, op)
  PROVE  AttInv'
<1> DEFINE r == [id |-> calls[s]["request"] + 1, op |-> op]
           b == NextRequest([att[s] EXCEPT !.procedureQueue = Append(@, r),
                                           !.hasExchangedMtu = @ \/ r.op = "mtu"])
<1>1. /\ Records' /\ UNCHANGED <<callStack, wire>> /\ calls[s]["request"] + 1 \in Nat \ {None}
  BY CallsRecords DEF StartProcedure, Counted
<1>2. r \in Request /\ r.op = op
  BY <1>1 DEF Request
<1>3. Becomes(s, b)
  BY <1>2 DEF StartProcedure
<1> HIDE DEF r
<1>4. OwnStep(att[s], b)
  BY <1>2, Before, ProcedureStep
<1> HIDE DEF b
<1>5. QED
  BY <1>1, <1>3, <1>4, PreservedOwnStep

LEMMA WriteCommandInv ==
  ASSUME AttInv, NEW s \in Side, WriteCommand(s)
  PROVE  AttInv'
<1> DEFINE n == calls[s]["command"] + 1
           b == SendData(att[s], Pdu("command", "command", n, att[s].currentMtu))
<1>1. Records' /\ UNCHANGED <<callStack, wire>> /\ n \in Nat \ {None}
  BY CallsRecords DEF WriteCommand, Counted
<1>2. Becomes(s, b)
  BY DEF WriteCommand
<1> HIDE DEF n
<1>3. OwnStep(att[s], b)
  BY <1>1, Before, SendDataStep
<1> HIDE DEF b
<1>4. QED
  BY <1>1, <1>2, <1>3, PreservedOwnStep

LEMMA NotifyInv ==
  ASSUME AttInv, NEW s \in Side, Notify(s)
  PROVE  AttInv'
<1> DEFINE n == calls[s]["notification"] + 1
           waits == [att[s] EXCEPT !.notificationQueue = Append(@, n)]
           sends == SendData(att[s], Pdu("notification", "none", n, att[s].currentMtu))
<1>1. Records' /\ UNCHANGED <<callStack, wire>> /\ n \in Nat \ {None}
  BY CallsRecords DEF Notify, Counted
<1>2. Becomes(s, waits) \/ Becomes(s, sends)
  BY DEF Notify
<1> HIDE DEF n
<1>3. OwnStep(att[s], waits) /\ OwnStep(att[s], sends)
  BY <1>1, Before, NotificationWaits, SendDataStep
<1> HIDE DEF waits, sends
<1>4. QED
  BY <1>1, <1>2, <1>3, PreservedOwnStep

LEMMA IndicateInv ==
  ASSUME AttInv, NEW s \in Side, Indicate(s)
  PROVE  AttInv'
<1> DEFINE n == calls[s]["indication"] + 1
           b == SendNextIndication([att[s] EXCEPT !.indicationQueue = Append(@, n)])
<1>1. Records' /\ UNCHANGED <<callStack, wire>> /\ n \in Nat \ {None}
  BY CallsRecords DEF Indicate, Counted
<1>2. Becomes(s, b)
  BY DEF Indicate
<1> HIDE DEF n
<1>3. OwnStep(att[s], b)
  BY <1>1, Before, IndicateStep
<1> HIDE DEF b
<1>4. QED
  BY <1>1, <1>2, <1>3, PreservedOwnStep

LEMMA AttTimeoutInv ==
  ASSUME AttInv, NEW s \in Side, AttTimeout(s)
  PROVE  AttInv'
<1> DEFINE b == [att[s] EXCEPT !.timedout = TRUE]
<1>1. Becomes(s, b) /\ UNCHANGED <<callStack, wire>> /\ UNCHANGED historyVars
  BY DEF AttTimeout
<1>2. OwnStep(att[s], b)
  BY Before, TimeoutStep
<1> HIDE DEF b
<1>3. QED
  BY <1>1, <1>2, RecordsUnchanged, PreservedOwnStep

LEMMA FlushSendsInv ==
  ASSUME AttInv, NEW s \in Side, FlushSends(s)
  PROVE  AttInv'
<1> DEFINE b == SendData([att[s] EXCEPT !.notificationQueue = Tail(@)],
                         Pdu("notification", "none", Head(att[s].notificationQueue),
                             att[s].currentMtu))
<1>1. /\ Becomes(s, b) /\ UNCHANGED <<callStack, wire>> /\ UNCHANGED historyVars
      /\ att[s].notificationQueue # <<>>
  BY DEF FlushSends
<1>2. OwnStep(att[s], b)
  BY <1>1, Before, FlushStep
<1> HIDE DEF b
<1>3. QED
  BY <1>1, <1>2, RecordsUnchanged, PreservedOwnStep

LEMMA WrittenInv ==
  ASSUME AttInv, NEW s \in Side, Written(s)
  PROVE  AttInv'
<1> DEFINE o == Other(s)
           m == Agreed(s)
           x == att[s]
           y == att[o]
           pdu == Head(x.out)
           b == AfterWritten([x EXCEPT !.out = Tail(@)], pdu.type)
           wx == Append(wire[s], pdu)
           c == Append(callStack[s], "sent")
<1>1. /\ x.out # <<>> /\ Becomes(s, b) /\ wire' = [wire EXCEPT ![s] = wx]
      /\ callStack' = [callStack EXCEPT ![s] = c] \/ UNCHANGED callStack
      /\ Records'
  BY RecordsUnchanged DEF Written, Push
<1>2. /\ o # s /\ Pair(m, x, y, wire[s], wire[o], callStack[s], callStack[o])
      /\ Nested(callStack[s]) /\ callStack = [callStack EXCEPT ![s] = callStack[s]]
      /\ wire \in [Side -> Seq(Packet)]
  BY Before
<1>3. Pair(m, b, y, wx, wire[o], callStack[s], callStack[o])
  BY <1>1, <1>2, PairWritten
<1>4. Pair(m, b, y, wx, wire[o], c, callStack[o])
  BY <1>2, <1>3, PushSent, PairStack
<1>5. wire'[s] = wx /\ wire'[o] = wire[o]
  BY <1>1, <1>2
<1>6. Pair(m, b, y, wire'[s], wire'[o], callStack[s], callStack[o])
      /\ Pair(m, b, y, wire'[s], wire'[o], c, callStack[o])
  BY <1>3, <1>4, <1>5
<1> HIDE DEF b, wx, c
<1>7. CASE UNCHANGED callStack
  BY <1>1, <1>2, <1>6, <1>7, Preserved DEF Becomes
<1>8. CASE callStack' = [callStack EXCEPT ![s] = c]
  BY <1>1, <1>6, <1>8, Preserved DEF Becomes
<1>9. QED
  BY <1>1, <1>7, <1>8

LEMMA SentCallbackReturnsInv ==
  ASSUME AttInv, NEW s \in Side, SentCallbackReturns(s)
  PROVE  AttInv'
<1> DEFINE o == Other(s)
           c == callStack[s]
           d == SubSeq(c, 1, Len(c) - 1)
<1>1. c # <<>> /\ callStack' = [callStack EXCEPT ![s] = d] /\ UNCHANGED <<att, wire>> /\ Records'
  BY RecordsUnchanged DEF SentCallbackReturns, Returns, Pop
<1>2. /\ Pair(Agreed(s), att[s], att[o], wire[s], wire[o], c, callStack[o]) /\ Nested(c)
      /\ wire = [wire EXCEPT ![s] = wire[s]] /\ att = [att EXCEPT ![s] = att[s]]
  BY Before
<1>3. Pair(Agreed(s), att[s], att[o], wire[s], wire[o], d, callStack[o])
  BY <1>1, <1>2, PopFrame, PairStack
<1> HIDE DEF d
<1>4. QED
  BY <1>1, <1>2, <1>3, Preserved

LEMMA FlushEndsInv ==
  ASSUME AttInv, NEW s \in Side, FlushEnds(s)
  PROVE  AttInv'
<1> DEFINE o == Other(s)
           m == Agreed(s)
           c == callStack[s]
           d == SubSeq(c, 1, Len(c) - 1)
           b == SendNextIndication(att[s])
           b2 == SendNextRequest(b)
<1>1. /\ c # <<>> /\ callStack' = [callStack EXCEPT ![s] = d] /\ UNCHANGED wire /\ Records'
      /\ att' = [att EXCEPT ![s] = b2]
  BY RecordsUnchanged DEF FlushEnds, Returns, Pop, Becomes, AfterFlush
<1>2. /\ Pair(m, att[s], att[o], wire[s], wire[o], c, callStack[o]) /\ Nested(c) /\ Mtu(m)
      /\ wire = [wire EXCEPT ![s] = wire[s]] /\ Sound(att[s]) /\ DefaultMtu \in Nat
  BY Before
<1>3. Pair(m, att[s], att[o], wire[s], wire[o], d, callStack[o])
  BY <1>1, <1>2, PopFrame, PairStack
<1>4. OwnStep(att[s], b)
  BY <1>2, SendNextIndicationStep
<1> HIDE DEF b, d
<1>5. Pair(m, b, att[o], wire[s], wire[o], d, callStack[o]) /\ Sound(b)
  BY <1>2, <1>3, <1>4, PairOwnStep DEF OwnStep
<1>6. OwnStep(b, b2)
  BY <1>2, <1>5, SendNextRequestStep
<1> HIDE DEF b2
<1>7. Pair(m, b2, att[o], wire[s], wire[o], d, callStack[o])
  BY <1>2, <1>5, <1>6, PairOwnStep
<1>8. QED
  BY <1>1, <1>2, <1>7, Preserved

\* The request is done at its end.
LEMMA RequestDone ==
  ASSUME NEW b, Sound(b)
  PROVE  LET c == [b EXCEPT !.currentOutgoingRequest = NoRequest] IN
         /\ Sound(c) /\ c.out = b.out /\ c.tasks = b.tasks /\ c.currentMtu = b.currentMtu
         /\ IdOf("request", c) = None
         /\ \A j \in Kinds : j # "request" => IdOf(j, c) = IdOf(j, b) /\ OpOf(j, c) = OpOf(j, b)
<1> DEFINE c == [b EXCEPT !.currentOutgoingRequest = NoRequest]
<1>1. b \in Bearer
  BY DEF Sound
<1>2. c \in Bearer
  <2> HIDE DEF NoRequest, Request
  <2>1. QED
    BY <1>1 DEF Bearer
<1>3. /\ c.out = b.out /\ c.tasks = b.tasks /\ c.currentMtu = b.currentMtu
      /\ c.timedout = b.timedout /\ c.currentOutgoingRequest = NoRequest
      /\ c.currentOutgoingIndication = b.currentOutgoingIndication
      /\ c.isHandlingRequest = b.isHandlingRequest
      /\ c.hasOutgoingConfirmation = b.hasOutgoingConfirmation
      /\ c.indicationQueue = b.indicationQueue
  BY <1>1 DEF Bearer
<1> HIDE DEF c
<1>4. Sound(c)
  BY <1>2, <1>3 DEF Sound, StagesMean, FlagsMean, TasksOf
<1>5. IdOf("request", c) = None
  BY <1>3 DEF IdOf, NoRequest
<1>6. \A j \in Kinds : j # "request" => IdOf(j, c) = IdOf(j, b) /\ OpOf(j, c) = OpOf(j, b)
  BY <1>3 DEF IdOf, OpOf
<1>7. QED
  BY <1>3, <1>4, <1>5, <1>6 DEF c

LEMMA IndicationDone ==
  ASSUME NEW b, Sound(b)
  PROVE  LET c == [b EXCEPT !.currentOutgoingIndication = None] IN
         /\ Sound(c) /\ c.out = b.out /\ c.tasks = b.tasks /\ c.currentMtu = b.currentMtu
         /\ IdOf("indication", c) = None
         /\ \A j \in Kinds : j # "indication" => IdOf(j, c) = IdOf(j, b) /\ OpOf(j, c) = OpOf(j, b)
<1> DEFINE c == [b EXCEPT !.currentOutgoingIndication = None]
<1>1. b \in Bearer
  BY DEF Sound
<1>2. c \in Bearer
  BY <1>1 DEF Bearer, None
<1>3. /\ c.out = b.out /\ c.tasks = b.tasks /\ c.currentMtu = b.currentMtu
      /\ c.timedout = b.timedout /\ c.currentOutgoingIndication = None
      /\ c.currentOutgoingRequest = b.currentOutgoingRequest
      /\ c.currentOutgoingRequestIsSent = b.currentOutgoingRequestIsSent
      /\ c.isHandlingRequest = b.isHandlingRequest
      /\ c.hasOutgoingConfirmation = b.hasOutgoingConfirmation
      /\ c.indicationQueue = b.indicationQueue
  BY <1>1 DEF Bearer
<1> HIDE DEF c
<1>4. Sound(c)
  BY <1>2, <1>3 DEF Sound, StagesMean, FlagsMean, TasksOf
<1>5. IdOf("indication", c) = None
  BY <1>3 DEF IdOf
<1>6. \A j \in Kinds : j # "indication" => IdOf(j, c) = IdOf(j, b) /\ OpOf(j, c) = OpOf(j, b)
  BY <1>3 DEF IdOf, OpOf, Kinds
<1>7. QED
  BY <1>3, <1>4, <1>5, <1>6 DEF c

\* Stacks with no callback of a transaction.
LEMMA NoCallback ==
  /\ Nested(<<>>) /\ Nested(<<"flush">>)
  /\ \A j \in Kinds : ~Runs(<<>>, j) /\ ~Runs(<<"flush">>, j)
BY DEF Nested, Frames, Runs, Callback, Kinds

\* What the end of the callback of a request does to the stack and the end.
LEMMA ResponseReturns ==
  ASSUME AttInv, NEW s \in Side, ResponseCallbackReturns(s)
  PROVE  LET b2 == [DoneNextRequest(att[s]) EXCEPT !.currentOutgoingRequest = NoRequest] IN
         /\ Runs(callStack[s], "request")
         /\ \/ /\ callStack' = [callStack EXCEPT ![s] = <<"flush">>]
               /\ att' = [att EXCEPT ![s] = b2]
            \/ /\ callStack' = [callStack EXCEPT ![s] = <<>>]
               /\ att' = [att EXCEPT ![s] = SendNextRequest(b2)]
<1> DEFINE c == callStack[s]
           d == SubSeq(c, 1, Len(c) - 1)
           e == [c EXCEPT ![Len(c)] = "flush"]
           b2 == [DoneNextRequest(att[s]) EXCEPT !.currentOutgoingRequest = NoRequest]
           b3 == SendNextRequest(b2)
<1>1. c # <<>> /\ c[Len(c)] = "response" /\ Nested(c)
  BY Before DEF ResponseCallbackReturns, Top
<1>2. \/ /\ callStack' = [callStack EXCEPT ![s] = e] /\ att' = [att EXCEPT ![s] = b2]
      \/ /\ callStack' = [callStack EXCEPT ![s] = d] /\ att' = [att EXCEPT ![s] = b3]
  <2>1. CASE WasMtuExchange(att[s])
    <3>1. callStack' = [callStack EXCEPT ![s][Len(callStack[s])] = "flush"] /\ Becomes(s, b2)
      BY <2>1 DEF ResponseCallbackReturns
    <3>2. QED
      BY <3>1 DEF Becomes
  <2>2. CASE ~WasMtuExchange(att[s])
    <3>1. Pop(s) /\ Becomes(s, b3)
      BY <2>2 DEF ResponseCallbackReturns
    <3>2. QED
      BY <3>1 DEF Becomes, Pop
  <2>3. QED
    BY <2>1, <2>2
<1>3. Len(c) = 1 /\ d = <<>>
  BY <1>1, PopFrame
<1>4. e = <<"flush">>
  <2>1. c \in Seq(Frames)
    BY <1>1 DEF Nested
  <2>2. e \in Seq(Frames) /\ Len(e) = 1 /\ e[1] = "flush"
    BY <1>3, <2>1, ExceptSeq DEF Frames
  <2>3. <<"flush">> \in Seq(Frames)
    BY DEF Frames
  <2> HIDE DEF e, Frames
  <2> DEFINE f == <<"flush">>
  <2>4. f \in Seq(Frames) /\ Len(f) = 1 /\ f[1] = "flush"
    BY <2>3
  <2> HIDE DEF f
  <2>5. \A i \in 1 .. Len(e) : e[i] = f[i]
    BY <2>2, <2>4
  <2>6. e = f
    BY <2>2, <2>4, <2>5, SeqEqual
  <2>7. QED
    BY <2>6 DEF f
<1>5. Runs(c, "request")
  BY <1>1, <1>3 DEF Runs, Callback
<1> HIDE DEF b2, d, e
<1>6. QED
  BY <1>2, <1>3, <1>4, <1>5 DEF b2

LEMMA ResponseCallbackReturnsInv ==
  ASSUME AttInv, NEW s \in Side, ResponseCallbackReturns(s)
  PROVE  AttInv'
<1> DEFINE o == Other(s)
           m == Agreed(s)
           c == callStack[s]
           d == <<>>
           e == <<"flush">>
           b1 == DoneNextRequest(att[s])
           b2 == [b1 EXCEPT !.currentOutgoingRequest = NoRequest]
           b3 == SendNextRequest(b2)
<1>1. UNCHANGED wire /\ Records'
  BY RecordsUnchanged DEF ResponseCallbackReturns
<1>2. /\ Runs(c, "request")
      /\ \/ callStack' = [callStack EXCEPT ![s] = e] /\ att' = [att EXCEPT ![s] = b2]
         \/ callStack' = [callStack EXCEPT ![s] = d] /\ att' = [att EXCEPT ![s] = b3]
  BY ResponseReturns
<1>3. /\ Pair(m, att[s], att[o], wire[s], wire[o], c, callStack[o]) /\ Nested(c) /\ Mtu(m)
      /\ wire = [wire EXCEPT ![s] = wire[s]] /\ Sound(att[s]) /\ DefaultMtu \in Nat
  BY Before
<1>4. OwnStep(att[s], b1)
  BY <1>3, DoneNextRequestStep
<1> HIDE DEF b1, c, d, e
<1>5. Pair(m, b1, att[o], wire[s], wire[o], c, callStack[o]) /\ Sound(b1)
  BY <1>3, <1>4, PairOwnStep DEF OwnStep
<1>6. /\ Sound(b2) /\ b2.out = b1.out /\ b2.tasks = b1.tasks /\ b2.currentMtu = b1.currentMtu
      /\ IdOf("request", b2) = None
      /\ \A j \in Kinds : j # "request" => IdOf(j, b2) = IdOf(j, b1) /\ OpOf(j, b2) = OpOf(j, b1)
  BY <1>5, RequestDone
<1> HIDE DEF b2
<1>7. "request" \in Kinds
  BY DEF Kinds
<1>8. \A f : Nested(f) /\ (\A j \in Kinds : ~Runs(f, j)) =>
         Pair(m, b2, att[o], wire[s], wire[o], f, callStack[o])
  BY <1>2, <1>5, <1>6, <1>7, PairEnds
<1>9. /\ Pair(m, b2, att[o], wire[s], wire[o], e, callStack[o])
      /\ Pair(m, b2, att[o], wire[s], wire[o], d, callStack[o])
  BY <1>8, NoCallback DEF d, e
<1>10. OwnStep(b2, b3)
  BY <1>3, <1>6, SendNextRequestStep
<1> HIDE DEF b3
<1>11. Pair(m, b3, att[o], wire[s], wire[o], d, callStack[o])
  BY <1>3, <1>9, <1>10, PairOwnStep
<1>12. CASE callStack' = [callStack EXCEPT ![s] = e] /\ att' = [att EXCEPT ![s] = b2]
  BY <1>1, <1>3, <1>9, <1>12, Preserved
<1>13. CASE callStack' = [callStack EXCEPT ![s] = d] /\ att' = [att EXCEPT ![s] = b3]
  BY <1>1, <1>3, <1>11, <1>13, Preserved
<1>14. QED
  BY <1>2, <1>12, <1>13

LEMMA ConfirmationCallbackReturnsInv ==
  ASSUME AttInv, NEW s \in Side, ConfirmationCallbackReturns(s)
  PROVE  AttInv'
<1> DEFINE o == Other(s)
           m == Agreed(s)
           c == callStack[s]
           d == SubSeq(c, 1, Len(c) - 1)
           b2 == [att[s] EXCEPT !.currentOutgoingIndication = None]
           b3 == SendNextIndication(b2)
<1>1. /\ c # <<>> /\ c[Len(c)] = "confirmation" /\ UNCHANGED wire /\ Records'
      /\ callStack' = [callStack EXCEPT ![s] = d] /\ att' = [att EXCEPT ![s] = b3]
  BY RecordsUnchanged DEF ConfirmationCallbackReturns, Returns, Top, Pop, Becomes
<1>2. /\ Pair(m, att[s], att[o], wire[s], wire[o], c, callStack[o]) /\ Nested(c) /\ Mtu(m)
      /\ wire = [wire EXCEPT ![s] = wire[s]] /\ Sound(att[s]) /\ DefaultMtu \in Nat
  BY Before
<1>3. Len(c) = 1 /\ d = <<>>
  BY <1>1, <1>2, PopFrame
<1>4. Runs(c, "indication") /\ "indication" \in Kinds
  BY <1>1, <1>3 DEF Runs, Callback, Kinds
<1> HIDE DEF c, d
<1>5. /\ Sound(b2) /\ b2.out = att[s].out /\ b2.tasks = att[s].tasks
      /\ b2.currentMtu = att[s].currentMtu /\ IdOf("indication", b2) = None
      /\ \A j \in Kinds : j # "indication" =>
           IdOf(j, b2) = IdOf(j, att[s]) /\ OpOf(j, b2) = OpOf(j, att[s])
  BY <1>2, IndicationDone
<1> HIDE DEF b2
<1>6. Nested(d) /\ \A j \in Kinds : ~Runs(d, j)
  BY <1>3, NoCallback
<1>7. Pair(m, b2, att[o], wire[s], wire[o], d, callStack[o])
  BY <1>2, <1>4, <1>5, <1>6, PairEnds
<1>8. OwnStep(b2, b3)
  BY <1>2, <1>5, SendNextIndicationStep
<1> HIDE DEF b3
<1>9. Pair(m, b3, att[o], wire[s], wire[o], d, callStack[o])
  BY <1>2, <1>7, <1>8, PairOwnStep
<1>10. QED
  BY <1>1, <1>2, <1>9, Preserved

\* What is known when a packet arrives: it is never too long.
LEMMA Receiving ==
  ASSUME AttInv, NEW s \in Side, NEW kinds, Receives(s, kinds)
  PROVE  /\ wire[Other(s)] # <<>> /\ callStack[s] = <<>> /\ ~att[s].timedout
         /\ wire' = [wire EXCEPT ![Other(s)] = Tail(wire[Other(s)])]
         /\ wire'[s] = wire[s] /\ wire'[Other(s)] = Tail(wire[Other(s)])
         /\ Fits(s) /\ Head(wire[Other(s)]).type \in kinds
         /\ Head(wire[Other(s)]) \in Packet
<1> HIDE DEF Packet, Frames, Mtu
<1> DEFINE o == Other(s)
<1>1. /\ wire[o] # <<>> /\ callStack[s] = <<>> /\ ~att[s].timedout /\ Kind(s) \in kinds
      /\ wire' = [wire EXCEPT ![o] = Tail(wire[o])]
  BY DEF Receives
<1>2. /\ o \in Side /\ o # s /\ wire \in [Side -> Seq(Packet)] /\ Mtu(Agreed(s))
      /\ Pair(Agreed(s), att[s], att[o], wire[s], wire[o], callStack[s], callStack[o])
  BY Before
<1>3. wire'[s] = wire[s] /\ wire'[o] = Tail(wire[o])
  BY <1>1, <1>2
<1>4. Head(wire[o]).len <= att[s].currentMtu
  BY <1>1, <1>2, ArrivalFits
<1>5. Fits(s)
  BY <1>4 DEF Fits, Arriving
<1>6. Head(wire[o]).type \in kinds
  BY <1>1, <1>5 DEF Kind, Arriving
<1>7. Head(wire[o]) \in Packet
  BY <1>1, <1>2, TailElements
<1>8. QED
  BY <1>1, <1>3, <1>5, <1>6, <1>7

\* A response that arrives is that of the outstanding request, which is awaited.
LEMMA ResponseAwaited ==
  ASSUME AttInv, NEW s \in Side, Receives(s, {"response", "error", "oversized"})
  PROVE  LET p == Head(wire[Other(s)])
             r == att[s].currentOutgoingRequest
         IN p.id = r.id /\ p.op = r.op /\ IsAwaited(att[s], p) /\ p.type \in {"response", "error"}
<1> DEFINE o == Other(s)
           x == att[s]
           p == Head(wire[o])
           r == x.currentOutgoingRequest
<1>1. /\ wire[o] # <<>> /\ ~x.timedout /\ p.type \in {"response", "error", "oversized"}
      /\ p \in Packet
  BY Receiving
<1>2. p.type \in {"response", "error"}
  BY <1>1 DEF Packet, Type
<1> HIDE DEF Packet
<1>3. /\ Pair(Agreed(s), x, att[o], wire[s], wire[o], callStack[s], callStack[o])
      /\ Sound(x) /\ wire[o] \in Seq(Packet)
  BY Before, PairTypes
<1>4. p.type \in Replies("request") /\ "request" \in Kinds
  BY <1>2 DEF Replies, Kinds
<1>5. wire[o] # <<>>
  BY <1>1
<1>6. /\ p.id = IdOf("request", x) /\ p.op = OpOf("request", x) /\ IdOf("request", x) # None
      /\ NoneIn(x.out, Asks("request"))
  BY <1>3, <1>4, <1>5, PairReturning
<1>7. p.id = r.id /\ p.op = r.op /\ r.id # None
  BY <1>6 DEF IdOf, OpOf
<1>8. r # NoRequest
  BY <1>7 DEF NoRequest
<1>9. x.currentOutgoingRequestIsSent
  BY <1>1, <1>3, <1>6, <1>8 DEF Sound, FlagsMean
<1>10. QED
  BY <1>2, <1>7, <1>8, <1>9 DEF IsAwaited

LEMMA HandleResponseInv ==
  ASSUME AttInv, NEW s \in Side, HandleResponse(s)
  PROVE  AttInv'
<1> DEFINE o == Other(s)
           m == Agreed(s)
           x == att[s]
           y == att[o]
           p == Head(wire[o])
           r == x.currentOutgoingRequest
           b == IF p.type = "response" /\ p.op = "mtu" THEN WithMtu(x, m) ELSE x
           c == <<"response">>
<1>1. Receives(s, {"response", "error", "oversized"})
  BY DEF HandleResponse
<1>2. /\ wire[o] # <<>> /\ callStack[s] = <<>> /\ Fits(s)
      /\ wire' = [wire EXCEPT ![o] = Tail(wire[o])]
      /\ wire'[s] = wire[s] /\ wire'[o] = Tail(wire[o])
  BY <1>1, Receiving
<1>3. /\ p.id = r.id /\ p.op = r.op /\ IsAwaited(x, p) /\ p.type \in {"response", "error"}
  BY <1>1, ResponseAwaited
<1>4. /\ callStack' = [callStack EXCEPT ![s] = Append(@, "response")] /\ att' = [att EXCEPT ![s] = b]
      /\ answer' = [answer EXCEPT ![s][r.id] = "own"]
      /\ UNCHANGED <<calls, confirmed, notified, budget>>
  BY <1>2, <1>3 DEF HandleResponse, Arriving, Push, Becomes, Agreed
<1>5. Append(callStack[s], "response") = c
  BY <1>2
<1>6. Records'
  <2>1. answer \in [Side -> [Ids("request") -> {"none", "own"}]]
    BY DEF AttInv, Records
  <2>2. answer' \in [Side -> [Ids("request") -> {"none", "own"}]]
    BY <1>4, <2>1
  <2>3. QED
    BY <1>4, <2>2 DEF AttInv, Records
<1>7. /\ o \in Side /\ m \in Nat
      /\ Pair(m, x, y, wire[s], wire[o], <<>>, callStack[o])
  BY <1>2, Before
<1>8. p.type \in Replies("request") /\ "request" \in Kinds /\ Callback("request") = "response"
  BY <1>3 DEF Replies, Kinds, Callback
<1>9. Pair(m, b, y, wire[s], Tail(wire[o]), c, callStack[o])
  <2>1. CASE MtuResponse(p)
    <3>1. y.currentMtu = m
      BY <1>2, <1>7, <2>1, MtuResponseArrives
    <3>2. b = WithMtu(x, m)
      BY <2>1 DEF MtuResponse
    <3> HIDE DEF b
    <3>3. Pair(m, b, y, wire[s], wire[o], <<>>, callStack[o]) /\ b.currentMtu = m
      BY <1>7, <3>1, <3>2, PairMtu
    <3>4. QED
      BY <1>2, <1>8, <3>3, PairAnswered
  <2>2. CASE ~MtuResponse(p)
    <3>1. b = x
      BY <2>2 DEF MtuResponse
    <3> HIDE DEF b, MtuResponse
    <3>2. QED
      BY <1>2, <1>7, <1>8, <2>2, <3>1, PairAnswered
  <2>3. QED
    BY <2>1, <2>2
<1> HIDE DEF b, c
<1>10. callStack' = [callStack EXCEPT ![s] = c]
  BY <1>4, <1>5
<1>11. Pair(m, b, y, wire'[s], wire'[o], c, callStack[o])
  BY <1>2, <1>9
<1>12. QED
  BY <1>2, <1>4, <1>6, <1>7, <1>10, <1>11, Preserved

\* An arrival that changes nothing but the state of the end.
LEMMA PreservedArrival ==
  ASSUME AttInv, Records', NEW s \in Side, NEW kinds, Receives(s, kinds), UNCHANGED callStack,
         NEW b, att' = [att EXCEPT ![s] = b],
         Pair(Agreed(s), b, att[Other(s)], wire[s], Tail(wire[Other(s)]), callStack[s],
              callStack[Other(s)])
  PROVE  AttInv'
<1>1. /\ wire' = [wire EXCEPT ![Other(s)] = Tail(wire[Other(s)])]
      /\ wire'[s] = wire[s] /\ wire'[Other(s)] = Tail(wire[Other(s)])
  BY Receiving
<1>2. Other(s) \in Side /\ callStack' = [callStack EXCEPT ![s] = callStack[s]]
  BY Before
<1>3. Pair(Agreed(s), b, att[Other(s)], wire'[s], wire'[Other(s)], callStack[s], callStack[Other(s)])
  BY <1>1
<1>4. QED
  BY <1>1, <1>2, <1>3, Preserved

LEMMA HandleNotificationInv ==
  ASSUME AttInv, NEW s \in Side, HandleNotification(s)
  PROVE  AttInv'
<1> DEFINE o == Other(s)
           p == Head(wire[o])
<1>1. Receives(s, {"notification"})
  BY DEF HandleNotification
<1>2. wire[o] # <<>> /\ p.type = "notification" /\ p \in Packet
  BY <1>1, Receiving
<1>3. /\ UNCHANGED <<att, callStack>> /\ att = [att EXCEPT ![s] = att[s]]
  BY Before DEF HandleNotification
<1>4. Records'
  <2>1. notified \in [Side -> Seq(Nat)] /\ p.id \in Nat
    BY <1>2 DEF AttInv, Records, Packet
  <2>2. notified' = [notified EXCEPT ![s] = Append(notified[s], p.id)]
    BY DEF HandleNotification, Arriving
  <2>3. Append(notified[s], p.id) \in Seq(Nat)
    BY <2>1, AppendElements
  <2>4. notified' \in [Side -> Seq(Nat)]
    BY <2>1, <2>2, <2>3
  <2>5. QED
    BY <2>4 DEF AttInv, Records, HandleNotification
<1>5. ~MtuResponse(p)
  BY <1>2 DEF MtuResponse
<1>6. Pair(Agreed(s), att[s], att[o], wire[s], wire[o], callStack[s], callStack[o])
  BY Before
<1> HIDE DEF MtuResponse
<1>7. Pair(Agreed(s), att[s], att[o], wire[s], Tail(wire[o]), callStack[s], callStack[o])
  BY <1>2, <1>5, <1>6, PairDropped
<1>8. QED
  BY <1>1, <1>3, <1>4, <1>7, PreservedArrival

LEMMA HandleConfirmationInv ==
  ASSUME AttInv, NEW s \in Side, HandleConfirmation(s)
  PROVE  AttInv'
<1> DEFINE o == Other(s)
           m == Agreed(s)
           x == att[s]
           p == Head(wire[o])
           c == <<"confirmation">>
<1>1. Receives(s, {"confirmation"})
  BY DEF HandleConfirmation
<1>2. /\ wire[o] # <<>> /\ callStack[s] = <<>> /\ p.type = "confirmation" /\ p \in Packet
      /\ wire' = [wire EXCEPT ![o] = Tail(wire[o])]
      /\ wire'[s] = wire[s] /\ wire'[o] = Tail(wire[o])
  BY <1>1, Receiving
<1>3. /\ att' = [att EXCEPT ![s] = x] /\ o \in Side /\ Sound(x)
      /\ Pair(m, x, att[o], wire[s], wire[o], callStack[s], callStack[o])
  BY Before DEF HandleConfirmation
<1>4. ~MtuResponse(p) /\ p.type \in Replies("indication") /\ "indication" \in Kinds
      /\ Callback("indication") = "confirmation"
  BY <1>2 DEF MtuResponse, Replies, Kinds, Callback
<1> HIDE DEF MtuResponse
<1>5. /\ p.id = IdOf("indication", x)
      /\ Pair(m, x, att[o], wire[s], Tail(wire[o]), <<Callback("indication")>>, callStack[o])
  BY <1>2, <1>3, <1>4, PairAnswered
<1>6. CASE x.currentOutgoingIndication # None /\ x.currentOutgoingIndicationIsSent
  <2>1. /\ callStack' = [callStack EXCEPT ![s] = Append(@, "confirmation")]
        /\ confirmed' = [confirmed EXCEPT ![s] = @ \cup {<<x.currentOutgoingIndication, p.id>>}]
        /\ UNCHANGED <<calls, answer, notified, budget>>
    BY <1>6 DEF HandleConfirmation, Push, Arriving
  <2>2. Append(callStack[s], "confirmation") = c
    BY <1>2
  <2>3. Pair(m, x, att[o], wire'[s], wire'[o], c, callStack[o])
    BY <1>2, <1>4, <1>5
  <2>4. Records'
    <3> DEFINE new == <<x.currentOutgoingIndication, p.id>>
    <3>1. new \in Nat \X Nat /\ new[1] = new[2]
      BY <1>2, <1>3, <1>5 DEF Sound, Bearer, IdOf, Packet
    <3> HIDE DEF new
    <3>2. /\ confirmed \in [Side -> SUBSET (Nat \X Nat)]
          /\ \A t \in Side : \A pair \in confirmed[t] : pair[1] = pair[2]
      BY DEF AttInv, Records
    <3>3. confirmed' = [confirmed EXCEPT ![s] = @ \cup {new}]
      BY <2>1 DEF new
    <3>4. /\ confirmed' \in [Side -> SUBSET (Nat \X Nat)]
          /\ \A t \in Side : \A pair \in confirmed'[t] : pair[1] = pair[2]
      BY <3>1, <3>2, <3>3
    <3>5. QED
      BY <2>1, <3>4 DEF AttInv, Records
  <2> HIDE DEF c
  <2>5. callStack' = [callStack EXCEPT ![s] = c]
    BY <2>1, <2>2
  <2>6. QED
    BY <1>2, <1>3, <2>3, <2>4, <2>5, Preserved
<1>7. CASE ~(x.currentOutgoingIndication # None /\ x.currentOutgoingIndicationIsSent)
  <2>1. UNCHANGED callStack /\ UNCHANGED historyVars
    BY <1>7 DEF HandleConfirmation, historyVars
  <2>2. Pair(m, x, att[o], wire[s], Tail(wire[o]), callStack[s], callStack[o])
    BY <1>2, <1>3, <1>4, PairDropped
  <2>3. QED
    BY <1>1, <1>3, <2>1, <2>2, RecordsUnchanged, PreservedArrival
<1>8. QED
  BY <1>6, <1>7

\* What is known when a packet arrives that asks.
LEMMA PairAsked ==
  ASSUME NEW m, NEW x, NEW y, NEW wx, NEW wy, NEW cx, NEW cy, Pair(m, x, y, wx, wy, cx, cy),
         wy # <<>>, NEW k \in Kinds, Head(wy).type \in Asks(k)
  PROVE  /\ Head(wy).op = OpOf(k, y) /\ IdOf(k, y) # None
         /\ NoneIn(x.out, Replies(k)) /\ TasksOf(k, x) = {}
<1> HIDE DEF Packet
<1>1. wy \in Seq(Packet)
  BY PairTypes
<1>2. Path(k, IdOf(k, y), OpOf(k, y), y.out, wy, TasksOf(k, x), x.out, wx, Runs(cy, k))
  BY DEF Pair, Way, PathOf
<1>3. QED
  BY <1>1, <1>2, PathAsked

LEMMA RequestArrives ==
  ASSUME NEW m, NEW x, NEW y, NEW wx, NEW wy, NEW cx, NEW cy, Pair(m, x, y, wx, wy, cx, cy),
         wy # <<>>, Head(wy).type = "request"
  PROVE  Head(wy).op \in Op
<1>1. Sound(y)
  BY DEF Pair, Way
<1>2. "request" \in Kinds /\ Head(wy).type \in Asks("request")
  BY DEF Kinds, Asks
<1>3. Head(wy).op = OpOf("request", y) /\ IdOf("request", y) # None
  BY <1>2, PairAsked
<1>4. y.currentOutgoingRequest # NoRequest /\ y.currentOutgoingRequest \in Request \cup {NoRequest}
  BY <1>1, <1>3 DEF IdOf, NoRequest, Sound, Bearer
<1>5. QED
  BY <1>3, <1>4 DEF OpOf, Request

LEMMA HandleRequestInv ==
  ASSUME AttInv, NEW s \in Side, HandleRequest(s)
  PROVE  AttInv'
<1> DEFINE o == Other(s)
           m == Agreed(s)
           x == att[s]
           y == att[o]
           p == Head(wire[o])
           b == [x EXCEPT !.isHandlingRequest = TRUE]
           reply == Pdu("response", "mtu", p.id, DefaultMtu)
           replied == SendResponse(x, reply)
           exchanged == WithMtu(replied, m)
           reads == AddTask(b, "read", "answer", p.id)
           writes == AddTask(b, "write", "authorize", p.id)
           Goal(next) == Pair(m, next, y, wire[s], Tail(wire[o]), callStack[s], callStack[o])
<1>1. Receives(s, {"request"}) /\ UNCHANGED callStack /\ Records'
  BY RecordsUnchanged DEF HandleRequest
<1>2. /\ wire[o] # <<>> /\ p.type = "request" /\ p \in Packet /\ ~x.timedout
  BY <1>1, Receiving
<1>3. /\ Pair(m, x, y, wire[s], wire[o], callStack[s], callStack[o]) /\ Mtu(m) /\ m \in Nat
      /\ Sound(x) /\ DefaultMtu \in Nat
  BY Before
<1>4. p.op \in Op /\ p.id \in Nat /\ x.currentMtu \in Nat /\ x.currentMtu \in {DefaultMtu, m}
  <2>1. p.op \in Op
    BY <1>2, <1>3, RequestArrives
  <2>2. QED
    BY <1>2, <1>3, <2>1 DEF Packet, Sound, Bearer, Pair, Way, Lengths
<1>5. \/ att' = [att EXCEPT ![s] = x]
      \/ p.op = "mtu" /\ att' = [att EXCEPT ![s] = exchanged]
      \/ p.op = "read" /\ att' = [att EXCEPT ![s] = reads]
      \/ p.op = "write" /\ att' = [att EXCEPT ![s] = writes]
  <2>1. CASE x.isHandlingRequest
    BY <2>1 DEF HandleRequest, Becomes
  <2>2. CASE ~x.isHandlingRequest /\ p.op = "mtu"
    BY <2>2 DEF HandleRequest, Becomes, Arriving, Agreed
  <2>3. CASE ~x.isHandlingRequest /\ p.op = "read"
    BY <2>3 DEF HandleRequest, Becomes, Arriving
  <2>4. CASE ~x.isHandlingRequest /\ p.op = "write"
    BY <2>4 DEF HandleRequest, Becomes, Arriving
  <2>5. QED
    BY <1>3, <1>4, <2>1, <2>2, <2>3, <2>4 DEF Op, Sound, Bearer
<1>6. Goal(x)
  <2>1. ~MtuResponse(p)
    BY <1>2 DEF MtuResponse
  <2> HIDE DEF MtuResponse
  <2>2. QED
    BY <1>2, <1>3, <2>1, PairDropped
<1>7. p.op = "mtu" => Goal(exchanged)
  <2>1. /\ reply \in Packet /\ reply.type = "response" /\ reply.op = "mtu" /\ reply.id = p.id
        /\ reply.len = DefaultMtu
    BY <1>3, <1>4 DEF Pdu, Packet, Type, Op
  <2>2. reply.type \in Replies("request")
    BY <2>1 DEF Replies
  <2> HIDE DEF reply, Packet
  <2>3. /\ Sound(replied) /\ SameClient(x, replied) /\ replied.tasks = x.tasks
        /\ replied.out = Append(x.out, reply)
    BY <1>2, <1>3, <2>1, <2>2, SoundIsAlmost, SendResponseSound
  <2> HIDE DEF replied
  <2>4. /\ Sound(exchanged) /\ exchanged.out = replied.out /\ exchanged.tasks = replied.tasks
        /\ exchanged.currentMtu = m
        /\ exchanged.currentOutgoingRequest = replied.currentOutgoingRequest
        /\ exchanged.currentOutgoingIndication = replied.currentOutgoingIndication
    BY <1>3, <1>4, <2>3, WithMtuSound DEF SameClient
  <2> HIDE DEF exchanged
  <2>5. /\ exchanged.out = Append(x.out, reply) /\ exchanged.tasks = x.tasks
        /\ exchanged.currentOutgoingRequest = x.currentOutgoingRequest
        /\ exchanged.currentOutgoingIndication = x.currentOutgoingIndication
    BY <2>3, <2>4 DEF SameClient
  <2>6. QED
    BY <1>2, <1>3, <2>1, <2>4, <2>5, PairMtuAsked
<1>8. ASSUME NEW op \in {"read", "write"}, NEW stage \in {"authorize", "answer"}, p.op = op,
             op = "read" => stage = "answer"
      PROVE  Goal(AddTask(b, op, stage, p.id))
  <2> DEFINE t == [op |-> op, stage |-> stage, id |-> p.id, mtu |-> b.currentMtu]
             c == [b EXCEPT !.tasks = @ \cup {t}]
  <2>1. AlmostSound(b) /\ SameClient(x, b) /\ b.tasks = x.tasks /\ b.out = x.out
    BY <1>3, HandlingAlmostSound
  <2> HIDE DEF b
  <2>2. t \in Task /\ t.op = op /\ t.id = p.id /\ t.mtu = x.currentMtu /\ t.stage = stage
    BY <1>4, <2>1 DEF Task, SameClient
  <2>3. c = AddTask(b, op, stage, p.id)
    BY DEF AddTask
  <2> HIDE DEF t
  <2>4. Sound(c) /\ SameClient(b, c) /\ c.tasks = b.tasks \cup {t} /\ c.out = b.out
    BY <1>8, <2>1, <2>2, TaskAddedSound
  <2> HIDE DEF c
  <2>5. SameClient(x, c) /\ c.out = x.out /\ c.tasks = x.tasks \cup {t}
    BY <2>1, <2>4 DEF SameClient
  <2>6. TaskFor(p, t)
    BY <1>2, <1>8, <2>2 DEF TaskFor
  <2>7. Goal(c)
    BY <1>2, <1>3, <2>2, <2>4, <2>5, <2>6, PairTask
  <2>8. QED
    BY <2>3, <2>7
<1>9. (p.op = "read" => Goal(reads)) /\ (p.op = "write" => Goal(writes))
  BY <1>8
<1> HIDE DEF b, reply, replied, exchanged, reads, writes
<1>10. QED
  BY <1>1, <1>5, <1>6, <1>7, <1>9, PreservedArrival

LEMMA HandleCommandInv ==
  ASSUME AttInv, NEW s \in Side, HandleCommand(s)
  PROVE  AttInv'
<1> DEFINE o == Other(s)
           m == Agreed(s)
           x == att[s]
           p == Head(wire[o])
           t == [op |-> "command", stage |-> "authorize", id |-> p.id, mtu |-> x.currentMtu]
           c == [x EXCEPT !.tasks = @ \cup {t}]
<1>1. /\ Receives(s, {"command"}) /\ UNCHANGED callStack /\ Records'
      /\ att' = [att EXCEPT ![s] = c]
  BY RecordsUnchanged DEF HandleCommand, Becomes, AddTask, Arriving
<1>2. wire[o] # <<>> /\ p.type = "command" /\ p \in Packet
  BY <1>1, Receiving
<1>3. /\ Pair(m, x, att[o], wire[s], wire[o], callStack[s], callStack[o]) /\ Mtu(m) /\ Sound(x)
  BY Before
<1>4. t \in Task /\ t.op = "command" /\ t.mtu = x.currentMtu
  BY <1>2, <1>3 DEF Task, Packet, Sound, Bearer
<1> HIDE DEF t
<1>5. Sound(c) /\ SameClient(x, c) /\ c.tasks = x.tasks \cup {t} /\ c.out = x.out
  BY <1>3, <1>4, SoundIsAlmost, TaskAddedSound
<1> HIDE DEF c
<1>6. TaskFor(p, t)
  BY <1>2, <1>4 DEF TaskFor
<1>7. Pair(m, c, att[o], wire[s], Tail(wire[o]), callStack[s], callStack[o])
  BY <1>2, <1>3, <1>4, <1>5, <1>6, PairTask
<1>8. QED
  BY <1>1, <1>7, PreservedArrival

LEMMA HandleIndicationInv ==
  ASSUME AttInv, NEW s \in Side, HandleIndication(s)
  PROVE  AttInv'
<1> DEFINE o == Other(s)
           m == Agreed(s)
           x == att[s]
           p == Head(wire[o])
           t == [op |-> "confirm", stage |-> "answer", id |-> p.id, mtu |-> x.currentMtu]
           c == [x EXCEPT !.tasks = @ \cup {t}]
<1>1. /\ Receives(s, {"indication"}) /\ UNCHANGED callStack /\ Records'
      /\ att' = [att EXCEPT ![s] = c] \/ att' = [att EXCEPT ![s] = x]
  BY RecordsUnchanged DEF HandleIndication, Becomes, AddTask, Arriving
<1>2. wire[o] # <<>> /\ p.type = "indication" /\ p \in Packet
  BY <1>1, Receiving
<1>3. /\ Pair(m, x, att[o], wire[s], wire[o], callStack[s], callStack[o]) /\ Mtu(m) /\ Sound(x)
  BY Before
<1>4. t \in Task /\ t.op = "confirm" /\ t.mtu = x.currentMtu /\ t.stage = "answer" /\ t.id = p.id
  BY <1>2, <1>3 DEF Task, Packet, Sound, Bearer
<1> HIDE DEF t
<1>5. Sound(c) /\ SameClient(x, c) /\ c.tasks = x.tasks \cup {t} /\ c.out = x.out
  BY <1>3, <1>4, SoundIsAlmost, TaskAddedSound
<1> HIDE DEF c
<1>6. TaskFor(p, t) /\ ~MtuResponse(p)
  BY <1>2, <1>4 DEF TaskFor, MtuResponse
<1> HIDE DEF MtuResponse
<1>7. Pair(m, c, att[o], wire[s], Tail(wire[o]), callStack[s], callStack[o])
  BY <1>2, <1>3, <1>4, <1>5, <1>6, PairTask
<1>8. Pair(m, x, att[o], wire[s], Tail(wire[o]), callStack[s], callStack[o])
  BY <1>2, <1>3, <1>6, PairDropped
<1>9. QED
  BY <1>1, <1>7, <1>8, PreservedArrival

-----------------------------------------------------------------------------
(* The application of the server is done with something. *)

\* The application settles a task at end s and b is left; the rest stays.
LEMMA PreservedAnswer ==
  ASSUME AttInv, NEW s \in Side, UNCHANGED <<callStack, wire, historyVars>>, NEW b,
         att' = [att EXCEPT ![s] = b],
         Pair(Agreed(s), b, att[Other(s)], wire[s], wire[Other(s)], callStack[s],
              callStack[Other(s)])
  PROVE  AttInv'
<1> DEFINE c == callStack[s]
           w == wire[s]
<1>1. Records'
  BY RecordsUnchanged
<1>2. /\ callStack' = [callStack EXCEPT ![s] = c] /\ wire' = [wire EXCEPT ![s] = w]
      /\ wire'[s] = wire[s] /\ wire'[Other(s)] = wire[Other(s)]
  BY Before
<1>3. Pair(Agreed(s), b, att[Other(s)], wire'[s], wire'[Other(s)], c, callStack[Other(s)])
  BY <1>2
<1> HIDE DEF c, w
<1>4. QED
  BY <1>1, <1>2, <1>3, Preserved

\* The server answers a request of its task t with p, unless it has timed out.
LEMMA PairResponds ==
  ASSUME NEW m, Mtu(m), NEW x, NEW y, NEW wx, NEW wy, NEW cx, NEW cy,
         Pair(m, x, y, wx, wy, cx, cy), NEW t \in x.tasks,
         NEW p \in Packet, p.id = t.id, ReplyTo(p, t), p.type \in Replies("request")
  PROVE  Pair(m, SendResponse(Without(x, t), p), y, wx, wy, cx, cy)
<1> DEFINE b == Without(x, t)
           c == SendResponse(b, p)
<1>1. Sound(x)
  BY PairTypes
<1>2. /\ AlmostSound(b) /\ SameClient(x, b) /\ b.tasks = x.tasks \ {t} /\ b.out = x.out
      /\ b.timedout = x.timedout
  BY <1>1, WithoutSound
<1> HIDE DEF b, Packet
<1>3. /\ Sound(c) /\ SameClient(b, c) /\ c.tasks = b.tasks
      /\ c.out = (IF b.timedout THEN b.out ELSE Append(b.out, p))
  BY <1>2, SendResponseSound
<1> HIDE DEF c
<1>4. SameClient(x, c) /\ c.tasks = x.tasks \ {t}
  BY <1>2, <1>3 DEF SameClient
<1>5. CASE x.timedout
  <2>1. c.out = x.out
    BY <1>2, <1>3, <1>5
  <2>2. QED
    BY <1>3, <1>4, <2>1, PairTaskGoesOn DEF b, c
<1>6. CASE ~x.timedout
  <2>1. c.out = Append(x.out, p)
    BY <1>1, <1>2, <1>3, <1>6
  <2>2. QED
    BY <1>3, <1>4, <2>1, PairTaskReplies DEF b, c
<1>7. QED
  BY <1>5, <1>6

\* A task that is no request is dropped.
LEMMA PairTaskDropped ==
  ASSUME NEW m, NEW x, NEW y, NEW wx, NEW wy, NEW cx, NEW cy, Pair(m, x, y, wx, wy, cx, cy),
         NEW t \in x.tasks, t.op \notin {"read", "write"}
  PROVE  Pair(m, Without(x, t), y, wx, wy, cx, cy)
<1> DEFINE b == Without(x, t)
<1>1. Sound(x)
  BY PairTypes
<1>2. Sound(b) /\ SameClient(x, b) /\ b.tasks = x.tasks \ {t} /\ b.out = x.out
  BY <1>1, WithoutSound
<1> HIDE DEF b
<1>3. Pair(m, b, y, wx, wy, cx, cy)
  BY <1>2, PairTaskGoesOn
<1>4. QED
  BY <1>3 DEF b

\* An error for a request is answered, one for a command is not.
LEMMA PairRefused ==
  ASSUME NEW m, Mtu(m), NEW x, NEW y, NEW wx, NEW wy, NEW cx, NEW cy,
         Pair(m, x, y, wx, wy, cx, cy), NEW t \in x.tasks
  PROVE  /\ t.op = "command" => Pair(m, Without(x, t), y, wx, wy, cx, cy)
         /\ t.op \in {"read", "write"} =>
              Pair(m, SendResponse(Without(x, t), ErrorResponse(t)), y, wx, wy, cx, cy)
<1>1. t.op = "command" => Pair(m, Without(x, t), y, wx, wy, cx, cy)
  BY PairTaskDropped
<1>2. ASSUME t.op \in {"read", "write"}
      PROVE  Pair(m, SendResponse(Without(x, t), ErrorResponse(t)), y, wx, wy, cx, cy)
  <2> DEFINE p == ErrorResponse(t)
  <2>1. t \in Task
    BY PairTypes
  <2>2. /\ p \in Packet /\ p.id = t.id /\ p.op = t.op /\ p.type = "error" /\ p.len = DefaultMtu
    BY <1>2, <2>1 DEF ErrorResponse, Pdu, Packet, Type, Op, Task, Mtu
  <2>3. p.type \in Replies("request")
    BY <2>2 DEF Replies
  <2>4. ReplyTo(p, t)
    BY <1>2, <2>2, <2>3 DEF ReplyTo
  <2> HIDE DEF p, Packet
  <2>5. Pair(m, SendResponse(Without(x, t), p), y, wx, wy, cx, cy)
    BY <2>2, <2>3, <2>4, PairResponds
  <2>6. QED
    BY <2>5 DEF p
<1>3. QED
  BY <1>1, <1>2

\* A write is authorised and now waits for its result.
LEMMA PairAuthorized ==
  ASSUME NEW m, NEW x, NEW y, NEW wx, NEW wy, NEW cx, NEW cy, Pair(m, x, y, wx, wy, cx, cy),
         NEW t \in x.tasks, t.op \in {"write", "command"}
  PROVE  Pair(m, [Without(x, t) EXCEPT !.tasks = @ \cup {[t EXCEPT !.stage = "answer"]}],
              y, wx, wy, cx, cy)
<1> DEFINE u == [t EXCEPT !.stage = "answer"]
           b == Without(x, t)
           c == [b EXCEPT !.tasks = @ \cup {u}]
<1>1. Sound(x) /\ t \in Task
  BY PairTypes
<1>2. u \in Task /\ u.id = t.id /\ u.op = t.op /\ u.mtu = t.mtu /\ u.stage = "answer"
  BY <1>1 DEF Task
<1> HIDE DEF u
<1>3. /\ AlmostSound(b) /\ (t.op = "command" => Sound(b)) /\ SameClient(x, b)
      /\ b.tasks = x.tasks \ {t} /\ b.out = x.out
  BY <1>1, WithoutSound
<1> HIDE DEF b
<1>4. Sound(c) /\ SameClient(b, c) /\ c.tasks = b.tasks \cup {u} /\ c.out = b.out
  BY <1>2, <1>3, TaskAddedSound
<1> HIDE DEF c
<1>5. /\ SameClient(x, c) /\ c.out = x.out /\ c.tasks = (x.tasks \ {t}) \cup {u}
  BY <1>3, <1>4 DEF SameClient
<1>6. Pair(m, c, y, wx, wy, cx, cy)
  BY <1>2, <1>4, <1>5, PairTaskGoesOn
<1>7. QED
  BY <1>6 DEF b, c, u

LEMMA AuthorizeInv ==
  ASSUME CommandsFit, AttInv, NEW s \in Side, NEW t, NEW result \in {"ok", "error", "tooLong"},
         Authorize(s, t, result)
  PROVE  AttInv'
<1> DEFINE x == att[s]
           b == Without(x, t)
           authorized == [b EXCEPT !.tasks = @ \cup {[t EXCEPT !.stage = "answer"]}]
           refused == SendResponse(b, ErrorResponse(t))
           Goal(next) == Pair(Agreed(s), next, att[Other(s)], wire[s], wire[Other(s)], callStack[s],
                              callStack[Other(s)])
<1>1. Goal(x) /\ Mtu(Agreed(s)) /\ Sound(x) /\ x.tasks \subseteq Task
  BY Before, PairTypes
<1>2. t \in x.tasks /\ t.stage = "authorize" /\ UNCHANGED <<callStack, wire, historyVars>>
  BY DEF Authorize, ApplicationDoes
<1>3. t.op \in {"write", "command"}
  BY <1>1, <1>2 DEF Sound, StagesMean, Task
<1>4. result = "tooLong" => t.op = "write"
  BY DEF Authorize, CommandsFit
<1>5. \/ att' = [att EXCEPT ![s] = authorized]
      \/ t.op = "command" /\ att' = [att EXCEPT ![s] = b]
      \/ t.op = "write" /\ att' = [att EXCEPT ![s] = refused]
  <2>1. CASE result = "ok"
    BY <2>1 DEF Authorize, Becomes
  <2>2. CASE result = "error"
    BY <1>3, <2>2 DEF Authorize, Becomes, Refuse
  <2>3. CASE result = "tooLong"
    BY <1>4, <2>3 DEF Authorize, Becomes
  <2>4. QED
    BY <2>1, <2>2, <2>3
<1>6. Goal(authorized)
  BY <1>1, <1>2, <1>3, PairAuthorized
<1>7. (t.op = "command" => Goal(b)) /\ (t.op = "write" => Goal(refused))
  BY <1>1, <1>2, PairRefused
<1> HIDE DEF b, authorized, refused
<1>8. QED
  BY <1>2, <1>5, <1>6, <1>7, PreservedAnswer

LEMMA FinishInv ==
  ASSUME AttInv, NEW s \in Side, NEW t, NEW result \in {"ok", "error"}, Finish(s, t, result)
  PROVE  AttInv'
<1> DEFINE x == att[s]
           b == Without(x, t)
           reply == Pdu("response", t.op, t.id, IF t.op = "read" THEN t.mtu ELSE DefaultMtu)
           replied == SendResponse(b, reply)
           refused == SendResponse(b, ErrorResponse(t))
           confirmation == Pdu("confirmation", "none", t.id, DefaultMtu)
           confirms == SendConfirmation(b, t.id)
           Goal(next) == Pair(Agreed(s), next, att[Other(s)], wire[s], wire[Other(s)], callStack[s],
                              callStack[Other(s)])
<1>1. Goal(x) /\ Mtu(Agreed(s)) /\ Sound(x) /\ x.tasks \subseteq Task /\ DefaultMtu \in Nat
  BY Before, PairTypes
<1>2. t \in x.tasks /\ UNCHANGED <<callStack, wire, historyVars>>
  BY DEF Finish, ApplicationDoes
<1>3. t.op \in {"read", "write", "command", "confirm"} /\ t.id \in Nat /\ t.mtu \in Nat
  BY <1>1, <1>2 DEF Task
<1>4. \/ t.op = "confirm" /\ att' = [att EXCEPT ![s] = confirms]
      \/ t.op = "command" /\ att' = [att EXCEPT ![s] = b]
      \/ t.op \in {"read", "write"} /\ att' = [att EXCEPT ![s] = refused]
      \/ t.op \in {"read", "write"} /\ att' = [att EXCEPT ![s] = replied]
  <2>1. CASE t.op = "confirm"
    BY <2>1 DEF Finish, Becomes
  <2>2. CASE t.op = "command" /\ result = "ok"
    BY <2>2 DEF Finish, Becomes
  <2>3. CASE t.op # "confirm" /\ result = "error"
    BY <1>3, <2>3 DEF Finish, Becomes, Refuse
  <2>4. CASE t.op \in {"read", "write"} /\ result = "ok"
    BY <2>4 DEF Finish, Becomes
  <2>5. QED
    BY <1>3, <2>1, <2>2, <2>3, <2>4
<1>5. (t.op = "command" => Goal(b)) /\ (t.op \in {"read", "write"} => Goal(refused))
  BY <1>1, <1>2, PairRefused
<1>6. ASSUME t.op \in {"read", "write"}
      PROVE  Goal(replied)
  <2>1. /\ reply \in Packet /\ reply.id = t.id /\ reply.op = t.op /\ reply.type = "response"
        /\ reply.len = DefaultMtu \/ (t.op = "read" /\ reply.len = t.mtu)
    BY <1>1, <1>3, <1>6 DEF Pdu, Packet, Type, Op
  <2> HIDE DEF reply, Packet
  <2>2. reply.type \in Replies("request")
    BY <2>1 DEF Replies
  <2>3. ReplyTo(reply, t)
    BY <1>6, <2>1, <2>2 DEF ReplyTo
  <2>4. QED
    BY <1>1, <1>2, <2>1, <2>2, <2>3, PairResponds
<1>7. ASSUME t.op = "confirm"
      PROVE  Goal(confirms)
  <2>1. /\ confirmation \in Packet /\ confirmation.id = t.id /\ confirmation.op = "none"
        /\ confirmation.type = "confirmation" /\ confirmation.len = DefaultMtu
    BY <1>1, <1>3 DEF Pdu, Packet, Type, Op
  <2>2. Sound(b) /\ SameClient(x, b) /\ b.tasks = x.tasks \ {t} /\ b.out = x.out
    BY <1>1, <1>7, WithoutSound
  <2>3. ReplyTo(confirmation, t)
    BY <1>7, <2>1 DEF ReplyTo, Replies
  <2> HIDE DEF b, Packet
  <2>4. /\ Sound(confirms) /\ SameClient(b, confirms) /\ confirms.tasks = b.tasks
        /\ confirms.out = (IF b.timedout THEN b.out ELSE Append(b.out, confirmation))
    BY <1>1, <1>3, <2>2, SendConfirmationSound
  <2> HIDE DEF confirms, confirmation
  <2>5. SameClient(x, confirms) /\ confirms.tasks = x.tasks \ {t}
    BY <2>2, <2>4 DEF SameClient
  <2>6. CASE b.timedout
    BY <1>1, <1>2, <2>2, <2>4, <2>5, <2>6, PairTaskGoesOn
  <2>7. CASE ~b.timedout
    <3>1. confirms.out = Append(x.out, confirmation)
      BY <2>2, <2>4, <2>7
    <3>2. QED
      BY <1>1, <1>2, <2>1, <2>3, <2>4, <2>5, <3>1, PairTaskReplies
  <2>8. QED
    BY <2>6, <2>7
<1> HIDE DEF b, replied, refused, confirms
<1>8. QED
  BY <1>2, <1>4, <1>5, <1>6, <1>7, PreservedAnswer

-----------------------------------------------------------------------------
(* The invariant holds from the start and is kept by every step. *)

\* Before anything has been sent no transaction is anywhere.
LEMMA PairStart ==
  ASSUME NEW m, Mtu(m), NEW x, x \in Bearer, x.currentMtu = DefaultMtu, x.out = <<>>, x.tasks = {},
         x.indicationQueue = <<>>, ~x.isHandlingRequest, ~x.hasOutgoingConfirmation,
         x.currentOutgoingRequest = NoRequest, x.currentOutgoingIndication = None
  PROVE  Pair(m, x, x, <<>>, <<>>, <<>>, <<>>)
<1>1. Len(<<>>) = 0 /\ <<>> \in Seq(Packet) /\ <<>> \in Seq(Frames) /\ <<>> \in Seq(Nat \ {None})
  BY EmptySeq
<1>2. Sound(x)
  BY <1>1 DEF Sound, StagesMean, FlagsMean
<1>3. \A types : NoneIn(<<>>, types)
  BY <1>1 DEF NoneIn
<1>4. ASSUME NEW k \in Kinds
      PROVE  PathOf(k, x, x, <<>>, <<>>, <<>>)
  <2>1. TasksOf(k, x) = {} /\ ~Runs(<<>>, k)
    BY DEF TasksOf, Runs
  <2>2. PathAt("nowhere", k, IdOf(k, x), OpOf(k, x), <<>>, <<>>, {}, <<>>, <<>>, FALSE)
    BY <1>3, NoneAnywhere DEF PathAt, AskedAt
  <2>3. Path(k, IdOf(k, x), OpOf(k, x), <<>>, <<>>, {}, <<>>, <<>>, FALSE)
    BY <2>2 DEF Path
  <2>4. Runs(<<>>, k) = FALSE
    BY DEF Runs
  <2>5. QED
    BY <2>1, <2>3, <2>4 DEF PathOf
<1>5. <<>> \o x.out = <<>>
  BY <1>1, ConcatProperties
<1>6. Lengths(m, x, <<>> \o x.out)
  BY <1>1, <1>5 DEF Lengths, Mtu
<1>7. Told(m, x, x, <<>> \o x.out)
  BY <1>1, <1>5 DEF Told, Announced
<1>8. Nested(<<>>)
  BY <1>1 DEF Nested
<1>9. QED
  BY <1>1, <1>2, <1>4, <1>6, <1>7, <1>8 DEF Pair, Way

LEMMA InitInv ==
  ASSUME Init
  PROVE  AttInv
<1>1. Records
  BY DEF Init, Records
<1>2. ASSUME NEW s \in Side
      PROVE  /\ att[s] \in Bearer /\ att[s].currentMtu = DefaultMtu /\ att[s].out = <<>>
             /\ att[s].tasks = {} /\ att[s].indicationQueue = <<>> /\ ~att[s].isHandlingRequest
             /\ ~att[s].hasOutgoingConfirmation /\ att[s].currentOutgoingRequest = NoRequest
             /\ att[s].currentOutgoingIndication = None
  <2> DEFINE S(T) == <<>> \in Seq(T)
  <2>1. S(Packet) /\ S(Request) /\ S(Nat) /\ DefaultMtu \in Nat
    BY EmptySeq, AttAssumption
  <2>2. QED
    BY <2>1 DEF Init, Bearer, None
<1>3. \A s, t \in Side : att[s] = att[t]
  BY DEF Init
<1>4. att \in [Side -> Bearer]
  <2>1. att = [s \in Side |-> att[s]]
    BY DEF Init
  <2>2. QED
    BY <1>2, <2>1
<1>5. callStack \in [Side -> Seq(Frames)] /\ wire \in [Side -> Seq(Packet)]
  BY EmptySeq DEF Init
<1>6. ASSUME NEW s \in Side
      PROVE  Pair(Agreed(s), att[s], att[Other(s)], wire[s], wire[Other(s)], callStack[s],
                  callStack[Other(s)])
  <2>1. Other(s) \in Side /\ Mtu(Agreed(s))
    BY Sides, AgreedMtu
  <2>2. /\ wire[s] = <<>> /\ wire[Other(s)] = <<>> /\ callStack[s] = <<>> /\ callStack[Other(s)] = <<>>
    BY <2>1 DEF Init
  <2>3. Pair(Agreed(s), att[s], att[s], <<>>, <<>>, <<>>, <<>>)
    BY <1>2, <2>1, PairStart
  <2>4. QED
    BY <1>3, <2>1, <2>2, <2>3
<1>7. QED
  BY <1>1, <1>4, <1>5, <1>6 DEF AttInv

LEMMA StepInv ==
  ASSUME CommandsFit, AttInv, Next
  PROVE  AttInv'
<1>1. PICK s \in Side : \/ Calling(s) \/ Written(s) \/ Returning(s) \/ Handling(s) \/ Answering(s)
                        \/ AttTimeout(s)
  BY DEF Next
<1>2. CASE Calling(s)
  BY <1>2, StartProcedureInv, WriteCommandInv, NotifyInv, IndicateInv DEF Calling
<1>3. CASE Written(s)
  BY <1>3, WrittenInv
<1>4. CASE Returning(s)
  BY <1>4, SentCallbackReturnsInv, ResponseCallbackReturnsInv, FlushSendsInv, FlushEndsInv,
     ConfirmationCallbackReturnsInv DEF Returning
<1>5. CASE Handling(s)
  BY <1>5, HandleResponseInv, HandleRequestInv, HandleCommandInv, HandleNotificationInv,
     HandleIndicationInv, HandleConfirmationInv DEF Handling
<1>6. CASE Answering(s)
  BY <1>6, AuthorizeInv, FinishInv DEF Answering
<1>7. CASE AttTimeout(s)
  BY <1>7, AttTimeoutInv
<1>8. QED
  BY <1>1, <1>2, <1>3, <1>4, <1>5, <1>6, <1>7

LEMMA NextInv ==
  ASSUME CommandsFit, AttInv, [Next]_vars
  PROVE  AttInv'
<1>1. CASE Next
  BY <1>1, StepInv
<1>2. CASE UNCHANGED vars
  <2>1. UNCHANGED <<att, callStack, wire, calls, answer, confirmed, notified, budget>>
    BY <1>2 DEF vars, historyVars
  <2>2. Records'
    BY <2>1 DEF AttInv, Records
  <2> DEFINE I(a, w, c) ==
        /\ a \in [Side -> Bearer] /\ c \in [Side -> Seq(Frames)] /\ w \in [Side -> Seq(Packet)]
        /\ \A s \in Side : Pair(Agreed(s), a[s], a[Other(s)], w[s], w[Other(s)], c[s], c[Other(s)])
  <2>3. I(att, wire, callStack)
    BY DEF AttInv
  <2> HIDE DEF I
  <2>4. I(att', wire', callStack')
    BY <2>1, <2>3
  <2>5. QED
    BY <2>2, <2>4 DEF AttInv, I
<1>3. QED
  BY <1>1, <1>2

\* However many requests, commands, notifications, indications and MTU exchanges both ends
\* start, and whenever packets, callbacks and timeouts come, each request and indication is at
\* one place at most, the flags of an end are up only while they have to be, and an end is told
\* of the MTU before it gets anything that needs it.  (An error for a command that is too long
\* is an Error Response, which breaks the first: see CommandsAreNotRequests.)
THEOREM TransactionPaths ==
  ASSUME CommandsFit
  PROVE  Spec => []AttInv
<1>1. Init => AttInv
  BY InitInv
<1>2. AttInv /\ [Next]_vars => AttInv'
  BY NextInv
<1>3. QED
  BY <1>1, <1>2, PTL DEF Spec

-----------------------------------------------------------------------------
(* What the properties say follows from the invariant. *)

LEMMA NothingDropped ==
  ASSUME AttInv, NEW s \in Side
  PROVE  /\ IsNext(s, "request") => ~att[s].isHandlingRequest
         /\ IsNext(s, "indication") => ~att[s].hasOutgoingConfirmation
<1> DEFINE o == Other(s)
           x == att[s]
<1>1. /\ Pair(Agreed(s), x, att[o], wire[s], wire[o], callStack[s], callStack[o]) /\ FlagsMean(x)
  BY Before DEF Sound
<1>2. ASSUME IsNext(s, "request")
      PROVE  ~x.isHandlingRequest
  <2>1. wire[o] # <<>> /\ Head(wire[o]).type \in Asks("request") /\ "request" \in Kinds /\ ~x.timedout
    BY <1>2 DEF IsNext, Arriving, Asks, Kinds
  <2>2. NoneIn(x.out, Replies("request")) /\ TasksOf("request", x) = {}
    BY <1>1, <2>1, PairAsked
  <2>3. QED
    BY <1>1, <2>1, <2>2 DEF FlagsMean
<1>3. ASSUME IsNext(s, "indication")
      PROVE  ~x.hasOutgoingConfirmation
  <2>1. /\ wire[o] # <<>> /\ Head(wire[o]).type \in Asks("indication") /\ "indication" \in Kinds
        /\ ~x.timedout
    BY <1>3 DEF IsNext, Arriving, Asks, Kinds
  <2>2. NoneIn(x.out, Replies("indication"))
    BY <1>1, <2>1, PairAsked
  <2>3. QED
    BY <1>1, <2>1, <2>2 DEF FlagsMean
<1>4. QED
  BY <1>2, <1>3

\* Every request gets its own answer, every confirmation is counted for its own indication, and
\* no request or indication is dropped because an end believes that it is still busy with
\* another, for any number of them and at both ends at once.
THEOREM TransactionsAreAnswered ==
  ASSUME CommandsFit
  PROVE  Spec => []TransactionsMatch
<1>1. AttInv => OwnResponse
  BY DEF AttInv, Records, OwnResponse
<1>2. AttInv => OwnConfirmation
  BY DEF AttInv, Records, OwnConfirmation
<1>3. AttInv => NoTransactionDropped
  BY NothingDropped DEF NoTransactionDropped
<1>4. AttInv => TransactionsMatch
  BY <1>1, <1>2, <1>3 DEF TransactionsMatch
<1>5. QED
  BY <1>4, TransactionPaths, PTL

\* Without MTU packets under way, an end that uses the MTU has told the other.
LEMMA ToldAlready ==
  ASSUME AttInv, NEW s \in Side, MtuPackets(s) = {}
  PROVE  att[Other(s)].currentMtu = Agreed(s) \/ att[s].currentMtu = DefaultMtu
<1> DEFINE w == wire[s]
           q == att[s].out
           wq == w \o q
<1>1. Told(Agreed(s), att[s], att[Other(s)], wq) /\ w \in Seq(Packet) /\ q \in Seq(Packet)
  <2>1. Way(Agreed(s), att[s], att[Other(s)], wire[s], wire[Other(s)], callStack[s])
    BY Before DEF Pair
  <2>2. QED
    BY <2>1 DEF Way, Sound, Bearer
<1>2. /\ \A i \in 1 .. Len(q) : q[i].op # "mtu"
      /\ \A i \in 1 .. Len(w) : w[i].op # "mtu"
  <2>1. 1 .. Len(q) = DOMAIN q /\ 1 .. Len(w) = DOMAIN w
    BY <1>1, LenProperties
  <2>2. QED
    BY <2>1 DEF MtuPackets
<1> HIDE DEF w, q, Packet
<1>3. /\ Len(w) \in Nat /\ Len(q) \in Nat /\ Len(wq) = Len(w) + Len(q)
      /\ \A i \in 1 .. Len(wq) : wq[i] = (IF i <= Len(w) THEN w[i] ELSE q[i - Len(w)])
  BY <1>1, ConcatProperties, LenProperties
<1> HIDE DEF wq
<1>4. ASSUME NEW i \in 1 .. Len(wq)
      PROVE  wq[i].op # "mtu"
  <2>1. CASE i <= Len(w)
    BY <1>2, <1>3, <2>1
  <2>2. CASE i > Len(w)
    <3>1. i - Len(w) \in 1 .. Len(q) /\ wq[i] = q[i - Len(w)]
      BY <1>3, <2>2
    <3>2. QED
      BY <1>2, <3>1
  <2>3. QED
    BY <1>3, <2>1, <2>2
<1>5. QED
  BY <1>1, <1>4 DEF Told, MtuResponse

LEMMA TypesHold ==
  ASSUME AttInv
  PROVE  TypeOK
<1>1. ASSUME NEW s \in Side
      PROVE  att[s].currentMtu \in DefaultMtu .. RxMtu[s]
  <2>1. Mtu(Agreed(s)) /\ Agreed(s) <= RxMtu[s] /\ RxMtu[s] \in Nat
    BY AgreedMtu, AttAssumption
  <2>2. att[s].currentMtu \in {DefaultMtu, Agreed(s)}
    BY Before DEF Pair, Way, Lengths
  <2>3. QED
    BY <2>1, <2>2 DEF Mtu
<1>2. ASSUME NEW s \in Side
      PROVE  /\ answer[s] \in [Ids("request") -> {"none", "own", "foreign"}]
             /\ confirmed[s] \in SUBSET (Nat \X Nat) /\ notified[s] \in Seq(Nat)
  <2>1. answer[s] \in [Ids("request") -> {"none", "own"}]
    BY DEF AttInv, Records
  <2>2. QED
    BY <2>1 DEF AttInv, Records
<1>3. QED
  BY <1>1, <1>2 DEF AttInv, Records, TypeOK, Frames

\* Whatever MTU exchanges are under way in either direction, the MTU of an end is one both can
\* take, no packet arrives that is longer than the MTU its receiver has then, and once no
\* exchange is under way both ends have the same.
THEOREM MtuIsKept ==
  ASSUME CommandsFit
  PROVE  Spec => []MtuRespected
<1>1. AttInv => NothingOversized
  <2>1. ASSUME AttInv, NEW s \in Side, wire[Other(s)] # <<>>
        PROVE  Fits(s)
    BY <2>1, Before, ArrivalFits DEF Fits, Arriving
  <2>2. QED
    BY <2>1 DEF NothingOversized
<1>2. AttInv => MtuAgreed
  <2>1. SUFFICES ASSUME AttInv, \A s \in Side : MtuPackets(s) = {}, NEW s \in Side
                 PROVE  att[s].currentMtu = att[Other(s)].currentMtu
    BY Sides DEF MtuAgreed
  <2>2. Other(s) \in Side /\ Other(Other(s)) = s /\ Agreed(Other(s)) = Agreed(s)
    BY Sides, AgreedMtu
  <2>3. /\ att[Other(s)].currentMtu = Agreed(s) \/ att[s].currentMtu = DefaultMtu
        /\ att[s].currentMtu = Agreed(s) \/ att[Other(s)].currentMtu = DefaultMtu
    BY <2>1, <2>2, ToldAlready
  <2>4. /\ att[s].currentMtu \in {DefaultMtu, Agreed(s)}
        /\ att[Other(s)].currentMtu \in {DefaultMtu, Agreed(s)}
    BY <2>1, <2>2, Before DEF Pair, Way, Lengths
  <2>5. QED
    BY <2>3, <2>4
<1>3. AttInv => MtuRespected
  BY <1>1, <1>2, TypesHold DEF MtuRespected
<1>4. QED
  BY <1>3, TransactionPaths, PTL

-----------------------------------------------------------------------------
(* The procedures of a client are served in order. *)

\* The requests not yet sent, in the order in which they will be.
Waiting(b) == b.requestQueue \o b.procedureQueue

\* The request sent last has no answer yet; with it, all that are to be served.
Outstanding(b, a) ==
  b.currentOutgoingRequest # NoRequest /\ a[b.currentOutgoingRequest.id] = "none"
Queued(b, a) ==
  (IF Outstanding(b, a) THEN <<b.currentOutgoingRequest>> ELSE <<>>) \o Waiting(b)

\* Requests have different identifiers up to n, those that wait have no answer, and none has one
\* before it was asked for.
Lined(b, n, a) ==
  /\ 1 .. n \subseteq Ids("request") /\ n \in Nat
  /\ \A i \in 1 .. Len(Waiting(b)) :
       /\ Waiting(b)[i].id \in 1 .. n /\ a[Waiting(b)[i].id] = "none"
       /\ b.currentOutgoingRequest # NoRequest =>
            Waiting(b)[i].id # b.currentOutgoingRequest.id
  /\ \A i, j \in 1 .. Len(Waiting(b)) : Waiting(b)[i].id = Waiting(b)[j].id => i = j
  /\ b.currentOutgoingRequest # NoRequest => b.currentOutgoingRequest.id \in 1 .. n
  /\ a \in [Ids("request") -> {"none", "own"}] /\ \A r \in Ids("request") : a[r] # "none" => r <= n

\* In the callback of a request its answer has come.
Serial(b, n, a, c) ==
  /\ Lined(b, n, a)
  /\ Runs(c, "request") => b.currentOutgoingRequest # NoRequest /\ ~Outstanding(b, a)

\* From b to b2 the first request that waits may have been sent.
Moves(b, b2) ==
  \/ /\ b2.currentOutgoingRequest = b.currentOutgoingRequest
     /\ Waiting(b2) = Waiting(b)
  \/ /\ b.currentOutgoingRequest = NoRequest /\ Waiting(b) # <<>>
     /\ b2.currentOutgoingRequest = Head(Waiting(b)) /\ Waiting(b2) = Tail(Waiting(b))

LEMMA WaitingRequests ==
  ASSUME NEW b \in Bearer
  PROVE  /\ Waiting(b) \in Seq(Request) /\ Len(Waiting(b)) \in Nat
         /\ b.requestQueue \in Seq(Request) /\ b.procedureQueue \in Seq(Request)
         /\ b.currentOutgoingRequest \in Request \cup {NoRequest}
<1>1. b.requestQueue \in Seq(Request) /\ b.procedureQueue \in Seq(Request)
      /\ b.currentOutgoingRequest \in Request \cup {NoRequest}
  BY DEF Bearer
<1> HIDE DEF Request
<1>2. QED
  BY <1>1, ConcatProperties, LenProperties DEF Waiting

LEMMA NoRequestIsNone == \A r \in Request : r # NoRequest /\ r.id \in Nat \ {None}
BY DEF Request, NoRequest, None

LEMMA MovesKept ==
  ASSUME NEW b \in Bearer, NEW n, NEW a, Lined(b, n, a), NEW b2, Moves(b, b2)
  PROVE  /\ Lined(b2, n, a) /\ Queued(b2, a) = Queued(b, a)
         /\ b.currentOutgoingRequest # NoRequest =>
              b2.currentOutgoingRequest = b.currentOutgoingRequest
<1> DEFINE q == Waiting(b)
           cur == b.currentOutgoingRequest
<1>1. q \in Seq(Request) /\ Len(q) \in Nat
  BY WaitingRequests
<1>2. CASE b2.currentOutgoingRequest = cur /\ Waiting(b2) = q
  BY <1>2 DEF Lined, Queued, Outstanding
<1>3. CASE /\ cur = NoRequest /\ q # <<>> /\ b2.currentOutgoingRequest = Head(q)
           /\ Waiting(b2) = Tail(q)
  <2> DEFINE r == Tail(q)
             h == Head(q)
  <2>1. /\ r \in Seq(Request) /\ Len(r) = Len(q) - 1 /\ h = q[1] /\ h \in Request
        /\ \A i \in 1 .. Len(r) : r[i] = q[i + 1]
        /\ Len(q) \in Nat \ {0}
    <3> HIDE DEF Request, q
    <3>1. QED
      BY <1>1, <1>3, TailElements
  <2>2. h # NoRequest /\ h.id \in 1 .. n /\ a[h.id] = "none" /\ 1 \in 1 .. Len(q)
    BY <2>1, NoRequestIsNone DEF Lined
  <2>3. \A i \in 1 .. Len(r) : i + 1 \in 1 .. Len(q) /\ i + 1 # 1
    BY <2>1
  <2>4. Lined(b2, n, a)
    <3>1. Waiting(b2) = r /\ b2.currentOutgoingRequest = h
      BY <1>3 DEF h, r
    <3>2. /\ \A i \in 1 .. Len(q) : q[i].id \in 1 .. n /\ a[q[i].id] = "none"
          /\ \A i, j \in 1 .. Len(q) : q[i].id = q[j].id => i = j
      BY DEF Lined
    <3> HIDE DEF h, r, q
    <3>3. \A i \in 1 .. Len(r) : r[i].id \in 1 .. n /\ a[r[i].id] = "none" /\ r[i].id # h.id
      <4> TAKE i \in 1 .. Len(r)
      <4>1. i + 1 \in 1 .. Len(q) /\ i + 1 # 1 /\ r[i] = q[i + 1]
        BY <2>1, <2>3
      <4>2. QED
        BY <2>1, <2>2, <3>2, <4>1
    <3>4. \A i, j \in 1 .. Len(r) : r[i].id = r[j].id => i = j
      <4> TAKE i, j \in 1 .. Len(r)
      <4>1. i + 1 \in 1 .. Len(q) /\ r[i] = q[i + 1] /\ j + 1 \in 1 .. Len(q) /\ r[j] = q[j + 1]
        BY <2>1, <2>3
      <4>2. r[i].id = r[j].id => i + 1 = j + 1
        BY <3>2, <4>1
      <4>3. QED
        BY <2>1, <4>2
    <3>5. QED
      BY <2>2, <3>1, <3>3, <3>4 DEF Lined
  <2>5. Queued(b2, a) = <<h>> \o r
    BY <1>3, <2>2 DEF Queued, Outstanding
  <2>6. Queued(b, a) = <<>> \o q
    BY <1>3 DEF Queued, Outstanding
  <2>7. <<h>> \o r = q /\ <<>> \o q = q
    <3> HIDE DEF Request, q
    <3>1. <<>> \in Seq(Request) /\ Append(<<>>, Head(q)) = <<Head(q)>>
      BY EmptySeq, AppendIsConcat, <2>1, ConcatEmptySeq
    <3>2. Append(<<>>, Head(q)) \o Tail(q) = <<>> \o q
      BY <1>1, <1>3, <3>1, ConcatWritten
    <3>3. QED
      BY <1>1, <3>1, <3>2, ConcatEmptySeq
  <2>8. QED
    BY <1>3, <2>4, <2>5, <2>6, <2>7
<1>4. QED
  BY <1>2, <1>3 DEF Moves

\* A function of the code that leaves the requests alone.
QueueFields == {"requestQueue", "procedureQueue", "currentOutgoingRequest"}
SameQueues(b, c) ==
  QueueFields \subseteq DOMAIN b =>
    /\ QueueFields \subseteq DOMAIN c
    /\ c.requestQueue = b.requestQueue /\ c.procedureQueue = b.procedureQueue
    /\ c.currentOutgoingRequest = b.currentOutgoingRequest

LEMMA BearerFields == \A b \in Bearer : QueueFields \subseteq DOMAIN b
BY DEF Bearer, QueueFields

LEMMA SameQueuesAgain == \A b, c, d : SameQueues(b, c) /\ SameQueues(c, d) => SameQueues(b, d)
BY DEF SameQueues

LEMMA SameQueuesMoves ==
  ASSUME NEW b \in Bearer, NEW c, SameQueues(b, c)
  PROVE  /\ c.currentOutgoingRequest = b.currentOutgoingRequest /\ Waiting(c) = Waiting(b)
         /\ Moves(b, c)
BY BearerFields DEF SameQueues, Waiting, Moves

LEMMA DataKeepsQueues ==
  /\ \A b, p : SameQueues(b, SendData(b, p))
  /\ \A b, p : SameQueues(b, SendResponse(b, p))
  /\ \A b, id : SameQueues(b, SendConfirmation(b, id))
  /\ \A b : SameQueues(b, SendNextIndication(b))
<1>1. \A b, p : SameQueues(b, SendData(b, p))
  BY DEF SendData, SameQueues, QueueFields
<1>2. \A b, p : SameQueues(b, SendResponse(b, p))
  BY DEF SendResponse, SendData, SameQueues, QueueFields
<1>3. \A b, id : SameQueues(b, SendConfirmation(b, id))
  BY DEF SendConfirmation, SendData, SameQueues, QueueFields
<1>4. \A b : SameQueues(b, SendNextIndication(b))
  BY DEF SendNextIndication, SendData, SameQueues, QueueFields
<1>5. QED
  BY <1>1, <1>2, <1>3, <1>4

LEMMA FieldsKeepQueues ==
  /\ \A b, type : SameQueues(b, AfterWritten([b EXCEPT !.out = Tail(@)], type))
  /\ \A b, mtu : SameQueues(b, WithMtu(b, mtu))
  /\ \A b, op, stage, id : SameQueues(b, AddTask(b, op, stage, id))
  /\ \A b, t : SameQueues(b, Without(b, t))
  /\ \A b, T : SameQueues(b, [b EXCEPT !.tasks = T])
  /\ \A b, x : SameQueues(b, [b EXCEPT !.isHandlingRequest = x])
  /\ \A b, x : SameQueues(b, [b EXCEPT !.timedout = x])
  /\ \A b, q : SameQueues(b, [b EXCEPT !.notificationQueue = q])
  /\ \A b, q : SameQueues(b, [b EXCEPT !.indicationQueue = q])
  /\ \A b, i : SameQueues(b, [b EXCEPT !.currentOutgoingIndication = i])
<1>1. \A b, type : SameQueues(b, AfterWritten([b EXCEPT !.out = Tail(@)], type))
  BY DEF AfterWritten, SameQueues, QueueFields
<1>2. \A b, mtu : SameQueues(b, WithMtu(b, mtu))
  BY DEF WithMtu, SameQueues, QueueFields
<1>3. \A b, op, stage, id : SameQueues(b, AddTask(b, op, stage, id))
  BY DEF AddTask, SameQueues, QueueFields
<1>4. \A b, t : SameQueues(b, Without(b, t))
  BY DEF Without, SameQueues, QueueFields
<1>5. /\ \A b, T : SameQueues(b, [b EXCEPT !.tasks = T])
      /\ \A b, x : SameQueues(b, [b EXCEPT !.isHandlingRequest = x])
      /\ \A b, x : SameQueues(b, [b EXCEPT !.timedout = x])
      /\ \A b, q : SameQueues(b, [b EXCEPT !.notificationQueue = q])
      /\ \A b, q : SameQueues(b, [b EXCEPT !.indicationQueue = q])
      /\ \A b, i : SameQueues(b, [b EXCEPT !.currentOutgoingIndication = i])
  BY DEF SameQueues, QueueFields
<1>6. QED
  BY <1>1, <1>2, <1>3, <1>4, <1>5

\* The functions of the client move the requests on.
LEMMA SendNextRequestMoves ==
  ASSUME NEW b, QueueFields \subseteq DOMAIN b, b.requestQueue \in Seq(Request),
         b.procedureQueue \in Seq(Request)
  PROVE  Moves(b, SendNextRequest(b)) /\ QueueFields \subseteq DOMAIN SendNextRequest(b)
<1> DEFINE c == [b EXCEPT !.currentOutgoingRequest = Head(b.requestQueue), !.requestQueue = Tail(@),
                          !.currentOutgoingRequestIsSent = FALSE]
           d == SendNextRequest(b)
<1>1. CASE ~MaySendRequest(b)
  BY <1>1 DEF SendNextRequest, Moves
<1>2. CASE MaySendRequest(b)
  <2>1. \E p : d = SendData(c, p)
    BY <1>2 DEF SendNextRequest
  <2>2. SameQueues(c, d)
    BY <2>1, DataKeepsQueues
  <2>3. /\ QueueFields \subseteq DOMAIN c /\ c.requestQueue = Tail(b.requestQueue)
        /\ c.procedureQueue = b.procedureQueue
        /\ c.currentOutgoingRequest = Head(b.requestQueue)
    BY DEF QueueFields
  <2> HIDE DEF c, d
  <2>4. /\ QueueFields \subseteq DOMAIN d /\ d.requestQueue = Tail(b.requestQueue)
        /\ d.procedureQueue = b.procedureQueue
        /\ d.currentOutgoingRequest = Head(b.requestQueue)
    BY <2>2, <2>3 DEF SameQueues
  <2>5. b.currentOutgoingRequest = NoRequest /\ b.requestQueue # <<>>
    BY <1>2 DEF MaySendRequest
  <2> HIDE DEF Request
  <2>6. /\ Waiting(b) # <<>> /\ Head(Waiting(b)) = Head(b.requestQueue)
        /\ Waiting(d) = Tail(Waiting(b))
    <3> DEFINE r == b.requestQueue
               q == b.procedureQueue
    <3>1. r \in Seq(Request) /\ q \in Seq(Request) /\ r # <<>>
      BY <2>5
    <3>2. Waiting(b) = r \o q /\ Waiting(d) = Tail(r) \o q
      BY <2>4 DEF Waiting
    <3> HIDE DEF r, q
    <3>3. r \o q # <<>> /\ Head(r \o q) = Head(r) /\ Tail(r \o q) = Tail(r) \o q
      BY <3>1, ConcatTail
    <3>4. QED
      BY <3>2, <3>3 DEF r
  <2>7. Moves(b, d) /\ QueueFields \subseteq DOMAIN d
    BY <2>4, <2>5, <2>6 DEF Moves
  <2>8. QED
    BY <2>7 DEF d
<1>3. QED
  BY <1>1, <1>2

LEMMA NextRequestMoves ==
  ASSUME NEW b, QueueFields \cup {"hasPendingRequest"} \subseteq DOMAIN b,
         b.requestQueue \in Seq(Request), b.procedureQueue \in Seq(Request)
  PROVE  Moves(b, NextRequest(b)) /\ QueueFields \subseteq DOMAIN NextRequest(b)
<1>1. CASE ~(~b.hasPendingRequest /\ b.procedureQueue # <<>>)
  BY <1>1 DEF NextRequest, Moves
<1>2. CASE ~b.hasPendingRequest /\ b.procedureQueue # <<>>
  <2> DEFINE h == Head(b.procedureQueue)
             c == [b EXCEPT !.hasPendingRequest = TRUE, !.procedureQueue = Tail(@)]
             d == [c EXCEPT !.requestQueue = Append(@, h)]
  <2>1. NextRequest(b) = SendNextRequest(d)
    BY <1>2 DEF NextRequest, EnqueueRequest
  <2>2. /\ QueueFields \subseteq DOMAIN d /\ d.requestQueue = Append(b.requestQueue, h)
        /\ d.procedureQueue = Tail(b.procedureQueue)
        /\ d.currentOutgoingRequest = b.currentOutgoingRequest
    BY DEF QueueFields
  <2> HIDE DEF d, Request
  <2>3. d.requestQueue \in Seq(Request) /\ d.procedureQueue \in Seq(Request)
    BY <1>2, <2>2, AppendElements, TailElements
  <2>4. Waiting(d) = Waiting(b)
    BY <1>2, <2>2, ConcatWritten DEF Waiting
  <2>5. Moves(d, SendNextRequest(d)) /\ QueueFields \subseteq DOMAIN SendNextRequest(d)
    BY <2>2, <2>3, SendNextRequestMoves
  <2>6. Moves(b, SendNextRequest(d))
    BY <2>2, <2>4, <2>5 DEF Moves
  <2>7. QED
    BY <2>1, <2>5, <2>6
<1>3. QED
  BY <1>1, <1>2

\* What a step may do to the requests q of a client and to the answers a: nothing, ask for
\* another one, or answer the first.
Answered(a) == {r \in Ids("request") : a[r] # "none"}
Turn(q, a, q2, a2) ==
  \/ q2 = q /\ Answered(a2) = Answered(a)
  \/ /\ Answered(a2) = Answered(a)
     /\ \E r \in Request : /\ r.id \in Ids("request") \ Answered(a)
                           /\ \A i \in 1 .. Len(q) : q[i].id # r.id
                           /\ q2 = Append(q, r)
  \/ q # <<>> /\ q2 = Tail(q) /\ Answered(a2) = Answered(a) \cup {Head(q).id}

LEMMA QueuedElements ==
  ASSUME NEW b \in Bearer, NEW n, NEW a, Lined(b, n, a)
  PROVE  /\ Queued(b, a) \in Seq(Request)
         /\ Outstanding(b, a) => /\ Queued(b, a) # <<>> /\ Tail(Queued(b, a)) = Waiting(b)
                                 /\ Head(Queued(b, a)) = b.currentOutgoingRequest
         /\ ~Outstanding(b, a) => Queued(b, a) = Waiting(b)
         /\ \A i \in 1 .. Len(Queued(b, a)) : Queued(b, a)[i].id \in 1 .. n
<1> DEFINE q == Waiting(b)
           cur == b.currentOutgoingRequest
<1>1. q \in Seq(Request) /\ Len(q) \in Nat /\ cur \in Request \cup {NoRequest}
  BY WaitingRequests
<1>2. /\ \A i \in 1 .. Len(q) : q[i].id \in 1 .. n
      /\ cur # NoRequest => cur.id \in 1 .. n
  BY DEF Lined
<1>3. CASE ~Outstanding(b, a)
  <2>1. Queued(b, a) = <<>> \o q
    BY <1>3 DEF Queued
  <2>2. Queued(b, a) = q
    <3> HIDE DEF Request, q
    <3>1. QED
      BY <1>1, <2>1, ConcatEmptySeq
  <2>3. QED
    BY <1>1, <1>2, <1>3, <2>2
<1>4. CASE Outstanding(b, a)
  <2>1. Queued(b, a) = <<cur>> \o q /\ cur \in Request /\ cur.id \in 1 .. n
    BY <1>1, <1>2, <1>4 DEF Queued, Outstanding
  <2> HIDE DEF Request, q, cur
  <2> DEFINE h == <<cur>>
             hq == h \o q
  <2>2. h \in Seq(Request) /\ Len(h) = 1 /\ h[1] = cur /\ h # <<>> /\ Head(h) = cur /\ Tail(h) = <<>>
    <3>1. h = Append(<<>>, cur) /\ <<>> \in Seq(Request) /\ Len(<<>>) = 0
      BY <2>1, EmptySeq, AppendIsConcat, ConcatEmptySeq
    <3>2. Len(h) = 1 /\ h[1] = cur /\ h \in Seq(Request)
      BY <2>1, <3>1
    <3> HIDE DEF h
    <3>3. h # <<>>
      BY <3>1, <3>2
    <3>4. Head(h) = cur /\ Len(Tail(h)) = 0 /\ Tail(h) \in Seq(Request)
      BY <3>2, <3>3, TailElements
    <3>5. Tail(h) = <<>>
      BY <3>4, EmptySeq
    <3>6. QED
      BY <3>2, <3>3, <3>4, <3>5
  <2> HIDE DEF h
  <2>3. hq \in Seq(Request) /\ hq # <<>> /\ Head(hq) = Head(h) /\ Tail(hq) = Tail(h) \o q
    BY <1>1, <2>2, ConcatTail
  <2>4. Tail(hq) = q
    BY <1>1, <2>2, <2>3, ConcatEmptySeq
  <2>5. /\ Len(hq) = 1 + Len(q)
        /\ \A i \in 1 .. 1 + Len(q) : hq[i] = IF i <= 1 THEN h[i] ELSE q[i - 1]
    BY <1>1, <2>2, ConcatProperties
  <2> HIDE DEF hq
  <2>6. ASSUME NEW i \in 1 .. Len(hq)
        PROVE  hq[i].id \in 1 .. n
    <3>1. CASE i = 1
      BY <1>1, <2>1, <2>2, <2>5, <3>1
    <3>2. CASE i # 1
      <4>1. i - 1 \in 1 .. Len(q) /\ hq[i] = q[i - 1]
        BY <1>1, <2>5, <3>2
      <4>2. QED
        BY <1>2, <4>1
    <3>3. QED
      BY <3>1, <3>2
  <2>7. Queued(b, a) = hq
    BY <2>1 DEF hq, h
  <2>8. QED
    BY <1>4, <2>2, <2>3, <2>4, <2>6, <2>7 DEF cur, q
<1>5. QED
  BY <1>3, <1>4

\* The request that waits first is sent, or nothing happens.
LEMMA TurnMoves ==
  ASSUME NEW b \in Bearer, NEW n, NEW a, NEW c, Serial(b, n, a, c), NEW b2, Moves(b, b2),
         NEW c2, Runs(c2, "request") => Runs(c, "request")
  PROVE  Serial(b2, n, a, c2) /\ Turn(Queued(b, a), a, Queued(b2, a), a)
<1>1. /\ Lined(b2, n, a) /\ Queued(b2, a) = Queued(b, a)
      /\ b.currentOutgoingRequest # NoRequest =>
           b2.currentOutgoingRequest = b.currentOutgoingRequest
  BY MovesKept DEF Serial
<1>2. Runs(c2, "request") => b2.currentOutgoingRequest # NoRequest /\ ~Outstanding(b2, a)
  BY <1>1 DEF Serial, Outstanding
<1>3. QED
  BY <1>1, <1>2 DEF Serial, Turn

LEMMA IdsMembers ==
  ASSUME NEW type \in Counted, NEW x
  PROVE  /\ x \in Ids(type) => \E e \in Budgets, s \in Side : x \in 1 .. e[s][type]
         /\ \A e \in Budgets, s \in Side : x \in 1 .. e[s][type] => x \in Ids(type)
<1> DEFINE S == {1 .. e[s][type] : e \in Budgets, s \in Side}
<1>1. Ids(type) = UNION S
  BY DEF Ids
<1>2. \A T : T \in S <=> \E e \in Budgets, s \in Side : T = 1 .. e[s][type]
  OBVIOUS
<1> HIDE DEF S
<1>3. x \in UNION S <=> \E T \in S : x \in T
  OBVIOUS
<1>4. x \in UNION S => \E e \in Budgets, s \in Side : x \in 1 .. e[s][type]
  BY <1>2, <1>3
<1>5. \A e \in Budgets, s \in Side : x \in 1 .. e[s][type] => x \in UNION S
  BY <1>2, <1>3
<1>6. QED
  BY <1>1, <1>4, <1>5

\* A request is asked for.
LEMMA TurnAsked ==
  ASSUME NEW b \in Bearer, NEW n, NEW a, NEW c, Serial(b, n, a, c),
         NEW r \in Request, r.id = n + 1, n + 1 \in Ids("request"),
         NEW b2, b2.currentOutgoingRequest = b.currentOutgoingRequest,
         Waiting(b2) = Append(Waiting(b), r)
  PROVE  Serial(b2, n + 1, a, c) /\ Turn(Queued(b, a), a, Queued(b2, a), a)
<1> DEFINE q == Waiting(b)
           p == Append(q, r)
           cur == b.currentOutgoingRequest
<1>1. q \in Seq(Request) /\ Len(q) \in Nat
  BY WaitingRequests
<1>2. /\ 1 .. n \subseteq Ids("request") /\ n \in Nat
      /\ \A i \in 1 .. Len(q) : /\ q[i].id \in 1 .. n /\ a[q[i].id] = "none"
                                /\ cur # NoRequest => q[i].id # cur.id
      /\ \A i, j \in 1 .. Len(q) : q[i].id = q[j].id => i = j
      /\ cur # NoRequest => cur.id \in 1 .. n
      /\ a \in [Ids("request") -> {"none", "own"}]
      /\ \A x \in Ids("request") : a[x] # "none" => x <= n
  BY DEF Serial, Lined
<1>3. /\ Len(p) = Len(q) + 1 /\ p[Len(q) + 1] = r /\ \A i \in 1 .. Len(q) : p[i] = q[i]
  <2> HIDE DEF Request, q
  <2>1. QED
    BY <1>1, AppendElements
<1>4. Queued(b2, a) = Append(Queued(b, a), r)
  <2> DEFINE h == IF Outstanding(b, a) THEN <<cur>> ELSE <<>>
  <2>1. h \in Seq(Request)
    BY WaitingRequests DEF Outstanding
  <2>2. Queued(b, a) = h \o q /\ Queued(b2, a) = h \o p
    BY DEF Queued, Outstanding
  <2> HIDE DEF h, q, Request
  <2>3. h \o Append(q, r) = Append(h \o q, r)
    BY <1>1, <2>1, ConcatAppend
  <2>4. QED
    BY <2>2, <2>3
<1>5. a[n + 1] = "none" /\ n + 1 \in Ids("request") \ Answered(a)
  BY <1>2 DEF Answered
<1>6. \A i \in 1 .. Len(Queued(b, a)) : Queued(b, a)[i].id # r.id
  BY <1>2, QueuedElements DEF Serial
<1> HIDE DEF q, p
<1>7. \A i \in 1 .. Len(p) : /\ p[i].id \in 1 .. n + 1 /\ a[p[i].id] = "none"
                             /\ cur # NoRequest => p[i].id # cur.id
  <2> TAKE i \in 1 .. Len(p)
  <2>1. CASE i \in 1 .. Len(q)
    BY <1>2, <1>3, <2>1
  <2>2. CASE i \notin 1 .. Len(q)
    <3>1. p[i] = r
      BY <1>1, <1>3, <2>2
    <3>2. QED
      BY <1>2, <1>5, <3>1
  <2>3. QED
    BY <2>1, <2>2
<1>8. \A i, j \in 1 .. Len(p) : p[i].id = p[j].id => i = j
  <2> TAKE i, j \in 1 .. Len(p)
  <2>1. \A k \in 1 .. Len(p) : \/ k \in 1 .. Len(q) /\ p[k].id \in 1 .. n /\ p[k] = q[k]
                               \/ k = Len(q) + 1 /\ p[k].id = n + 1
    BY <1>1, <1>2, <1>3
  <2>2. n + 1 \notin 1 .. n
    BY <1>2
  <2>3. QED
    BY <1>2, <2>1, <2>2
<1>9. 1 .. n + 1 \subseteq Ids("request") /\ n + 1 \in Nat /\ 1 .. n \subseteq 1 .. n + 1
  BY <1>2
<1>10. \A x \in Ids("request") : a[x] # "none" => x <= n + 1
  <2>1. \A x \in Ids("request") : x \in Nat
    <3> TAKE x \in Ids("request")
    <3>1. PICK e \in Budgets, s \in Side : x \in 1 .. e[s]["request"]
      BY IdsMembers DEF Counted
    <3>2. e[s]["request"] \in Nat
      BY AttAssumption DEF Budget, Counted
    <3>3. QED
      BY <3>1, <3>2
  <2>2. QED
    BY <1>2, <2>1
<1>11. Waiting(b2) = p
  BY DEF p, q
<1>12. Lined(b2, n + 1, a)
  BY <1>2, <1>7, <1>8, <1>9, <1>10, <1>11 DEF Lined
<1>13. Serial(b2, n + 1, a, c)
  BY <1>12 DEF Serial, Outstanding
<1>14. QED
  BY <1>4, <1>5, <1>6, <1>13 DEF Turn

\* The request sent last is answered.
LEMMA TurnAnswered ==
  ASSUME NEW b \in Bearer, NEW n, NEW a, Lined(b, n, a),
         NEW b2, b2.currentOutgoingRequest = b.currentOutgoingRequest, Waiting(b2) = Waiting(b),
         b.currentOutgoingRequest # NoRequest,
         NEW a2, a2 = [a EXCEPT ![b.currentOutgoingRequest.id] = "own"], b2 \in Bearer, NEW c
  PROVE  Serial(b2, n, a2, c) /\ Turn(Queued(b, a), a, Queued(b2, a2), a2)
<1> DEFINE q == Waiting(b)
           cur == b.currentOutgoingRequest
           id == cur.id
<1>1. q \in Seq(Request) /\ Len(q) \in Nat
  BY WaitingRequests
<1>2. /\ 1 .. n \subseteq Ids("request") /\ n \in Nat
      /\ \A i \in 1 .. Len(q) : /\ q[i].id \in 1 .. n /\ a[q[i].id] = "none" /\ q[i].id # id
      /\ \A i, j \in 1 .. Len(q) : q[i].id = q[j].id => i = j
      /\ id \in 1 .. n
      /\ a \in [Ids("request") -> {"none", "own"}]
      /\ \A x \in Ids("request") : a[x] # "none" => x <= n
  BY DEF Lined
<1> HIDE DEF q, id
<1>3. /\ a2 \in [Ids("request") -> {"none", "own"}] /\ a2[id] = "own" /\ id \in Ids("request")
      /\ \A x \in Ids("request") : x # id => a2[x] = a[x]
  BY <1>2 DEF id
<1>4. /\ \A i \in 1 .. Len(q) : a2[q[i].id] = "none"
      /\ \A x \in Ids("request") : a2[x] # "none" => x <= n
  BY <1>2, <1>3
<1>5. Lined(b2, n, a2)
  BY <1>2, <1>3, <1>4 DEF Lined, q, id
<1>6. ~Outstanding(b2, a2)
  BY <1>3 DEF Outstanding, id
<1>7. Serial(b2, n, a2, c)
  BY <1>5, <1>6 DEF Serial
<1>8. Queued(b2, a2) = q
  BY <1>5, <1>6, QueuedElements DEF q
<1>9. Answered(a2) = Answered(a) \cup {id}
  BY <1>3 DEF Answered
<1>10. CASE Outstanding(b, a)
  <2>1. Queued(b, a) # <<>> /\ Tail(Queued(b, a)) = q /\ Head(Queued(b, a)).id = id
    BY <1>10, QueuedElements DEF q, id
  <2>2. QED
    BY <1>7, <1>8, <1>9, <2>1 DEF Turn
<1>11. CASE ~Outstanding(b, a)
  <2>1. Queued(b, a) = q
    BY <1>11, QueuedElements DEF q
  <2>2. id \in Answered(a)
    BY <1>3, <1>11 DEF Outstanding, Answered, id
  <2>3. QED
    BY <1>7, <1>8, <1>9, <2>1, <2>2 DEF Turn
<1>12. QED
  BY <1>10, <1>11

\* The callback of the request returns.
LEMMA TurnDone ==
  ASSUME NEW b \in Bearer, NEW n, NEW a, NEW c, Serial(b, n, a, c), Runs(c, "request")
  PROVE  LET b2 == [DoneNextRequest(b) EXCEPT !.currentOutgoingRequest = NoRequest] IN
         /\ \A d : ~Runs(d, "request") =>
              /\ Serial(b2, n, a, d) /\ Turn(Queued(b, a), a, Queued(b2, a), a)
         /\ \A b3, d : b2 \in Bearer /\ Moves(b2, b3) /\ ~Runs(d, "request") =>
              Serial(b3, n, a, d) /\ Turn(Queued(b, a), a, Queued(b3, a), a)
<1> DEFINE b0 == [b EXCEPT !.hasPendingRequest = FALSE]
           b1 == NextRequest(b0)
           b2 == [b1 EXCEPT !.currentOutgoingRequest = NoRequest]
<1>1. /\ QueueFields \cup {"hasPendingRequest"} \subseteq DOMAIN b0
      /\ b0.requestQueue = b.requestQueue /\ b0.procedureQueue = b.procedureQueue
      /\ b0.currentOutgoingRequest = b.currentOutgoingRequest
  BY DEF Bearer, QueueFields
<1> HIDE DEF b0
<1>2. Moves(b0, b1) /\ QueueFields \subseteq DOMAIN b1
  BY <1>1, WaitingRequests, NextRequestMoves
<1>3. b.currentOutgoingRequest # NoRequest /\ ~Outstanding(b, a) /\ Lined(b, n, a)
  BY DEF Serial
<1> HIDE DEF b1
<1>4. Waiting(b1) = Waiting(b) /\ b1.currentOutgoingRequest = b.currentOutgoingRequest
  BY <1>1, <1>2, <1>3 DEF Moves, Waiting
<1>5. Waiting(b2) = Waiting(b) /\ b2.currentOutgoingRequest = NoRequest
  BY <1>2, <1>4 DEF Waiting, QueueFields
<1> HIDE DEF b2
<1>6. Lined(b2, n, a) /\ ~Outstanding(b2, a)
  BY <1>3, <1>5 DEF Lined, Outstanding
<1>7. Queued(b2, a) = Queued(b, a)
  BY <1>3, <1>5, <1>6 DEF Queued
<1>8. \A d : ~Runs(d, "request") => Serial(b2, n, a, d)
  BY <1>6 DEF Serial
<1>9. ASSUME NEW b3, NEW d, b2 \in Bearer, Moves(b2, b3), ~Runs(d, "request")
      PROVE  Serial(b3, n, a, d) /\ Turn(Queued(b, a), a, Queued(b3, a), a)
  <2>1. Serial(b2, n, a, d)
    BY <1>8, <1>9
  <2>2. QED
    BY <1>7, <1>9, <2>1, TurnMoves
<1>10. QED
  BY <1>7, <1>8, <1>9 DEF b2, b1, b0, DoneNextRequest, Turn

\* The requests of each client, and what a step does to them.
AllSerial ==
  \A s \in Side : Serial(att[s], calls[s]["request"], answer[s], callStack[s])
Turned(t) ==
  /\ Serial(att'[t], calls'[t]["request"], answer'[t], callStack'[t])
  /\ Turn(Queued(att[t], answer[t]), answer[t], Queued(att'[t], answer'[t]), answer'[t])

LEMMA MovesNowhere == \A b : Moves(b, b)
BY DEF Moves

\* End s moves on to b, and whatever else happens concerns no request.
LEMMA QuietTurn ==
  ASSUME AttInv, AllSerial, NEW s \in Side, NEW b, Moves(att[s], b), att' = [att EXCEPT ![s] = b],
         answer' = answer, \A t \in Side : calls'[t]["request"] = calls[t]["request"],
         \A t \in Side : t # s => callStack'[t] = callStack[t],
         Runs(callStack'[s], "request") => Runs(callStack[s], "request")
  PROVE  \A t \in Side : Turned(t)
<1> TAKE t \in Side
<1>1. att \in [Side -> Bearer]
  BY DEF AttInv
<1>2. att[t] \in Bearer /\ Moves(att[t], att'[t])
  BY <1>1, MovesNowhere
<1>3. Runs(callStack'[t], "request") => Runs(callStack[t], "request")
  BY DEF Runs
<1>4. Serial(att[t], calls[t]["request"], answer[t], callStack[t])
  BY DEF AllSerial
<1>5. /\ Serial(att'[t], calls[t]["request"], answer[t], callStack'[t])
      /\ Turn(Queued(att[t], answer[t]), answer[t], Queued(att'[t], answer[t]), answer[t])
  BY <1>2, <1>3, <1>4, TurnMoves
<1>6. QED
  BY <1>5 DEF Turned

\* The same for a step that leaves the stack.
LEMMA QuieterTurn ==
  ASSUME AttInv, AllSerial, NEW s \in Side, NEW b, SameQueues(att[s], b),
         att' = [att EXCEPT ![s] = b], UNCHANGED <<callStack, answer>>,
         \A t \in Side : calls'[t]["request"] = calls[t]["request"]
  PROVE  \A t \in Side : Turned(t)
<1>1. att[s] \in Bearer
  BY DEF AttInv
<1>2. Moves(att[s], b)
  BY <1>1, SameQueuesMoves
<1>3. QED
  BY <1>2, QuietTurn

LEMMA CallsTurn ==
  ASSUME AttInv, NEW s \in Side, NEW type \in Counted \ {"request"}, Calls(s, type)
  PROVE  /\ UNCHANGED <<callStack, answer>>
         /\ \A t \in Side : calls'[t]["request"] = calls[t]["request"]
<1>1. calls \in [Side -> [Counted -> Nat]] /\ "request" \in Counted
  BY DEF AttInv, Records, Counted
<1>2. QED
  BY <1>1 DEF Calls

\* Commands, notifications and indications.
LEMMA CallingTurn ==
  ASSUME AttInv, AllSerial, NEW s \in Side, WriteCommand(s) \/ Notify(s) \/ Indicate(s)
  PROVE  \A t \in Side : Turned(t)
<1>1. CASE WriteCommand(s)
  <2>1. \E p : att' = [att EXCEPT ![s] = SendData(att[s], p)]
    BY <1>1 DEF WriteCommand, Becomes
  <2>2. /\ UNCHANGED <<callStack, answer>>
        /\ \A t \in Side : calls'[t]["request"] = calls[t]["request"]
    BY <1>1, CallsTurn DEF WriteCommand, Counted
  <2>3. QED
    BY <2>1, <2>2, DataKeepsQueues, QuieterTurn
<1>2. CASE Notify(s)
  <2>1. \/ \E p : att' = [att EXCEPT ![s] = SendData(att[s], p)]
        \/ \E q : att' = [att EXCEPT ![s] = [att[s] EXCEPT !.notificationQueue = q]]
    BY <1>2 DEF Notify, Becomes
  <2>2. /\ UNCHANGED <<callStack, answer>>
        /\ \A t \in Side : calls'[t]["request"] = calls[t]["request"]
    BY <1>2, CallsTurn DEF Notify, Counted
  <2>3. PICK b : SameQueues(att[s], b) /\ att' = [att EXCEPT ![s] = b]
    BY <2>1, DataKeepsQueues, FieldsKeepQueues
  <2>4. QED
    BY <2>2, <2>3, QuieterTurn
<1>3. CASE Indicate(s)
  <2> DEFINE b == [att[s] EXCEPT !.indicationQueue = Append(@, calls[s]["indication"] + 1)]
  <2>1. att' = [att EXCEPT ![s] = SendNextIndication(b)]
    BY <1>3 DEF Indicate, Becomes
  <2>2. /\ UNCHANGED <<callStack, answer>>
        /\ \A t \in Side : calls'[t]["request"] = calls[t]["request"]
    BY <1>3, CallsTurn DEF Indicate, Counted
  <2>3. SameQueues(att[s], b)
    BY FieldsKeepQueues
  <2> HIDE DEF b
  <2>4. SameQueues(att[s], SendNextIndication(b))
    BY <2>3, DataKeepsQueues, SameQueuesAgain
  <2>5. QED
    BY <2>1, <2>2, <2>4, QuieterTurn
<1>4. QED
  BY <1>1, <1>2, <1>3

\* A step of the application that answers what it was asked.
LEMMA AnsweringTurn ==
  ASSUME AttInv, AllSerial, NEW s \in Side, Answering(s)
  PROVE  \A t \in Side : Turned(t)
<1>1. PICK u \in att[s].tasks :
        \/ \E result \in {"ok", "error", "tooLong"} : Authorize(s, u, result)
        \/ \E result \in {"ok", "error"} : Finish(s, u, result)
  BY DEF Answering
<1> DEFINE b == Without(att[s], u)
<1>2. UNCHANGED <<callStack, wire, historyVars>>
  BY <1>1 DEF Authorize, Finish, ApplicationDoes
<1>3. \/ \E T : att' = [att EXCEPT ![s] = [b EXCEPT !.tasks = T]]
      \/ att' = [att EXCEPT ![s] = b]
      \/ \E p : att' = [att EXCEPT ![s] = SendResponse(b, p)]
      \/ \E id : att' = [att EXCEPT ![s] = SendConfirmation(b, id)]
  <2>1. ASSUME NEW result \in {"ok", "error", "tooLong"}, Authorize(s, u, result)
        PROVE  \/ att' = [att EXCEPT ![s] =
                            [b EXCEPT !.tasks = @ \cup {[u EXCEPT !.stage = "answer"]}]]
               \/ att' = [att EXCEPT ![s] = b]
               \/ att' = [att EXCEPT ![s] = SendResponse(b, ErrorResponse(u))]
    <3>1. CASE result = "ok"
      BY <2>1, <3>1 DEF Authorize, Becomes
    <3>2. CASE result = "error"
      BY <2>1, <3>2 DEF Authorize, Becomes, Refuse
    <3>3. CASE result = "tooLong"
      BY <2>1, <3>3 DEF Authorize, Becomes
    <3>4. QED
      BY <3>1, <3>2, <3>3
  <2>2. ASSUME NEW result \in {"ok", "error"}, Finish(s, u, result)
        PROVE  \/ att' = [att EXCEPT ![s] = b]
               \/ \E p : att' = [att EXCEPT ![s] = SendResponse(b, p)]
               \/ \E id : att' = [att EXCEPT ![s] = SendConfirmation(b, id)]
    <3>1. CASE u.op = "confirm"
      BY <2>2, <3>1 DEF Finish, Becomes
    <3>2. CASE u.op = "command" /\ result = "ok"
      BY <2>2, <3>2 DEF Finish, Becomes
    <3>3. CASE u.op # "confirm" /\ result = "error"
      BY <2>2, <3>3 DEF Finish, Becomes, Refuse
    <3>4. CASE u.op \in {"read", "write"} /\ result = "ok"
      BY <2>2, <3>4 DEF Finish, Becomes
    <3>5. u.op \in {"read", "write", "command", "confirm"}
      BY <1>1 DEF AttInv, Bearer, Task
    <3>6. QED
      BY <3>1, <3>2, <3>3, <3>4, <3>5
  <2>3. QED
    BY <1>1, <2>1, <2>2
<1>4. SameQueues(att[s], b)
  BY FieldsKeepQueues
<1> HIDE DEF b
<1>5. /\ \A T : SameQueues(att[s], [b EXCEPT !.tasks = T])
      /\ \A p : SameQueues(att[s], SendResponse(b, p))
      /\ \A id : SameQueues(att[s], SendConfirmation(b, id))
  BY <1>4, DataKeepsQueues, FieldsKeepQueues, SameQueuesAgain
<1>6. UNCHANGED <<callStack, answer, calls>>
  BY <1>2 DEF historyVars
<1>7. QED
  BY <1>3, <1>4, <1>5, <1>6, QuieterTurn

\* The adapter writes a packet, and callbacks return but that of a request.
LEMMA WrittenTurn ==
  ASSUME AttInv, AllSerial, NEW s \in Side, Written(s)
  PROVE  \A t \in Side : Turned(t)
<1> DEFINE c == callStack[s]
<1>1. \E b : SameQueues(att[s], b) /\ att' = [att EXCEPT ![s] = b]
  BY FieldsKeepQueues DEF Written, Becomes
<1>2. /\ c \in Seq(Frames) /\ callStack \in [Side -> Seq(Frames)] /\ att[s] \in Bearer
      /\ UNCHANGED <<answer, calls>>
  BY DEF AttInv, Written, historyVars
<1>3. callStack' = callStack \/ callStack' = [callStack EXCEPT ![s] = Append(@, "sent")]
  BY DEF Written, Push
<1>4. Runs(Append(c, "sent"), "request") => Runs(c, "request")
  <2>1. "sent" \in Frames
    BY DEF Frames
  <2> HIDE DEF c, Frames
  <2>2. CASE c = <<>>
    <3>1. Append(c, "sent")[1] = "sent"
      BY <2>2
    <3>2. QED
      BY <3>1 DEF Runs, Callback
  <2>3. CASE c # <<>>
    <3>1. Len(c) \in Nat \ {0}
      BY <1>2, <2>3, TailElements
    <3>2. Append(c, "sent")[1] = c[1]
      BY <1>2, <2>1, <3>1, AppendElements
    <3>3. QED
      BY <2>3, <3>2 DEF Runs
  <2>4. QED
    BY <2>2, <2>3
<1>5. Runs(callStack'[s], "request") => Runs(callStack[s], "request")
  BY <1>2, <1>3, <1>4
<1>6. \A t \in Side : t # s => callStack'[t] = callStack[t]
  BY <1>2, <1>3
<1>7. PICK b : SameQueues(att[s], b) /\ att' = [att EXCEPT ![s] = b]
  BY <1>1
<1>8. Moves(att[s], b)
  BY <1>2, <1>7, SameQueuesMoves
<1>9. QED
  BY <1>2, <1>5, <1>6, <1>7, <1>8, QuietTurn

LEMMA PopTurn ==
  ASSUME AttInv, AllSerial, NEW s \in Side, callStack[s] # <<>>, Pop(s), UNCHANGED <<answer, calls>>,
         NEW b, Moves(att[s], b), att' = [att EXCEPT ![s] = b]
  PROVE  \A t \in Side : Turned(t)
<1> DEFINE c == callStack[s]
           d == SubSeq(c, 1, Len(c) - 1)
<1>1. callStack' = [callStack EXCEPT ![s] = d] /\ callStack \in [Side -> Seq(Frames)]
  BY DEF Pop, AttInv
<1>2. Nested(c) /\ "request" \in Kinds
  BY Before DEF Kinds
<1>3. Runs(d, "request") => Runs(c, "request")
  BY <1>2, PopFrame
<1> HIDE DEF d
<1>4. /\ Runs(callStack'[s], "request") => Runs(callStack[s], "request")
      /\ \A t \in Side : t # s => callStack'[t] = callStack[t]
  BY <1>1, <1>3
<1>5. QED
  BY <1>4, QuietTurn

LEMMA ReturningTurn ==
  ASSUME AttInv, AllSerial, NEW s \in Side,
         SentCallbackReturns(s) \/ FlushSends(s) \/ FlushEnds(s) \/ ConfirmationCallbackReturns(s)
  PROVE  \A t \in Side : Turned(t)
<1>1. att[s] \in Bearer /\ att \in [Side -> Bearer]
  BY DEF AttInv
<1>2. CASE SentCallbackReturns(s)
  <2>1. /\ callStack[s] # <<>> /\ Pop(s) /\ UNCHANGED <<answer, calls>>
        /\ att' = [att EXCEPT ![s] = att[s]]
    BY <1>1, <1>2 DEF SentCallbackReturns, Returns, historyVars
  <2>2. QED
    BY <2>1, MovesNowhere, PopTurn
<1>3. CASE FlushSends(s)
  <2> DEFINE b == [att[s] EXCEPT !.notificationQueue = Tail(@)]
  <2>1. /\ \E p : att' = [att EXCEPT ![s] = SendData(b, p)]
        /\ UNCHANGED <<callStack, answer, calls>>
    BY <1>3 DEF FlushSends, Becomes, historyVars
  <2>2. SameQueues(att[s], b)
    BY FieldsKeepQueues
  <2> HIDE DEF b
  <2>3. \A p : SameQueues(att[s], SendData(b, p))
    BY <2>2, DataKeepsQueues, SameQueuesAgain
  <2>4. QED
    BY <2>1, <2>3, QuieterTurn
<1>4. CASE FlushEnds(s)
  <2> DEFINE b == SendNextIndication(att[s])
             d == SendNextRequest(b)
  <2>1. /\ callStack[s] # <<>> /\ Pop(s) /\ UNCHANGED <<answer, calls>>
        /\ att' = [att EXCEPT ![s] = d]
    BY <1>4 DEF FlushEnds, Returns, historyVars, Becomes, AfterFlush
  <2>2. SameQueues(att[s], b)
    BY DataKeepsQueues
  <2> HIDE DEF b, d
  <2>3. /\ QueueFields \subseteq DOMAIN b /\ b.requestQueue = att[s].requestQueue
        /\ b.procedureQueue = att[s].procedureQueue
    BY <1>1, <2>2, BearerFields DEF SameQueues
  <2>4. b.requestQueue \in Seq(Request) /\ b.procedureQueue \in Seq(Request)
    BY <1>1, <2>3, WaitingRequests
  <2>5. Moves(b, d)
    BY <2>3, <2>4, SendNextRequestMoves DEF d
  <2>6. b.currentOutgoingRequest = att[s].currentOutgoingRequest /\ Waiting(b) = Waiting(att[s])
    BY <1>1, <2>2, SameQueuesMoves
  <2>7. Moves(att[s], d)
    BY <2>5, <2>6 DEF Moves
  <2>8. QED
    BY <2>1, <2>7, PopTurn
<1>5. CASE ConfirmationCallbackReturns(s)
  <2> DEFINE b == [att[s] EXCEPT !.currentOutgoingIndication = None]
             d == SendNextIndication(b)
  <2>1. /\ callStack[s] # <<>> /\ Pop(s) /\ UNCHANGED <<answer, calls>>
        /\ att' = [att EXCEPT ![s] = d]
    BY <1>5 DEF ConfirmationCallbackReturns, Returns, historyVars, Becomes
  <2>2. SameQueues(att[s], b)
    BY FieldsKeepQueues
  <2> HIDE DEF b
  <2>3. SameQueues(att[s], d)
    BY <2>2, DataKeepsQueues, SameQueuesAgain
  <2> HIDE DEF d
  <2>4. Moves(att[s], d)
    BY <1>1, <2>3, SameQueuesMoves
  <2>5. QED
    BY <2>1, <2>4, PopTurn
<1>6. QED
  BY <1>2, <1>3, <1>4, <1>5

\* Packets other than responses arrive.
LEMMA HandlingTurn ==
  ASSUME AttInv, AllSerial, NEW s \in Side,
         \/ HandleRequest(s) \/ HandleCommand(s) \/ HandleNotification(s) \/ HandleIndication(s)
         \/ AttTimeout(s)
  PROVE  \A t \in Side : Turned(t)
<1> DEFINE x == att[s]
<1>1. att = [att EXCEPT ![s] = x] /\ SameQueues(x, x) /\ Sound(x)
  BY Before DEF SameQueues
<1>2. UNCHANGED <<callStack, answer, calls>>
  BY DEF HandleRequest, HandleCommand, HandleNotification, HandleIndication, AttTimeout, historyVars
<1>3. CASE HandleRequest(s)
  <2> DEFINE b == [x EXCEPT !.isHandlingRequest = TRUE]
  <2>1. \A p, m, op, stage, id : /\ SameQueues(x, WithMtu(SendResponse(x, p), m))
                                 /\ SameQueues(x, AddTask(b, op, stage, id))
    <3>1. SameQueues(x, b)
      BY FieldsKeepQueues
    <3> HIDE DEF b
    <3>2. QED
      BY <3>1, DataKeepsQueues, FieldsKeepQueues, SameQueuesAgain
  <2>2. Arriving(s).op \in {"mtu", "read", "write"}
    <3>1. Receives(s, {"request"})
      BY <1>3 DEF HandleRequest
    <3>2. wire[Other(s)] # <<>> /\ Head(wire[Other(s)]).type = "request"
      BY <3>1, Receiving
    <3>3. Head(wire[Other(s)]).op \in Op
      BY <3>2, Before, RequestArrives
    <3>4. QED
      BY <3>3 DEF Op, Arriving
  <2>3. x.isHandlingRequest \in BOOLEAN
    BY <1>1 DEF Sound, Bearer
  <2>4. \/ att' = [att EXCEPT ![s] = x]
        \/ \E p, m : att' = [att EXCEPT ![s] = WithMtu(SendResponse(x, p), m)]
        \/ \E op, stage, id : att' = [att EXCEPT ![s] = AddTask(b, op, stage, id)]
    <3>1. CASE x.isHandlingRequest
      BY <1>3, <3>1 DEF HandleRequest, Becomes
    <3>2. CASE ~x.isHandlingRequest /\ Arriving(s).op = "mtu"
      BY <1>3, <3>2 DEF HandleRequest, Becomes
    <3>3. CASE ~x.isHandlingRequest /\ Arriving(s).op = "read"
      BY <1>3, <3>3 DEF HandleRequest, Becomes
    <3>4. CASE ~x.isHandlingRequest /\ Arriving(s).op = "write"
      BY <1>3, <3>4 DEF HandleRequest, Becomes
    <3>5. QED
      BY <2>2, <2>3, <3>1, <3>2, <3>3, <3>4
  <2> HIDE DEF b, x
  <2>5. PICK c : SameQueues(x, c) /\ att' = [att EXCEPT ![s] = c]
    BY <1>1, <2>1, <2>4
  <2>6. QED
    BY <1>2, <2>5, QuieterTurn DEF x
<1>4. CASE HandleCommand(s)
  <2>1. PICK c : SameQueues(x, c) /\ att' = [att EXCEPT ![s] = c]
    BY <1>4, FieldsKeepQueues DEF HandleCommand, Becomes
  <2>2. QED
    BY <1>2, <2>1, QuieterTurn
<1>5. CASE HandleNotification(s)
  <2>1. att' = [att EXCEPT ![s] = x]
    BY <1>1, <1>5 DEF HandleNotification
  <2>2. QED
    BY <1>1, <1>2, <2>1, QuieterTurn
<1>6. CASE HandleIndication(s)
  <2>1. PICK c : SameQueues(x, c) /\ att' = [att EXCEPT ![s] = c]
    BY <1>1, <1>6, FieldsKeepQueues DEF HandleIndication, Becomes
  <2>2. QED
    BY <1>2, <2>1, QuieterTurn
<1>7. CASE AttTimeout(s)
  <2>1. PICK c : SameQueues(x, c) /\ att' = [att EXCEPT ![s] = c]
    BY <1>7, FieldsKeepQueues DEF AttTimeout, Becomes
  <2>2. QED
    BY <1>2, <2>1, QuieterTurn
<1>8. QED
  BY <1>3, <1>4, <1>5, <1>6, <1>7

LEMMA HandleConfirmationTurn ==
  ASSUME AttInv, AllSerial, NEW s \in Side, HandleConfirmation(s)
  PROVE  \A t \in Side : Turned(t)
<1>1. callStack[s] = <<>> /\ callStack \in [Side -> Seq(Frames)]
  BY DEF HandleConfirmation, Receives, AttInv
<1>2. callStack' = callStack \/ callStack' = [callStack EXCEPT ![s] = Append(@, "confirmation")]
  BY DEF HandleConfirmation, Push
<1>3. Append(<<>>, "confirmation")[1] = "confirmation"
  OBVIOUS
<1>4. Runs(callStack'[s], "request") => Runs(callStack[s], "request")
  BY <1>1, <1>2, <1>3 DEF Runs, Callback
<1>5. \A t \in Side : t # s => callStack'[t] = callStack[t]
  BY <1>1, <1>2
<1>6. UNCHANGED <<answer, calls>> /\ att' = [att EXCEPT ![s] = att[s]]
  BY Before DEF HandleConfirmation
<1>7. QED
  BY <1>4, <1>5, <1>6, MovesNowhere, QuietTurn

\* Where nothing happens.
LEMMA ElsewhereTurn ==
  ASSUME AttInv, AllSerial, NEW t \in Side, att'[t] = att[t], calls'[t] = calls[t],
         answer'[t] = answer[t], callStack'[t] = callStack[t]
  PROVE  Turned(t)
<1>1. Serial(att[t], calls[t]["request"], answer[t], callStack[t])
  BY DEF AllSerial
<1>2. QED
  BY <1>1 DEF Turned, Turn

\* The answer to a request arrives.
LEMMA HandleResponseTurn ==
  ASSUME AttInv, AllSerial, NEW s \in Side, HandleResponse(s)
  PROVE  \A t \in Side : Turned(t)
<1> DEFINE x == att[s]
           id == x.currentOutgoingRequest.id
           n == calls[s]["request"]
<1>1. /\ att \in [Side -> Bearer] /\ callStack \in [Side -> Seq(Frames)]
      /\ answer \in [Side -> [Ids("request") -> {"none", "own"}]] /\ UNCHANGED calls
  BY DEF AttInv, Records, HandleResponse
<1>2. Receives(s, {"response", "error", "oversized"})
  BY DEF HandleResponse
<1>3. Fits(s) /\ IsAwaited(x, Arriving(s))
  BY <1>2, Receiving, ResponseAwaited DEF Arriving
<1>4. Arriving(s).op = x.currentOutgoingRequest.op /\ Arriving(s).id = id
  BY <1>2, ResponseAwaited DEF Arriving
<1>5. /\ callStack' = [callStack EXCEPT ![s] = Append(@, "response")]
      /\ \E b : SameQueues(x, b) /\ att' = [att EXCEPT ![s] = b]
      /\ answer' = [answer EXCEPT ![s] = [answer[s] EXCEPT ![id] = "own"]]
  <2>1. SameQueues(x, x) /\ \A m : SameQueues(x, WithMtu(x, m))
    BY FieldsKeepQueues DEF SameQueues
  <2>2. callStack' = [callStack EXCEPT ![s] = Append(@, "response")]
    BY <1>3 DEF HandleResponse, Push
  <2>3. \/ att' = [att EXCEPT ![s] = x]
        \/ \E m : att' = [att EXCEPT ![s] = WithMtu(x, m)]
    BY <1>3 DEF HandleResponse, Becomes
  <2>4. answer' = [answer EXCEPT ![s][id] = "own"]
    BY <1>3, <1>4 DEF HandleResponse
  <2>5. QED
    BY <2>1, <2>2, <2>3, <2>4
<1>6. PICK b : SameQueues(x, b) /\ att' = [att EXCEPT ![s] = b]
  BY <1>5
<1>7. b.currentOutgoingRequest = x.currentOutgoingRequest /\ Waiting(b) = Waiting(x)
  BY <1>1, <1>6, SameQueuesMoves
<1>8. x.currentOutgoingRequest # NoRequest
  BY <1>3 DEF IsAwaited
<1>9. Lined(x, n, answer[s])
  BY DEF AllSerial, Serial
<1>10. b \in Bearer
  <2>1. AttInv'
    BY HandleResponseInv
  <2>2. att' \in [Side -> Bearer]
    BY <2>1 DEF AttInv
  <2>3. QED
    BY <1>1, <1>6, <2>2
<1>11. Turned(s)
  <2> DEFINE a2 == [answer[s] EXCEPT ![id] = "own"]
  <2>1. att'[s] = b /\ answer'[s] = a2 /\ calls' = calls
    BY <1>1, <1>5, <1>6
  <2>2. \A c : Serial(b, n, a2, c) /\ Turn(Queued(x, answer[s]), answer[s], Queued(b, a2), a2)
    BY <1>1, <1>7, <1>8, <1>9, <1>10, TurnAnswered
  <2> HIDE DEF a2
  <2>3. QED
    BY <2>1, <2>2 DEF Turned
<1>12. ASSUME NEW t \in Side, t # s
       PROVE  Turned(t)
  <2>1. /\ att'[t] = att[t] /\ calls'[t] = calls[t]
        /\ answer'[t] = answer[t] /\ callStack'[t] = callStack[t]
    BY <1>1, <1>5, <1>6, <1>12
  <2>2. QED
    BY <2>1, ElsewhereTurn
<1>13. QED
  BY <1>11, <1>12

\* A request is asked for, and sent if nothing is in its way.
LEMMA StartProcedureTurn ==
  ASSUME AttInv, AllSerial, NEW s \in Side, NEW op \in Op, StartProcedure(s, op)
  PROVE  \A t \in Side : Turned(t)
<1> DEFINE x == att[s]
           n == calls[s]["request"]
           a == answer[s]
           c == callStack[s]
           r == [id |-> n + 1, op |-> op]
           b == [x EXCEPT !.procedureQueue = Append(@, r), !.hasExchangedMtu = @ \/ op = "mtu"]
           d == NextRequest(b)
<1>1. /\ att \in [Side -> Bearer] /\ calls \in [Side -> [Counted -> Nat]] /\ budget \in Budgets
      /\ "request" \in Counted
  BY DEF AttInv, Records, Counted
<1>2. /\ att' = [att EXCEPT ![s] = d] /\ n < budget[s]["request"]
      /\ calls' = [calls EXCEPT ![s]["request"] = @ + 1] /\ UNCHANGED <<callStack, answer>>
  BY DEF StartProcedure, Calls, Becomes
<1>3. n \in Nat /\ budget[s]["request"] \in Nat /\ n + 1 \in 1 .. budget[s]["request"]
  <2>1. n \in Nat
    BY <1>1
  <2>2. budget[s]["request"] \in Nat
    BY <1>1, AttAssumption DEF Budget
  <2>3. QED
    BY <1>2, <2>1, <2>2
<1>4. n + 1 \in Ids("request")
  BY <1>1, <1>3, IdsMembers
<1>5. r \in Request /\ r.id = n + 1 /\ r # NoRequest
  BY <1>3 DEF Request, None, NoRequest
<1>6. /\ x.requestQueue \in Seq(Request) /\ x.procedureQueue \in Seq(Request)
      /\ Append(x.procedureQueue, r) \in Seq(Request) /\ x \in Bearer
  <2> HIDE DEF r, Request
  <2>1. QED
    BY <1>1, <1>5, WaitingRequests, AppendElements
<1>7. /\ b \in Bearer /\ b.currentOutgoingRequest = x.currentOutgoingRequest
      /\ b.requestQueue = x.requestQueue /\ b.procedureQueue = Append(x.procedureQueue, r)
  <2> HIDE DEF r, Request
  <2>1. QED
    BY <1>6 DEF Bearer
<1> HIDE DEF b
<1>8. Waiting(b) = Append(Waiting(x), r)
  <2> DEFINE rq == x.requestQueue
             pq == x.procedureQueue
  <2>1. rq \in Seq(Request) /\ pq \in Seq(Request) /\ r \in Request
    BY <1>5, <1>6
  <2>2. Waiting(x) = rq \o pq /\ Waiting(b) = rq \o Append(pq, r)
    BY <1>7 DEF Waiting
  <2> HIDE DEF rq, pq, r, Request
  <2>3. QED
    BY <2>1, <2>2, ConcatAppend
<1>9. Serial(x, n, a, c)
  BY DEF AllSerial
<1> HIDE DEF r
<1>10. Serial(b, n + 1, a, c) /\ Turn(Queued(x, a), a, Queued(b, a), a)
  BY <1>1, <1>4, <1>5, <1>7, <1>8, <1>9, TurnAsked
<1>11. Moves(b, d)
  <2>1. QueueFields \cup {"hasPendingRequest"} \subseteq DOMAIN b
    BY <1>7 DEF Bearer, QueueFields
  <2>2. b.requestQueue \in Seq(Request) /\ b.procedureQueue \in Seq(Request)
    BY <1>6, <1>7
  <2>3. QED
    BY <2>1, <2>2, NextRequestMoves
<1> HIDE DEF d
<1>12. Serial(d, n + 1, a, c) /\ Queued(d, a) = Queued(b, a)
  BY <1>7, <1>10, <1>11, TurnMoves, MovesKept DEF Serial
<1>13. Turned(s)
  <2>1. att'[s] = d /\ calls'[s]["request"] = n + 1 /\ answer'[s] = a /\ callStack'[s] = c
    BY <1>1, <1>2
  <2>2. QED
    BY <1>10, <1>12, <2>1 DEF Turned
<1>14. ASSUME NEW t \in Side, t # s
       PROVE  Turned(t)
  <2>1. /\ att'[t] = att[t] /\ calls'[t] = calls[t]
        /\ answer'[t] = answer[t] /\ callStack'[t] = callStack[t]
    BY <1>1, <1>2, <1>14
  <2>2. QED
    BY <2>1, ElsewhereTurn
<1>15. QED
  BY <1>13, <1>14

\* The callback of a request returns, and the next is sent unless notifications wait.
LEMMA ResponseReturnsTurn ==
  ASSUME AttInv, AllSerial, NEW s \in Side, ResponseCallbackReturns(s)
  PROVE  \A t \in Side : Turned(t)
<1> DEFINE x == att[s]
           n == calls[s]["request"]
           a == answer[s]
           c == callStack[s]
           b2 == [DoneNextRequest(x) EXCEPT !.currentOutgoingRequest = NoRequest]
           b3 == SendNextRequest(b2)
           f == <<"flush">>
<1>1. /\ att \in [Side -> Bearer] /\ callStack \in [Side -> Seq(Frames)] /\ x \in Bearer
  BY DEF AttInv
<1>2. /\ Runs(c, "request")
      /\ \/ callStack' = [callStack EXCEPT ![s] = f] /\ att' = [att EXCEPT ![s] = b2]
         \/ callStack' = [callStack EXCEPT ![s] = <<>>] /\ att' = [att EXCEPT ![s] = b3]
  BY ResponseReturns
<1>3. UNCHANGED <<answer, calls>>
  BY DEF ResponseCallbackReturns, historyVars
<1>4. ~Runs(f, "request") /\ ~Runs(<<>>, "request")
  BY NoCallback DEF Kinds
<1>5. Serial(x, n, a, c)
  BY DEF AllSerial
<1>6. b2 \in Bearer
  <2>1. Sound(x) /\ DefaultMtu \in Nat
    BY Before
  <2>2. OwnStep(x, DoneNextRequest(x))
    BY <2>1, DoneNextRequestStep
  <2>3. Sound(DoneNextRequest(x))
    BY <2>2 DEF OwnStep
  <2>4. Sound(b2)
    BY <2>3, RequestDone
  <2>5. QED
    BY <2>4 DEF Sound
<1>7. /\ \A d : ~Runs(d, "request") =>
           Serial(b2, n, a, d) /\ Turn(Queued(x, a), a, Queued(b2, a), a)
      /\ \A b, d : b2 \in Bearer /\ Moves(b2, b) /\ ~Runs(d, "request") =>
           Serial(b, n, a, d) /\ Turn(Queued(x, a), a, Queued(b, a), a)
  BY <1>1, <1>2, <1>5, TurnDone
<1> HIDE DEF b2
<1>8. Moves(b2, b3)
  BY <1>6, BearerFields, WaitingRequests, SendNextRequestMoves
<1> HIDE DEF b3, f
<1>9. /\ Serial(b2, n, a, f) /\ Turn(Queued(x, a), a, Queued(b2, a), a)
      /\ Serial(b3, n, a, <<>>) /\ Turn(Queued(x, a), a, Queued(b3, a), a)
  BY <1>4, <1>6, <1>7, <1>8
<1>10. Turned(s)
  <2>1. \/ callStack'[s] = f /\ att'[s] = b2
        \/ callStack'[s] = <<>> /\ att'[s] = b3
    BY <1>1, <1>2
  <2>2. QED
    BY <1>3, <1>9, <2>1 DEF Turned
<1>11. ASSUME NEW t \in Side, t # s
       PROVE  Turned(t)
  <2>1. /\ att'[t] = att[t] /\ calls'[t] = calls[t]
        /\ answer'[t] = answer[t] /\ callStack'[t] = callStack[t]
    BY <1>1, <1>2, <1>3, <1>11
  <2>2. QED
    BY <2>1, ElsewhereTurn
<1>12. QED
  BY <1>10, <1>11

LEMMA NextTurn ==
  ASSUME AttInv, AllSerial, [Next]_vars
  PROVE  \A t \in Side : Turned(t)
<1>1. CASE UNCHANGED vars
  <2>1. UNCHANGED <<att, calls, answer, callStack>>
    BY <1>1 DEF vars, historyVars
  <2>2. QED
    BY <2>1, ElsewhereTurn
<1>2. ASSUME NEW s \in Side,
             \/ Calling(s) \/ Written(s) \/ Returning(s) \/ Handling(s) \/ Answering(s)
             \/ AttTimeout(s)
      PROVE  \A t \in Side : Turned(t)
  <2>1. CASE Calling(s)
    BY <2>1, StartProcedureTurn, CallingTurn DEF Calling
  <2>2. CASE Written(s)
    BY <2>2, WrittenTurn
  <2>3. CASE Returning(s)
    BY <2>3, ReturningTurn, ResponseReturnsTurn DEF Returning
  <2>4. CASE Handling(s)
    BY <2>4, HandlingTurn, HandleResponseTurn, HandleConfirmationTurn DEF Handling
  <2>5. CASE Answering(s)
    BY <2>5, AnsweringTurn
  <2>6. CASE AttTimeout(s)
    BY <2>6, HandlingTurn
  <2>7. QED
    BY <1>2, <2>1, <2>2, <2>3, <2>4, <2>5, <2>6
<1>3. QED
  BY <1>1, <1>2 DEF Next

LEMMA InitSerial ==
  ASSUME Init
  PROVE  AllSerial
<1> SUFFICES ASSUME NEW s \in Side
             PROVE  Serial(att[s], calls[s]["request"], answer[s], callStack[s])
  BY DEF AllSerial
<1>1. /\ att[s].requestQueue = <<>> /\ att[s].procedureQueue = <<>> /\ callStack[s] = <<>>
      /\ att[s].currentOutgoingRequest = NoRequest
      /\ calls[s]["request"] = 0 /\ answer[s] = [r \in Ids("request") |-> "none"]
  BY DEF Init, Counted
<1>2. Waiting(att[s]) = <<>> /\ Len(<<>>) = 0
  BY <1>1, EmptySeq, ConcatEmptySeq DEF Waiting
<1>3. Lined(att[s], 0, answer[s])
  BY <1>1, <1>2 DEF Lined
<1>4. QED
  BY <1>1, <1>3 DEF Serial, Runs

\* The queue of SerialRequests: the identifiers of the requests.
Numbers(q) == [i \in DOMAIN q |-> q[i].id]

LEMMA NumbersElements ==
  ASSUME NEW q \in Seq(Request)
  PROVE  /\ Numbers(q) \in Seq(Nat) /\ Len(Numbers(q)) = Len(q) /\ Len(q) \in Nat
         /\ DOMAIN q = 1 .. Len(q) /\ \A i \in 1 .. Len(q) : Numbers(q)[i] = q[i].id
<1>1. \A r \in Request : r.id \in Nat
  BY NoRequestIsNone
<1> HIDE DEF Request
<1>2. Len(q) \in Nat /\ DOMAIN q = 1 .. Len(q) /\ \A i \in 1 .. Len(q) : q[i] \in Request
  BY LenProperties, ElementOfSeq
<1> DEFINE s == [i \in 1 .. Len(q) |-> q[i].id]
<1>3. Numbers(q) = s
  BY <1>2 DEF Numbers
<1>4. s \in [1 .. Len(q) -> Nat]
  BY <1>1, <1>2
<1>5. s \in Seq(Nat) /\ Len(s) = Len(q)
  BY <1>2, <1>4
<1>6. QED
  BY <1>2, <1>3, <1>5

LEMMA NumbersAppend ==
  ASSUME NEW q \in Seq(Request), NEW r \in Request
  PROVE  Numbers(Append(q, r)) = Append(Numbers(q), r.id)
<1> DEFINE n == r.id
           s == Numbers(q)
           p == Append(q, r)
<1>1. n \in Nat
  BY NoRequestIsNone
<1> HIDE DEF n, Request
<1>2. /\ p \in Seq(Request) /\ Len(p) = Len(q) + 1 /\ p[Len(q) + 1] = r
      /\ \A i \in 1 .. Len(q) : p[i] = q[i]
  BY AppendProperties
<1>3. /\ s \in Seq(Nat) /\ Len(s) = Len(q) /\ Len(q) \in Nat
      /\ \A i \in 1 .. Len(q) : s[i] = q[i].id
  BY NumbersElements
<1> HIDE DEF p, s
<1>4. /\ Numbers(p) \in Seq(Nat) /\ Len(Numbers(p)) = Len(p)
      /\ \A i \in 1 .. Len(p) : Numbers(p)[i] = p[i].id
  BY <1>2, NumbersElements
<1>5. /\ Append(s, n) \in Seq(Nat) /\ Len(Append(s, n)) = Len(s) + 1 /\ Append(s, n)[Len(s) + 1] = n
      /\ \A i \in 1 .. Len(s) : Append(s, n)[i] = s[i]
  BY <1>1, <1>3, AppendProperties
<1>6. \A i \in 1 .. Len(p) : Numbers(p)[i] = Append(s, n)[i]
  <2>1. TAKE i \in 1 .. Len(p)
  <2>2. CASE i = Len(q) + 1
    BY <1>2, <1>3, <1>4, <1>5, <2>2 DEF n
  <2>3. CASE i # Len(q) + 1
    <3>1. i \in 1 .. Len(q)
      BY <1>2, <1>3, <2>3
    <3>2. QED
      BY <1>2, <1>3, <1>4, <1>5, <3>1
  <2>4. QED
    BY <2>2, <2>3
<1>7. Numbers(p) = Append(s, n)
  BY <1>2, <1>3, <1>4, <1>5, <1>6, SeqEqual
<1>8. QED
  BY <1>7 DEF p, s, n

LEMMA NumbersTail ==
  ASSUME NEW q \in Seq(Request), q # <<>>
  PROVE  /\ Numbers(q) # <<>> /\ Head(Numbers(q)) = Head(q).id
         /\ Numbers(Tail(q)) = Tail(Numbers(q))
<1> DEFINE s == Numbers(q)
           p == Tail(q)
<1> HIDE DEF Request
<1>1. /\ s \in Seq(Nat) /\ Len(s) = Len(q) /\ Len(q) \in Nat
      /\ \A i \in 1 .. Len(q) : s[i] = q[i].id
  BY NumbersElements
<1>2. /\ p \in Seq(Request) /\ Len(p) = Len(q) - 1 /\ Head(q) = q[1] /\ Len(q) >= 1
      /\ \A i \in 1 .. Len(p) : p[i] = q[i + 1]
  BY <1>1, HeadTailProperties, EmptySeq
<1> HIDE DEF p, s
<1>3. /\ Numbers(p) \in Seq(Nat) /\ Len(Numbers(p)) = Len(p)
      /\ \A i \in 1 .. Len(p) : Numbers(p)[i] = p[i].id
  BY <1>2, NumbersElements
<1>4. s # <<>>
  BY <1>1, <1>2, EmptySeq
<1>5. /\ Tail(s) \in Seq(Nat) /\ Len(Tail(s)) = Len(s) - 1 /\ Head(s) = s[1]
      /\ \A i \in 1 .. Len(Tail(s)) : Tail(s)[i] = s[i + 1]
  BY <1>1, <1>4, HeadTailProperties
<1>6. Head(s) = Head(q).id
  BY <1>1, <1>2, <1>5
<1>7. \A i \in 1 .. Len(p) : Numbers(p)[i] = Tail(s)[i]
  <2>1. Len(Tail(s)) = Len(p) /\ \A i \in 1 .. Len(p) : i + 1 \in 1 .. Len(q)
    BY <1>1, <1>2, <1>5
  <2>2. TAKE i \in 1 .. Len(p)
  <2>3. Tail(s)[i] = s[i + 1] /\ s[i + 1] = q[i + 1].id
    BY <1>1, <1>5, <2>1
  <2>4. Numbers(p)[i] = p[i].id /\ p[i] = q[i + 1]
    BY <1>2, <1>3
  <2>5. QED
    BY <2>3, <2>4
<1>8. Numbers(p) = Tail(s)
  BY <1>1, <1>2, <1>3, <1>5, <1>7, SeqEqual
<1>9. QED
  BY <1>4, <1>6, <1>8 DEF p, s

\* What is to be served is what has no answer.
LEMMA UnansweredQueued ==
  /\ (\A s \in Side : att[s] \in Bearer) =>
       \A s \in Side : Unanswered(s) = Queued(att[s], answer[s])
  /\ (\A s \in Side : att'[s] \in Bearer) =>
       \A s \in Side : Unanswered(s)' = Queued(att'[s], answer'[s])
<1> DEFINE U(b, a) == (IF Outstanding(b, a) THEN <<b.currentOutgoingRequest>> ELSE <<>>)
                        \o b.requestQueue \o b.procedureQueue
<1>1. ASSUME NEW b \in Bearer, NEW a
      PROVE  U(b, a) = Queued(b, a)
  <2> DEFINE h == IF Outstanding(b, a) THEN <<b.currentOutgoingRequest>> ELSE <<>>
             r == b.requestQueue
             p == b.procedureQueue
  <2>1. /\ b.currentOutgoingRequest \in Request \cup {NoRequest}
        /\ r \in Seq(Request) /\ p \in Seq(Request)
    BY WaitingRequests
  <2> HIDE DEF Request
  <2>2. h \in Seq(Request)
    BY <2>1, EmptySeq DEF Outstanding
  <2>3. U(b, a) = (h \o r) \o p /\ Queued(b, a) = h \o (r \o p)
    BY DEF Queued, Waiting
  <2> HIDE DEF h, r, p, U
  <2>4. QED
    BY <2>1, <2>2, <2>3, ConcatAssociative
<1>2. \A s \in Side : /\ Unanswered(s) = U(att[s], answer[s])
                      /\ Unanswered(s)' = U(att'[s], answer'[s])
  BY DEF Unanswered, CurrentIsUnanswered, Outstanding
<1> HIDE DEF U
<1>3. QED
  BY <1>1, <1>2

\* A turn of the requests of an end is a step of SerialRequests or none.
LEMMA TurnedStep ==
  ASSUME AttInv, AttInv', AllSerial, NEW s \in Side, Turned(s)
  PROVE  [Procedures(s)!Next]_(Procedures(s)!vars)
<1> DEFINE q == Queued(att[s], answer[s])
           q2 == Queued(att'[s], answer'[s])
           A == Answered(answer[s])
           A2 == Answered(answer'[s])
<1>1. att[s] \in Bearer /\ att'[s] \in Bearer
  BY DEF AttInv
<1>2. Unanswered(s) = q /\ Unanswered(s)' = q2
  <2>1. \A t \in Side : att[t] \in Bearer /\ att'[t] \in Bearer
    BY DEF AttInv
  <2>2. QED
    BY <2>1, UnansweredQueued
<1>3. q \in Seq(Request)
  BY <1>1, QueuedElements DEF AllSerial, Serial
<1>4. Turn(q, answer[s], q2, answer'[s])
  BY DEF Turned
<1>5. /\ [i \in DOMAIN Unanswered(s) |-> Unanswered(s)[i].id] = Numbers(q)
      /\ [i \in DOMAIN Unanswered(s) |-> Unanswered(s)[i].id]' = Numbers(q2)
      /\ {r \in Ids("request") : answer[s][r] # "none"} = A
      /\ {r \in Ids("request") : answer[s][r] # "none"}' = A2
  BY <1>2 DEF Numbers, Answered
<1> HIDE DEF q, q2, A, A2
<1>6. CASE q2 = q /\ A2 = A
  <2>1. UNCHANGED Procedures(s)!vars
    BY <1>5, <1>6 DEF Procedures!vars
  <2>2. QED
    BY <2>1
<1>7. ASSUME A2 = A, NEW r \in Request, r.id \in Ids("request") \ A,
             \A i \in 1 .. Len(q) : q[i].id # r.id, q2 = Append(q, r)
      PROVE  Procedures(s)!Next
  <2>1. /\ Numbers(q) \in Seq(Nat) /\ Len(Numbers(q)) = Len(q)
        /\ \A i \in 1 .. Len(q) : Numbers(q)[i] = q[i].id
    BY <1>3, NumbersElements
  <2>2. DOMAIN Numbers(q) = 1 .. Len(q)
    BY <2>1, LenProperties
  <2>3. r.id \notin Procedures(s)!Elements(Numbers(q))
    BY <1>7, <2>1, <2>2 DEF Procedures!Elements
  <2>4. Numbers(q2) = Append(Numbers(q), r.id)
    BY <1>3, <1>7, NumbersAppend
  <2>5. Procedures(s)!Submit(r.id)
    BY <1>5, <1>7, <2>3, <2>4 DEF Procedures!Submit
  <2>6. QED
    BY <1>7, <2>5 DEF Procedures!Next
<1>8. ASSUME q # <<>>, q2 = Tail(q), A2 = A \cup {Head(q).id}
      PROVE  Procedures(s)!Next
  <2>1. /\ Numbers(q) # <<>> /\ Head(Numbers(q)) = Head(q).id
        /\ Numbers(q2) = Tail(Numbers(q))
    BY <1>3, <1>8, NumbersTail
  <2>2. A2 = A \cup ({Head(Numbers(q))} \ {})
    BY <1>8, <2>1
  <2>3. Procedures(s)!Finish
    BY <1>5, <2>1, <2>2 DEF Procedures!Finish
  <2>4. QED
    BY <2>3 DEF Procedures!Next
<1>9. QED
  BY <1>4, <1>6, <1>7, <1>8 DEF Turn, A, A2

\* For each end, AttBearer implements SerialRequests: although a procedure may be asked for at any
\* time, and the callback of a request starts the next while its own is still the current one,
\* the requests are answered one at a time in the order of the calls, each once, and none is lost.
THEOREM ClientServesInOrder ==
  ASSUME CommandsFit
  PROVE  Spec => ProceduresInOrder
<1>1. Init => AllSerial
  BY InitSerial
<1>2. AttInv /\ AllSerial /\ [Next]_vars => AllSerial'
  BY NextTurn DEF AllSerial, Turned
<1>3. Init => \A s \in Side : Procedures(s)!Init
  <2>1. SUFFICES ASSUME Init, NEW s \in Side
                 PROVE  Procedures(s)!Init
    OBVIOUS
  <2>2. /\ att[s].requestQueue = <<>> /\ att[s].procedureQueue = <<>>
        /\ att[s].currentOutgoingRequest = NoRequest
        /\ answer[s] = [r \in Ids("request") |-> "none"]
    BY <2>1 DEF Init
  <2>3. Unanswered(s) = <<>> \o <<>> \o <<>>
    BY <2>2 DEF Unanswered, CurrentIsUnanswered
  <2>4. Unanswered(s) = <<>> /\ DOMAIN Unanswered(s) = {}
    BY <2>3
  <2>5. [i \in DOMAIN Unanswered(s) |-> Unanswered(s)[i].id] = <<>>
    BY <2>4
  <2>6. QED
    BY <2>2, <2>5 DEF Procedures!Init
<1>4. AttInv /\ AttInv' /\ AllSerial /\ [Next]_vars
        => [\A s \in Side : [Procedures(s)!Next]_(Procedures(s)!vars)]_vars
  BY NextTurn, TurnedStep
<1>5. QED
  BY <1>1, <1>2, <1>3, <1>4, TransactionPaths, PTL DEF Spec, ProceduresInOrder

-----------------------------------------------------------------------------
(* Sets of numbers, sequences. *)

\* A set of natural numbers has a smallest.
LEMMA MinProperties ==
  ASSUME NEW S \in SUBSET Nat, S # {}
  PROVE  Min(S) \in S /\ \A x \in S : Min(S) <= x
<1> DEFINE R == {ss \in Nat \X Nat : ss[1] < ss[2]}
<1>1. IsWellFoundedOn(R, Nat)
  BY NatLessThanWellFounded DEF OpToRel
<1> HIDE DEF R
<1>2. PICK x \in S : \A y \in S : ~(<<y, x>> \in R)
  BY <1>1, WFMin
<1>3. \A y \in S : ~(y < x)
  BY <1>2 DEF R
<1>4. x \in S /\ \A y \in S : x <= y
  BY <1>3
<1>5. QED
  BY <1>4 DEF Min

\* A set of numbers up to n has a greatest.
LEMMA MaxProperties ==
  ASSUME NEW n \in Nat, NEW S \in SUBSET (0 .. n), S # {}
  PROVE  Max(S) \in S /\ \A x \in S : x <= Max(S)
<1> DEFINE T == {n - x : x \in S}
<1>1. \A x \in S : x \in Nat /\ n - x \in Nat
  OBVIOUS
<1>2. T \in SUBSET Nat /\ T # {}
  BY <1>1
<1>3. Min(T) \in T /\ \A y \in T : Min(T) <= y
  <2> HIDE DEF T
  <2>1. QED
    BY <1>2, MinProperties
<1>4. PICK x \in S : Min(T) = n - x
  BY <1>3
<1>5. \A y \in S : n - x <= n - y
  BY <1>3, <1>4
<1>6. x \in S /\ \A y \in S : x >= y
  BY <1>1, <1>5
<1>7. QED
  BY <1>6 DEF Max

LEMMA MinSingle ==
  ASSUME NEW x \in Nat
  PROVE  Min({x}) = x
BY MinProperties

LEMMA IntervalIn ==
  ASSUME NEW a \in Nat, NEW b \in Nat, NEW c \in Nat, 1 <= a, b < c
  PROVE  \A h \in a .. b : h \in 1 .. c - 1
OBVIOUS

LEMMA InsertAtProperties ==
  ASSUME NEW S, NEW s \in Seq(S), NEW e \in S, NEW i \in 1 .. Len(s) + 1
  PROVE  LET g == InsertAt(s, i, e)
         IN /\ g \in Seq(S) /\ Len(g) = Len(s) + 1
            /\ \A k \in 1 .. Len(s) + 1 : g[k] = IF k < i THEN s[k] ELSE IF k = i THEN e ELSE s[k - 1]
<1> DEFINE a == SubSeq(s, 1, i - 1)
           b == <<e>>
           c == SubSeq(s, i, Len(s))
           ab == a \o b
<1>1. Len(s) \in Nat /\ \A k \in 1 .. Len(s) : s[k] \in S
  BY LenProperties, ElementOfSeq
<1>2. /\ a \in Seq(S) /\ Len(a) = i - 1
      /\ \A k \in 1 .. i - 1 : a[k] = s[k]
  BY <1>1, SubSeqProperties
<1>3. /\ c \in Seq(S) /\ Len(c) = Len(s) - i + 1
      /\ \A k \in 1 .. Len(s) - i + 1 : c[k] = s[i + k - 1]
  BY <1>1, SubSeqProperties
<1>4. b \in Seq(S) /\ Len(b) = 1 /\ b[1] = e
  OBVIOUS
<1> HIDE DEF a, b, c
<1>5. /\ ab \in Seq(S) /\ Len(ab) = i
      /\ \A k \in 1 .. i : ab[k] = IF k < i THEN s[k] ELSE e
  <2>1. a \in Seq(S) /\ b \in Seq(S)
    BY <1>2, <1>4
  <2>2. /\ ab \in Seq(S) /\ Len(ab) = Len(a) + Len(b)
        /\ \A k \in 1 .. Len(a) + Len(b) : ab[k] = IF k <= Len(a) THEN a[k] ELSE b[k - Len(a)]
    BY <2>1, ConcatProperties
  <2> HIDE DEF ab
  <2>3. i - 1 + 1 = i /\ i \in Nat
    OBVIOUS
  <2>4. \A k \in 1 .. i : IF k < i THEN k <= i - 1 /\ k \in 1 .. i - 1 ELSE k = i /\ k - (i - 1) = 1
    BY <2>3
  <2>5. QED
    BY <1>2, <1>4, <2>2, <2>3, <2>4
<1> HIDE DEF ab
<1>6. /\ ab \o c \in Seq(S) /\ Len(ab \o c) = i + (Len(s) - i + 1)
      /\ \A k \in 1 .. i + (Len(s) - i + 1) : (ab \o c)[k] = IF k <= i THEN ab[k] ELSE c[k - i]
  <2>1. c \in Seq(S) /\ ab \in Seq(S)
    BY <1>3, <1>5
  <2>2. /\ ab \o c \in Seq(S) /\ Len(ab \o c) = Len(ab) + Len(c)
        /\ \A k \in 1 .. Len(ab) + Len(c) :
             (ab \o c)[k] = IF k <= Len(ab) THEN ab[k] ELSE c[k - Len(ab)]
    BY <2>1, ConcatProperties
  <2>3. QED
    BY <1>3, <1>5, <2>2
<1>7. InsertAt(s, i, e) = ab \o c
  BY DEF InsertAt, a, b, c, ab
<1>8. i + (Len(s) - i + 1) = Len(s) + 1
  BY <1>1
<1>9. ASSUME NEW k \in 1 .. Len(s) + 1
      PROVE  (ab \o c)[k] = IF k < i THEN s[k] ELSE IF k = i THEN e ELSE s[k - 1]
  <2>1. CASE k <= i
    <3>1. k \in 1 .. i /\ (ab \o c)[k] = ab[k]
      BY <1>6, <1>8, <2>1
    <3>2. QED
      BY <1>5, <2>1, <3>1
  <2>2. CASE ~(k <= i)
    <3>1. k - i \in 1 .. Len(s) - i + 1 /\ i + (k - i) - 1 = k - 1
      BY <1>1, <2>2
    <3>2. (ab \o c)[k] = c[k - i] /\ c[k - i] = s[i + (k - i) - 1]
      BY <1>3, <1>6, <1>8, <2>2, <3>1
    <3>3. QED
      BY <2>2, <3>1, <3>2
  <2>3. QED
    BY <2>1, <2>2
<1>10. QED
  BY <1>6, <1>7, <1>8, <1>9

LEMMA RemoveAtProperties ==
  ASSUME NEW S, NEW s \in Seq(S), NEW i \in 1 .. Len(s)
  PROVE  LET g == RemoveAt(s, i)
         IN /\ g \in Seq(S) /\ Len(g) = Len(s) - 1
            /\ \A k \in 1 .. Len(s) - 1 : g[k] = IF k < i THEN s[k] ELSE s[k + 1]
<1> DEFINE a == SubSeq(s, 1, i - 1)
           c == SubSeq(s, i + 1, Len(s))
<1>1. Len(s) \in Nat /\ \A k \in 1 .. Len(s) : s[k] \in S
  BY LenProperties, ElementOfSeq
<1>2. /\ a \in Seq(S) /\ Len(a) = i - 1
      /\ \A k \in 1 .. i - 1 : a[k] = s[k]
  BY <1>1, SubSeqProperties
<1>3. /\ c \in Seq(S) /\ Len(c) = Len(s) - i
      /\ \A k \in 1 .. Len(s) - i : c[k] = s[i + k]
  <2>1. \A k \in i + 1 .. Len(s) : s[k] \in S
    BY <1>1
  <2>2. /\ c \in Seq(S)
        /\ Len(c) = IF i + 1 <= Len(s) THEN Len(s) - (i + 1) + 1 ELSE 0
        /\ \A k \in 1 .. Len(s) - (i + 1) + 1 : c[k] = s[i + 1 + k - 1]
    BY <1>1, <2>1, i + 1 \in Int, SubSeqProperties
  <2>3. QED
    BY <1>1, <2>2
<1> HIDE DEF a, c
<1>4. /\ a \o c \in Seq(S) /\ Len(a \o c) = i - 1 + (Len(s) - i)
      /\ \A k \in 1 .. i - 1 + (Len(s) - i) : (a \o c)[k] = IF k <= i - 1 THEN a[k] ELSE c[k - (i - 1)]
  <2>1. a \in Seq(S) /\ c \in Seq(S)
    BY <1>2, <1>3
  <2>2. /\ a \o c \in Seq(S) /\ Len(a \o c) = Len(a) + Len(c)
        /\ \A k \in 1 .. Len(a) + Len(c) : (a \o c)[k] = IF k <= Len(a) THEN a[k] ELSE c[k - Len(a)]
    BY <2>1, ConcatProperties
  <2>3. QED
    BY <1>2, <1>3, <2>2
<1>5. RemoveAt(s, i) = a \o c
  BY DEF RemoveAt, a, c
<1>6. i \in Nat /\ i - 1 + (Len(s) - i) = Len(s) - 1
  BY <1>1
<1>7. \A k \in 1 .. Len(s) - 1 : (a \o c)[k] = IF k < i THEN s[k] ELSE s[k + 1]
  <2> TAKE k \in 1 .. Len(s) - 1
  <2>1. CASE k < i
    <3>1. k \in 1 .. i - 1
      BY <1>6, <2>1
    <3>2. QED
      BY <1>2, <1>4, <1>6, <2>1, <3>1
  <2>2. CASE ~(k < i)
    <3>1. k - (i - 1) \in 1 .. Len(s) - i /\ i + (k - (i - 1)) = k + 1 /\ ~(k <= i - 1)
      BY <1>1, <1>6, <2>2
    <3>2. QED
      BY <1>3, <1>4, <1>6, <2>2, <3>1
  <2>3. QED
    BY <2>1, <2>2
<1>8. a \o c \in Seq(S) /\ Len(a \o c) = Len(s) - 1
  BY <1>4, <1>6
<1>9. QED
  BY <1>5, <1>7, <1>8

-----------------------------------------------------------------------------
(* Where services are. *)

Entry == [service : Service \cup {System}, first : Nat, last : Nat]
Entries(all) == {all[i] : i \in DOMAIN all}
Of(e) == e.first .. e.last

\* The services are below the limit, in order, and each is there once.
WellPlaced(all) ==
  /\ all \in Seq(Entry)
  /\ \A i \in DOMAIN all : /\ 1 <= all[i].first /\ all[i].last < Limit
                           /\ all[i].first <= all[i].last + 1
                           /\ all[i].service # System => all[i].first <= all[i].last
  /\ \A i, j \in DOMAIN all : i < j => all[i].last < all[j].first
  /\ \A i, j \in DOMAIN all : all[i].service = all[j].service => i = j

\* What that says of the set of them.
LEMMA SoundEntries ==
  ASSUME NEW all, WellPlaced(all)
  PROVE  /\ DOMAIN all = 1 .. Len(all) /\ Len(all) \in Nat
         /\ Entries(all) \subseteq Entry
         /\ \A e, f \in Entries(all) : e.service = f.service => e = f
         /\ \A e, f \in Entries(all) : \A h \in Of(e) \cap Of(f) : e = f
         /\ \A e \in Entries(all) : /\ Of(e) \subseteq Handle
                                    /\ e.service \in Service => e.first <= e.last /\ e.last \in Of(e)
<1>1. DOMAIN all = 1 .. Len(all) /\ Len(all) \in Nat /\ \A i \in DOMAIN all : all[i] \in Entry
  BY LenProperties, ElementOfSeq DEF WellPlaced
<1>2. Entries(all) \subseteq Entry
  BY <1>1 DEF Entries
<1>3. \A e, f \in Entries(all) : e.service = f.service => e = f
  BY DEF Entries, WellPlaced
<1>4. ASSUME NEW i \in DOMAIN all, NEW j \in DOMAIN all, NEW h \in Of(all[i]) \cap Of(all[j])
      PROVE  i = j
  <2>1. all[i] \in Entry /\ all[j] \in Entry /\ i \in Nat /\ j \in Nat
    BY <1>1
  <2>2. h \in Nat /\ h <= all[i].last /\ all[i].first <= h /\ h <= all[j].last /\ all[j].first <= h
    BY <2>1 DEF Of, Entry
  <2>3. ~(i < j) /\ ~(j < i)
    BY <2>1, <2>2 DEF WellPlaced, Entry
  <2>4. QED
    BY <2>1, <2>3
<1>5. ASSUME NEW i \in DOMAIN all
      PROVE  /\ Of(all[i]) \subseteq Handle
             /\ all[i].service \in Service => all[i].first <= all[i].last /\ all[i].last \in Of(all[i])
  <2>1. /\ all[i].first \in Nat /\ all[i].last \in Nat /\ Limit \in Nat
        /\ all[i].service \in Service => all[i].service # System
    BY <1>1, DbAssumption DEF Entry
  <2>2. /\ 1 <= all[i].first /\ all[i].last < Limit
        /\ all[i].service # System => all[i].first <= all[i].last
    BY DEF WellPlaced
  <2>3. \A h \in all[i].first .. all[i].last : h \in 1 .. Limit - 1
    BY <2>1, <2>2, IntervalIn
  <2>4. Of(all[i]) \subseteq Handle
    BY <2>3 DEF Of, Handle
  <2>5. all[i].service \in Service => all[i].first <= all[i].last /\ all[i].last \in Of(all[i])
    BY <2>1, <2>2 DEF Of
  <2>6. QED
    BY <2>4, <2>5
<1>6. QED
  BY <1>1, <1>2, <1>3, <1>4, <1>5 DEF Entries

LEMMA EntryOfIs ==
  ASSUME NEW all, WellPlaced(all), NEW e \in Entries(all)
  PROVE  EntryOf(all, e.service) = e
BY DEF Entries, EntryOf, WellPlaced

\* The services in the sequence.
Services(all) == {e.service : e \in Entries(all)}

LEMMA ServicesIn ==
  ASSUME NEW all, WellPlaced(all)
  PROVE  \A s \in Services(all) : EntryOf(all, s) \in Entries(all) /\ EntryOf(all, s).service = s
BY EntryOfIs DEF Services

\* A service put into a gap that has room for it.
LEMMA PutDoes ==
  ASSUME NEW all, WellPlaced(all), NEW s \in Service \ Services(all), NEW n \in Nat \ {0},
         NEW i \in 1 .. Len(all) + 1, NEW first \in Nat, HasRoom(all, i, first, n)
  PROVE  LET e == [service |-> s, first |-> first, last |-> first + n - 1]
             g == InsertAt(all, i, e)
         IN /\ e \in Entry /\ WellPlaced(g) /\ Len(g) = Len(all) + 1
            /\ Entries(g) = Entries(all) \cup {e}
<1> DEFINE e == [service |-> s, first |-> first, last |-> first + n - 1]
           g == InsertAt(all, i, e)
<1>1. e \in Entry
  BY DEF Entry
<1>2. /\ DOMAIN all = 1 .. Len(all) /\ Len(all) \in Nat /\ all \in Seq(Entry)
      /\ \A k \in 1 .. Len(all) : all[k] \in Entry
  BY SoundEntries, ElementOfSeq DEF WellPlaced
<1> DEFINE m == Len(all)
<1>3. /\ g \in Seq(Entry) /\ Len(g) = m + 1
      /\ \A k \in 1 .. m + 1 : g[k] = IF k < i THEN all[k] ELSE IF k = i THEN e ELSE all[k - 1]
  BY <1>1, <1>2, InsertAtProperties
<1>4. DOMAIN g = 1 .. m + 1
  BY <1>2, <1>3, LenProperties
<1>5. e.service = s /\ e.first = first /\ e.last = first + n - 1 /\ e.first <= e.last /\ s # System
  BY DbAssumption
<1> HIDE DEF g, m, e
<1>6. \A k \in 1 .. m : /\ 1 <= all[k].first /\ all[k].last < Limit
                        /\ all[k].first <= all[k].last + 1
                        /\ all[k].service # System => all[k].first <= all[k].last
                        /\ all[k].service # s
  BY <1>2 DEF WellPlaced, m, Services, Entries
<1>7. \A k, l \in 1 .. m : k < l => all[k].last < all[l].first
  BY <1>2 DEF WellPlaced, m
<1>8. \A k, l \in 1 .. m : all[k].service = all[l].service => k = l
  BY <1>2 DEF WellPlaced, m
<1>9. 1 <= first /\ \A k \in 1 .. m : k < i => all[k].last < first
  <2>1. CASE i = 1
    BY <2>1 DEF HasRoom, GapStart
  <2>2. CASE i # 1
    <3>1. i - 1 \in 1 .. m /\ all[i - 1].last + 1 <= first
      BY <1>2, <2>2 DEF HasRoom, GapStart, m
    <3>2. \A k \in 1 .. m : all[k].first \in Nat /\ all[k].last \in Nat
      BY <1>2 DEF Entry, m
    <3>3. \A k \in 1 .. m : k < i - 1 => all[k].last < all[i - 1].first
      BY <1>7, <3>1
    <3>4. all[i - 1].first <= all[i - 1].last + 1
      BY <1>6, <3>1
    <3>5. \A k \in 1 .. m : k < i => all[k].last <= all[i - 1].last
      BY <3>1, <3>2, <3>3, <3>4
    <3>6. QED
      BY <3>1, <3>2, <3>5
  <2>3. QED
    BY <2>1, <2>2
<1>10. e.last < Limit /\ \A k \in 1 .. m : i <= k => e.last < all[k].first
  <2>1. Limit \in Nat /\ m \in Nat
    BY <1>2, DbAssumption DEF m
  <2>2. CASE i = m + 1
    BY <1>5, <2>1, <2>2 DEF HasRoom, GapEnd, m
  <2>3. CASE i # m + 1
    <3>1. i \in 1 .. m /\ first + n <= all[i].first
      BY <2>1, <2>3 DEF HasRoom, GapEnd, m
    <3>2. \A k \in 1 .. m : all[k].first \in Nat /\ all[k].last \in Nat
      BY <1>2 DEF Entry, m
    <3>3. \A k \in 1 .. m : i < k => all[i].last < all[k].first
      BY <1>7, <3>1
    <3>4. all[i].first <= all[i].last + 1 /\ all[i].last < Limit
      BY <1>6, <3>1
    <3>5. \A k \in 1 .. m : i <= k => all[i].first <= all[k].first
      BY <3>1, <3>2, <3>3, <3>4
    <3>6. QED
      BY <1>5, <2>1, <3>1, <3>2, <3>4, <3>5
  <2>4. QED
    BY <2>2, <2>3
<1>11. \A k \in 1 .. m + 1 : /\ k < i => k \in 1 .. m
                             /\ k > i => k - 1 \in 1 .. m
  BY <1>2 DEF m
<1>12. \A k, l \in 1 .. m + 1 : k < l => g[k].last < g[l].first
  <2> TAKE k, l \in 1 .. m + 1
  <2> HAVE k < l
  <2>1. CASE k < i /\ l < i
    BY <1>3, <1>7, <1>11, <2>1
  <2>2. CASE k < i /\ l = i
    BY <1>3, <1>5, <1>9, <1>11, <2>2
  <2>3. CASE k < i /\ l > i
    <3>1. k \in 1 .. m /\ l - 1 \in 1 .. m /\ k < l - 1
      BY <1>11, <2>3
    <3>2. QED
      BY <1>3, <1>7, <2>3, <3>1
  <2>4. CASE k = i /\ l > i
    <3>1. l - 1 \in 1 .. m /\ i <= l - 1
      BY <1>11, <2>4
    <3>2. QED
      BY <1>3, <1>10, <2>4, <3>1
  <2>5. CASE k > i /\ l > i
    <3>1. k - 1 \in 1 .. m /\ l - 1 \in 1 .. m /\ k - 1 < l - 1
      BY <1>11, <2>5
    <3>2. QED
      BY <1>3, <1>7, <2>5, <3>1
  <2>6. QED
    BY <2>1, <2>2, <2>3, <2>4, <2>5
<1>13. \A k, l \in 1 .. m + 1 : g[k].service = g[l].service => k = l
  <2> TAKE k, l \in 1 .. m + 1
  <2> HAVE g[k].service = g[l].service
  <2>1. \A x \in 1 .. m + 1 : /\ x < i => g[x] = all[x] /\ g[x].service # s
                              /\ x > i => g[x] = all[x - 1] /\ g[x].service # s
                              /\ x = i => g[x].service = s
    BY <1>3, <1>5, <1>6, <1>11
  <2>2. CASE k < i /\ l < i
    BY <1>8, <1>11, <2>1, <2>2
  <2>3. CASE k > i /\ l > i
    <3>1. k - 1 = l - 1
      BY <1>8, <1>11, <2>1, <2>3
    <3>2. QED
      BY <3>1
  <2>4. CASE k < i /\ l > i
    <3>1. k = l - 1
      BY <1>8, <1>11, <2>1, <2>4
    <3>2. QED
      BY <2>4, <3>1
  <2>5. CASE k > i /\ l < i
    <3>1. l = k - 1
      BY <1>8, <1>11, <2>1, <2>5
    <3>2. QED
      BY <2>5, <3>1
  <2>6. CASE k = i \/ l = i
    BY <2>1, <2>6
  <2>7. QED
    BY <2>2, <2>3, <2>4, <2>5, <2>6
<1>14. \A k \in 1 .. m + 1 : /\ 1 <= g[k].first /\ g[k].last < Limit
                             /\ g[k].first <= g[k].last + 1
                             /\ g[k].service # System => g[k].first <= g[k].last
  <2>1. e.first <= e.last + 1
    BY <1>5
  <2> TAKE k \in 1 .. m + 1
  <2>2. CASE k < i
    BY <1>3, <1>6, <1>11, <2>2
  <2>3. CASE k = i
    BY <1>3, <1>5, <1>9, <1>10, <2>1, <2>3
  <2>4. CASE k > i
    BY <1>3, <1>6, <1>11, <2>4
  <2>5. QED
    BY <2>2, <2>3, <2>4
<1>15. WellPlaced(g)
  BY <1>3, <1>4, <1>12, <1>13, <1>14 DEF WellPlaced
<1>16. Entries(g) = Entries(all) \cup {e}
  <2>1. \A k \in 1 .. m + 1 : g[k] \in Entries(all) \cup {e}
    <3> TAKE k \in 1 .. m + 1
    <3>1. \A l \in 1 .. m : all[l] \in Entries(all)
      BY <1>2 DEF Entries, m
    <3>2. CASE k < i
      BY <1>3, <1>11, <3>1, <3>2
    <3>3. CASE k = i
      BY <1>3, <3>3
    <3>4. CASE k > i
      BY <1>3, <1>11, <3>1, <3>4
    <3>5. QED
      BY <3>2, <3>3, <3>4
  <2>2. \A k \in 1 .. m : \E l \in 1 .. m + 1 : g[l] = all[k]
    <3> TAKE k \in 1 .. m
    <3>1. k \in 1 .. m + 1 /\ k + 1 \in 1 .. m + 1
      BY <1>2 DEF m
    <3>2. CASE k < i
      BY <1>3, <3>1, <3>2
    <3>3. CASE k >= i
      <4>1. k + 1 > i /\ (k + 1) - 1 = k /\ k + 1 # i
        BY <3>3
      <4>2. g[k + 1] = all[k]
        BY <1>3, <3>1, <4>1
      <4>3. QED
        BY <3>1, <4>2
    <3>4. QED
      BY <3>2, <3>3
  <2>3. g[i] = e /\ i \in 1 .. m + 1
    BY <1>3 DEF m
  <2>4. QED
    BY <1>2, <1>4, <2>1, <2>2, <2>3 DEF Entries, m
<1>17. QED
  BY <1>1, <1>3, <1>15, <1>16 DEF e, g, m

LEMMA HandlesNeeded ==
  ASSUME NEW s \in Service
  PROVE  NumberOfHandles(s) \in Nat /\ NumberOfHandles(s) >= 4
<1>1. Cardinality(Includes[s]) \in Nat
  BY DbAssumption, FS_CardinalityType
<1>2. QED
  BY <1>1 DEF NumberOfHandles

\* The service s has been put into all, which is g now.
Added(all, g, s) ==
  /\ WellPlaced(g) /\ Len(g) = Len(all) + 1
  /\ \E e \in Entry : e.service = s /\ Entries(g) = Entries(all) \cup {e}

\* A service finds a place, or all stays as it is.
LEMMA PlaceDoes ==
  ASSUME NEW all, WellPlaced(all), NEW wish \in Wish, wish.service \notin Services(all)
  PROVE  Place(all, wish) = all \/ Added(all, Place(all, wish), wish.service)
<1> DEFINE n == NumberOfHandles(wish.service)
           s == wish.service
           At(i, first) == InsertAt(all, i, [service |-> s, first |-> first, last |-> first + n - 1])
           gaps == 1 .. Len(all) + 1
           asked == {i \in gaps : wish.startHandle # 0 /\ HasRoom(all, i, wish.startHandle, n)}
           open == {i \in gaps : HasRoom(all, i, GapStart(all, i), n)}
<1>1. s \in Service \ Services(all) /\ wish.startHandle \in Nat /\ n \in Nat \ {0}
  <2>1. s \in Service /\ wish.startHandle \in Nat
    BY DbAssumption DEF Wish
  <2>2. n \in Nat /\ n >= 4
    BY <2>1, HandlesNeeded
  <2> HIDE DEF n
  <2>3. QED
    BY <2>1, <2>2
<1>2. ASSUME NEW i \in gaps, NEW first \in Nat, HasRoom(all, i, first, n)
      PROVE  Added(all, At(i, first), s)
  <2> DEFINE e == [service |-> s, first |-> first, last |-> first + n - 1]
  <2>1. /\ e \in Entry /\ WellPlaced(At(i, first)) /\ Len(At(i, first)) = Len(all) + 1
        /\ Entries(At(i, first)) = Entries(all) \cup {e}
    BY <1>1, <1>2, PutDoes
  <2>2. e.service = s
    OBVIOUS
  <2>3. QED
    BY <2>1, <2>2 DEF Added
<1>3. Place(all, wish) = CASE asked # {} -> At(Min(asked), wish.startHandle)
                           [] asked = {} /\ open # {} -> At(Min(open), GapStart(all, Min(open)))
                           [] OTHER -> all
  BY DEF Place
<1>4. asked \in SUBSET Nat /\ open \in SUBSET Nat
  BY SoundEntries
<1>5. \A i \in gaps : GapStart(all, i) \in Nat
  <2> TAKE i \in gaps
  <2>1. CASE i = 1
    BY <2>1 DEF GapStart
  <2>2. CASE i # 1
    <3>1. i - 1 \in DOMAIN all
      BY <2>2, SoundEntries
    <3>2. all[i - 1] \in Entry
      BY <3>1, SoundEntries DEF Entries
    <3>3. QED
      BY <2>2, <3>2 DEF GapStart, Entry
  <2>3. QED
    BY <2>1, <2>2
<1>6. CASE asked # {}
  <2>1. Min(asked) \in asked
    BY <1>4, <1>6, MinProperties
  <2>2. Added(all, At(Min(asked), wish.startHandle), s)
    BY <1>1, <1>2, <2>1
  <2> HIDE DEF asked, open, At
  <2>3. QED
    BY <1>3, <1>6, <2>2
<1>7. CASE asked = {} /\ open # {}
  <2>1. Min(open) \in open
    BY <1>4, <1>7, MinProperties
  <2>2. Added(all, At(Min(open), GapStart(all, Min(open))), s)
    BY <1>2, <1>5, <2>1
  <2> HIDE DEF asked, open, At
  <2>3. QED
    BY <1>3, <1>7, <2>2
<1>8. CASE asked = {} /\ open = {}
  <2> HIDE DEF asked, open, At
  <2>1. QED
    BY <1>3, <1>8
<1>9. QED
  BY <1>6, <1>7, <1>8

\* Without one of its entries a sequence of services is sound.
LEMMA WithoutDoes ==
  ASSUME NEW all, WellPlaced(all), NEW i \in DOMAIN all
  PROVE  WellPlaced(RemoveAt(all, i)) /\ Entries(RemoveAt(all, i)) = Entries(all) \ {all[i]}
<1> DEFINE g == RemoveAt(all, i)
           m == Len(all)
<1>1. DOMAIN all = 1 .. m /\ m \in Nat /\ all \in Seq(Entry)
  BY SoundEntries DEF WellPlaced
<1>2. /\ g \in Seq(Entry) /\ Len(g) = m - 1
      /\ \A k \in 1 .. m - 1 : g[k] = IF k < i THEN all[k] ELSE all[k + 1]
  BY <1>1, RemoveAtProperties
<1>3. DOMAIN g = 1 .. m - 1
  BY <1>1, <1>2, LenProperties
<1> HIDE DEF g, m

\* The position an entry had.
<1> DEFINE from(k) == IF k < i THEN k ELSE k + 1
<1>4. \A k \in 1 .. m - 1 : from(k) \in 1 .. m /\ from(k) # i /\ g[k] = all[from(k)]
  BY <1>1, <1>2
<1>5. \A k, l \in 1 .. m - 1 : /\ k < l => from(k) < from(l)
                               /\ from(k) = from(l) => k = l
  BY <1>1
<1>6. \A k \in 1 .. m : k # i => \E l \in 1 .. m - 1 : from(l) = k
  <2> TAKE k \in 1 .. m
  <2> HAVE k # i
  <2>1. CASE k < i
    BY <1>1, <2>1
  <2>2. CASE k > i
    <3>1. k - 1 \in 1 .. m - 1 /\ from(k - 1) = k
      BY <1>1, <2>2
    <3>2. QED
      BY <3>1
  <2>3. QED
    BY <1>1, <2>1, <2>2
<1> HIDE DEF from
<1>7. WellPlaced(g)
  BY <1>1, <1>2, <1>3, <1>4, <1>5 DEF WellPlaced
<1>8. \A k \in 1 .. m : all[k] = all[i] => k = i
  BY <1>1 DEF WellPlaced
<1>9. Entries(g) = Entries(all) \ {all[i]}
  <2>1. \A k \in 1 .. m - 1 : g[k] \in Entries(all) /\ g[k] # all[i]
    BY <1>1, <1>4, <1>8 DEF Entries
  <2>2. \A k \in 1 .. m : k # i => \E l \in 1 .. m - 1 : g[l] = all[k]
    BY <1>4, <1>6
  <2>3. \A e \in Entries(g) : e \in Entries(all) \ {all[i]}
    BY <1>3, <2>1 DEF Entries
  <2>4. \A e \in Entries(all) \ {all[i]} : e \in Entries(g)
    BY <1>1, <1>3, <2>2 DEF Entries
  <2>5. QED
    BY <2>3, <2>4
<1>10. QED
  BY <1>7, <1>9 DEF g

LEMMA InDbIs ==
  /\ InDb = Services(allServices) \ {System}
  /\ WellPlaced(allServices) => InDb \in SUBSET Service
<1>1. InDb = Services(allServices) \ {System}
  BY DEF InDb, Services, Entries
<1>2. ASSUME WellPlaced(allServices)
      PROVE  InDb \in SUBSET Service
  BY <1>1, <1>2, SoundEntries DEF Services, Entry
<1>3. QED
  BY <1>1, <1>2

\* The new services of a call are in g, next to those there were.
Joined(g, wishes) ==
  /\ WellPlaced(g)
  /\ \E new \in [DOMAIN wishes -> Entry] :
       /\ \A i \in DOMAIN wishes : new[i].service = wishes[i].service
       /\ Entries(g) = Entries(allServices) \cup {new[i] : i \in DOMAIN wishes}

\* The calls there are.
Call == {<<w>> : w \in Wish} \cup {<<w, x>> : w \in Wish, x \in Wish}
AsksFor(wishes) == {wishes[i].service : i \in DOMAIN wishes}
Succeeds(wishes) == Len(Placed(wishes)) = Len(allServices) + Len(wishes)

LEMMA PlacedDoes ==
  ASSUME WellPlaced(allServices), NEW wishes \in Call, AsksFor(wishes) \cap InDb = {},
         Cardinality(AsksFor(wishes)) = Len(wishes), Succeeds(wishes)
  PROVE  Joined(Placed(wishes), wishes)
<1>1. Len(allServices) \in Nat
  BY SoundEntries
<1>2. \A i \in DOMAIN wishes : wishes[i].service \notin Services(allServices)
  <2>1. \A i \in DOMAIN wishes : wishes[i].service \in Service /\ wishes[i].service \in AsksFor(wishes)
    <3>1. \A i \in DOMAIN wishes : wishes[i] \in Wish
      BY DEF Call
    <3>2. QED
      BY <3>1 DEF AsksFor, Wish
  <2>2. \A i \in DOMAIN wishes : wishes[i].service # System
    BY <2>1, DbAssumption
  <2>3. QED
    BY <2>1, <2>2, InDbIs
<1>3. CASE \E w \in Wish : wishes = <<w>>
  <2>1. PICK w \in Wish : wishes = <<w>>
    BY <1>3
  <2>2. Len(wishes) = 1 /\ DOMAIN wishes = {1} /\ wishes[1] = w
    BY <2>1
  <2>3. Placed(wishes) = Place(allServices, w) /\ Len(Placed(wishes)) = Len(allServices) + 1
    BY <2>2 DEF Placed, Succeeds
  <2>4. Added(allServices, Placed(wishes), w.service)
    BY <1>1, <1>2, <2>2, <2>3, PlaceDoes
  <2>5. PICK e \in Entry : e.service = w.service
                          /\ Entries(Placed(wishes)) = Entries(allServices) \cup {e}
    BY <2>4 DEF Added
  <2> DEFINE new == [i \in DOMAIN wishes |-> e]
  <2>6. new \in [DOMAIN wishes -> Entry] /\ {new[i] : i \in DOMAIN wishes} = {e}
    BY <2>2
  <2>7. \A i \in DOMAIN wishes : new[i].service = wishes[i].service
    BY <2>2, <2>5
  <2> HIDE DEF new
  <2>8. QED
    BY <2>4, <2>5, <2>6, <2>7 DEF Joined, Added
<1>4. CASE \E w, x \in Wish : wishes = <<w, x>>
  <2>1. PICK w \in Wish, x \in Wish : wishes = <<w, x>>
    BY <1>4
  <2>2. Len(wishes) = 2 /\ DOMAIN wishes = {1, 2} /\ wishes[1] = w /\ wishes[2] = x
    BY <2>1
  <2> DEFINE one == Place(allServices, w)
  <2>3. Placed(wishes) = Place(one, x) /\ Len(Placed(wishes)) = Len(allServices) + 2
    BY <2>2 DEF Placed, Succeeds
  <2>4. w.service # x.service
    <3>1. SUFFICES ASSUME w.service = x.service PROVE FALSE
      OBVIOUS
    <3>2. AsksFor(wishes) = {w.service}
      BY <2>2, <3>1 DEF AsksFor
    <3>3. QED
      BY <2>2, <3>2, FS_Singleton
  <2>5. one = allServices \/ Added(allServices, one, w.service)
    BY <1>2, <2>2, PlaceDoes
  <2> HIDE DEF one
  <2>6. Added(allServices, one, w.service)
    <3>1. SUFFICES ASSUME one = allServices PROVE FALSE
      BY <2>5
    <3>2. Place(allServices, x) = allServices \/ Added(allServices, Place(allServices, x), x.service)
      BY <1>2, <2>2, PlaceDoes
    <3>3. QED
      BY <1>1, <2>3, <3>1, <3>2 DEF Added
  <2>7. PICK e \in Entry : e.service = w.service /\ Entries(one) = Entries(allServices) \cup {e}
    BY <2>6 DEF Added
  <2>8. WellPlaced(one) /\ Len(one) = Len(allServices) + 1
    BY <2>6 DEF Added
  <2>9. x.service \notin Services(one)
    BY <1>2, <2>2, <2>4, <2>7 DEF Services
  <2>10. Place(one, x) = one \/ Added(one, Place(one, x), x.service)
    BY <2>8, <2>9, PlaceDoes
  <2>11. Added(one, Placed(wishes), x.service)
    BY <1>1, <2>3, <2>8, <2>10
  <2>12. PICK f \in Entry : f.service = x.service /\ Entries(Placed(wishes)) = Entries(one) \cup {f}
    BY <2>11 DEF Added
  <2> DEFINE new == [i \in DOMAIN wishes |-> IF i = 1 THEN e ELSE f]
  <2>13. new \in [DOMAIN wishes -> Entry] /\ {new[i] : i \in DOMAIN wishes} = {e, f}
    BY <2>2
  <2>14. \A i \in DOMAIN wishes : new[i].service = wishes[i].service
    BY <2>2, <2>7, <2>12
  <2> HIDE DEF new
  <2>15. Entries(Placed(wishes)) = Entries(allServices) \cup {e, f}
    BY <2>7, <2>12
  <2>16. QED
    BY <2>11, <2>13, <2>14, <2>15 DEF Joined, Added
<1>5. QED
  BY <1>3, <1>4 DEF Call

-----------------------------------------------------------------------------
(* The services stay in order. *)

LEMMA SoundInit == DbInit => WellPlaced(allServices)
<1> SUFFICES ASSUME DbInit PROVE WellPlaced(allServices)
  OBVIOUS
<1>1. allServices = <<[service |-> System, first |-> 1, last |-> BuiltIn]>>
  BY DEF DbInit
<1>2. BuiltIn \in Nat /\ BuiltIn < Limit
  BY DbAssumption
<1>3. allServices \in Seq(Entry) /\ DOMAIN allServices = {1}
  BY <1>1, <1>2 DEF Entry
<1>4. QED
  BY <1>1, <1>2, <1>3 DEF WellPlaced

\* What a call of addServices does to the services.
LEMMA AddDoes ==
  ASSUME WellPlaced(allServices), NEW wishes \in Call, AddServices(wishes)
  PROVE  /\ AsksFor(wishes) \cap InDb = {}
         /\ \/ Succeeds(wishes) /\ Joined(allServices', wishes)
            \/ ~Succeeds(wishes) /\ allServices' = allServices
<1>1. AsksFor(wishes) \cap InDb = {} /\ Cardinality(AsksFor(wishes)) = Len(wishes)
  BY DEF AddServices, AsksFor
<1>2. allServices' = IF Succeeds(wishes) THEN Placed(wishes) ELSE allServices
  BY DEF AddServices, Succeeds, Failed
<1>3. QED
  BY <1>1, <1>2, PlacedDoes

\* What a call of removeService does.
LEMMA RemoveDoes ==
  ASSUME WellPlaced(allServices), NEW s \in Service, RemoveService(s)
  PROVE  /\ s \in InDb /\ EntryOf(allServices, s) \in Entries(allServices)
         /\ WellPlaced(allServices')
         /\ Entries(allServices') = Entries(allServices) \ {EntryOf(allServices, s)}
<1>1. s \in InDb /\ s \in Services(allServices)
  BY InDbIs DEF RemoveService
<1> DEFINE i == CHOOSE i \in DOMAIN allServices : allServices[i].service = s
<1>2. i \in DOMAIN allServices /\ allServices[i].service = s
  BY <1>1 DEF Services, Entries
<1>3. EntryOf(allServices, s) = allServices[i]
  BY DEF EntryOf
<1>4. allServices' = RemoveAt(allServices, i)
  BY DEF RemoveService
<1> HIDE DEF i
<1>5. QED
  BY <1>1, <1>2, <1>3, <1>4, WithoutDoes DEF Entries

LEMMA JoinedServices ==
  ASSUME WellPlaced(allServices), NEW g, NEW wishes, Joined(g, wishes)
  PROVE  /\ Services(g) = Services(allServices) \cup AsksFor(wishes)
         /\ \A s \in Services(allServices) : EntryOf(g, s) = EntryOf(allServices, s)
<1>1. PICK new \in [DOMAIN wishes -> Entry] :
        /\ \A i \in DOMAIN wishes : new[i].service = wishes[i].service
        /\ Entries(g) = Entries(allServices) \cup {new[i] : i \in DOMAIN wishes}
  BY DEF Joined
<1>2. \A s \in Services(allServices) : EntryOf(g, s) = EntryOf(allServices, s)
  <2> TAKE s \in Services(allServices)
  <2>1. PICK e \in Entries(allServices) : e.service = s
    BY DEF Services
  <2>2. EntryOf(allServices, s) = e
    BY <2>1, EntryOfIs
  <2>3. EntryOf(g, s) = e
    BY <1>1, <2>1, EntryOfIs DEF Joined
  <2>4. QED
    BY <2>2, <2>3
<1>3. QED
  BY <1>1, <1>2 DEF Services, AsksFor

\* The steps there are.
LEMMA DbSteps ==
  ASSUME DbNext
  PROVE  \/ \E wishes \in Call : AddServices(wishes)
         \/ \E s \in Service : RemoveService(s)
         \/ \E p \in Peer : Connect(p)
         \/ \E p \in Peer : Disconnect(p)
         \/ \E p \in Peer : OnBonded(p)
         \/ \E p \in Peer : RemoveBond(p)
         \/ \E p \in Peer, h \in Handle, v \in 0 .. 3 : WriteCccd(p, h, v)
<1>1. CASE \E w \in Wish : AddServices(<<w>>) \/ \E x \in Wish : AddServices(<<w, x>>)
  <2>1. \A w \in Wish : <<w>> \in Call /\ \A x \in Wish : <<w, x>> \in Call
    BY DEF Call
  <2>2. \E wishes \in Call : AddServices(wishes)
    BY <1>1, <2>1
  <2>3. QED
    BY <2>2
<1>2. CASE \E p \in Peer : Connect(p) \/ Disconnect(p) \/ OnBonded(p) \/ RemoveBond(p)
  BY <1>2
<1>3. QED
  BY <1>1, <1>2 DEF DbNext

LEMMA SoundStep ==
  ASSUME WellPlaced(allServices), [DbNext]_dbVars
  PROVE  WellPlaced(allServices')
<1>1. ASSUME NEW wishes \in Call, AddServices(wishes) PROVE WellPlaced(allServices')
  BY <1>1, AddDoes DEF Joined
<1>2. ASSUME NEW s \in Service, RemoveService(s) PROVE WellPlaced(allServices')
  BY <1>2, RemoveDoes
<1>3. CASE UNCHANGED allServices
  BY <1>3
<1>4. CASE UNCHANGED dbVars
  BY <1>3, <1>4 DEF dbVars
<1>5. ASSUME NEW p \in Peer, Connect(p) \/ Disconnect(p) \/ OnBonded(p) \/ RemoveBond(p)
      PROVE  UNCHANGED allServices
  BY <1>5 DEF Connect, Disconnect, OnBonded, RemoveBond
<1>6. ASSUME NEW p \in Peer, NEW h \in Handle, NEW v \in 0 .. 3, WriteCccd(p, h, v)
      PROVE  UNCHANGED allServices
  BY <1>6 DEF WriteCccd
<1>7. QED
  BY <1>1, <1>2, <1>3, <1>4, <1>5, <1>6, DbSteps

-----------------------------------------------------------------------------
(* The application and the subscriptions. *)

DbTypes ==
  /\ cccds \in [Service -> [Peer -> -1 .. 3]]
  /\ told \in [Service -> [Peer -> 0 .. 3]]
  /\ wrote \in [Service -> [Peer -> 0 .. 3]]
  /\ stored \in [Peer -> [Handle -> 0 .. 3]]
  /\ up \in SUBSET Peer /\ bonded \in SUBSET Peer
  /\ dbBudget \in [adds : Nat, removals : Nat, links : Nat, writes : Nat, bonds : BOOLEAN]

\* No value is kept of a connection that has gone, and the application knows the values.
KnownInv ==
  /\ WellPlaced(allServices)
  /\ DbTypes
  /\ \A s \in InDb, p \in Peer \ up : cccds[s][p] = -1
  /\ ApplicationKnowsSubscribers

\* Each operation takes one from the budget.
LEMMA Spent ==
  ASSUME DbTypes,
         \/ dbBudget.adds > 0 /\ dbBudget' = [dbBudget EXCEPT !.adds = @ - 1]
         \/ dbBudget.removals > 0 /\ dbBudget' = [dbBudget EXCEPT !.removals = @ - 1]
         \/ dbBudget.links > 0 /\ dbBudget' = [dbBudget EXCEPT !.links = @ - 1]
         \/ dbBudget.writes > 0 /\ dbBudget' = [dbBudget EXCEPT !.writes = @ - 1]
  PROVE  dbBudget' \in [adds : Nat, removals : Nat, links : Nat, writes : Nat, bonds : BOOLEAN]
<1>1. dbBudget \in [adds : Nat, removals : Nat, links : Nat, writes : Nat, bonds : BOOLEAN]
  BY DEF DbTypes
<1>2. CASE dbBudget.adds > 0 /\ dbBudget' = [dbBudget EXCEPT !.adds = @ - 1]
  <2>1. dbBudget.adds - 1 \in Nat
    BY <1>1, <1>2
  <2>2. QED
    BY <1>1, <1>2, <2>1
<1>3. CASE dbBudget.removals > 0 /\ dbBudget' = [dbBudget EXCEPT !.removals = @ - 1]
  <2>1. dbBudget.removals - 1 \in Nat
    BY <1>1, <1>3
  <2>2. QED
    BY <1>1, <1>3, <2>1
<1>4. CASE dbBudget.links > 0 /\ dbBudget' = [dbBudget EXCEPT !.links = @ - 1]
  <2>1. dbBudget.links - 1 \in Nat
    BY <1>1, <1>4
  <2>2. QED
    BY <1>1, <1>4, <2>1
<1>5. CASE dbBudget.writes > 0 /\ dbBudget' = [dbBudget EXCEPT !.writes = @ - 1]
  <2>1. dbBudget.writes - 1 \in Nat
    BY <1>1, <1>5
  <2>2. QED
    BY <1>1, <1>5, <2>1
<1>6. QED
  BY <1>2, <1>3, <1>4, <1>5

LEMMA ValueOfIs ==
  ASSUME DbTypes, NEW s \in Service, NEW p \in Peer
  PROVE  /\ ValueOf(s, p) \in 0 .. 3
         /\ ValueOf(s, p) = IF cccds[s][p] = -1 THEN 0 ELSE cccds[s][p]
<1>1. cccds[s][p] \in -1 .. 3
  BY DEF DbTypes
<1>2. QED
  BY <1>1 DEF ValueOf

\* A change of the values of one peer.
LEMMA CccdsInEach ==
  ASSUME WellPlaced(allServices), NEW f \in [Service -> [Peer -> -1 .. 3]], NEW p \in Peer,
         NEW value, \A s \in InDb : value[s] \in -1 .. 3
  PROVE  /\ InEach(f, p, value) \in [Service -> [Peer -> -1 .. 3]]
         /\ \A s \in InDb : InEach(f, p, value)[s][p] = value[s]
         /\ \A s \in Service, q \in Peer : q # p => InEach(f, p, value)[s][q] = f[s][q]
<1>1. \A s \in InDb : [f[s] EXCEPT ![p] = value[s]] \in [Peer -> -1 .. 3] /\ s \in Service
  BY InDbIs
<1>2. QED
  BY <1>1 DEF InEach

LEMMA ToldInEach ==
  ASSUME WellPlaced(allServices), NEW f \in [Service -> [Peer -> 0 .. 3]], NEW p \in Peer,
         NEW value, \A s \in InDb : value[s] \in 0 .. 3
  PROVE  /\ InEach(f, p, value) \in [Service -> [Peer -> 0 .. 3]]
         /\ \A s \in InDb : InEach(f, p, value)[s][p] = value[s]
         /\ \A s \in Service, q \in Peer : q # p => InEach(f, p, value)[s][q] = f[s][q]
<1>1. \A s \in InDb : [f[s] EXCEPT ![p] = value[s]] \in [Peer -> 0 .. 3] /\ s \in Service
  BY InDbIs
<1>2. QED
  BY <1>1 DEF InEach

LEMMA CccdOfIs ==
  ASSUME WellPlaced(allServices)
  PROVE  /\ \A s \in InDb : CccdOf(s) \in Handle
         /\ \A s, t \in InDb : CccdOf(s) = CccdOf(t) => s = t
<1>1. \A s \in InDb : s \in Services(allServices) /\ s \in Service
  BY InDbIs
<1>2. \A s \in InDb : /\ EntryOf(allServices, s) \in Entries(allServices)
                      /\ EntryOf(allServices, s).service = s
                      /\ CccdOf(s) \in Of(EntryOf(allServices, s))
  BY <1>1, ServicesIn, SoundEntries DEF CccdOf
<1>3. QED
  BY <1>2, SoundEntries

LEMMA KnownInit == DbInit => KnownInv
<1> SUFFICES ASSUME DbInit PROVE KnownInv
  OBVIOUS
<1>1. WellPlaced(allServices)
  BY SoundInit
<1>2. DbTypes
  BY DbAssumption DEF DbInit, DbTypes
<1>3. InDb \in SUBSET Service
  BY <1>1, InDbIs
<1>4. \A s \in InDb, p \in Peer : cccds[s][p] = -1 /\ told[s][p] = 0 /\ p \notin up
  BY <1>3 DEF DbInit
<1>5. QED
  BY <1>1, <1>2, <1>4 DEF KnownInv, ApplicationKnowsSubscribers

\* In a step that changes no service, only the subscriptions matter.
LEMMA KnownAfter ==
  ASSUME KnownInv, UNCHANGED allServices, DbTypes',
         \A s \in InDb, p \in Peer : p \notin up' => cccds'[s][p] = -1 /\ told'[s][p] = 0,
         \A s \in InDb, p \in up' : told'[s][p] = IF cccds'[s][p] = -1 THEN 0 ELSE cccds'[s][p]
  PROVE  KnownInv'
<1>1. InDb' = InDb /\ WellPlaced(allServices')
  BY DEF InDb, KnownInv
<1>2. QED
  BY <1>1 DEF KnownInv, ApplicationKnowsSubscribers, ValueOf, DbTypes

\* What KnownInv says of one subscription.
LEMMA KnownValue ==
  ASSUME KnownInv, NEW s \in InDb, NEW p \in Peer
  PROVE  /\ s \in Service /\ cccds[s][p] \in -1 .. 3
         /\ p \notin up => cccds[s][p] = -1 /\ told[s][p] = 0
         /\ p \in up => told[s][p] = IF cccds[s][p] = -1 THEN 0 ELSE cccds[s][p]
<1>1. s \in Service
  BY InDbIs DEF KnownInv
<1>2. QED
  BY <1>1 DEF KnownInv, ApplicationKnowsSubscribers, ValueOf, DbTypes

LEMMA AddKnown ==
  ASSUME KnownInv, NEW wishes \in Call, AddServices(wishes)
  PROVE  KnownInv'
<1> DEFINE ids == AsksFor(wishes)
           ok == Succeeds(wishes)
<1>1. /\ cccds' = [s \in Service |-> IF ok /\ s \in ids THEN [p \in Peer |-> -1] ELSE cccds[s]]
      /\ told' = [s \in Service |-> IF ok /\ s \in ids THEN [p \in Peer |-> 0] ELSE told[s]]
      /\ wrote' = [s \in Service |-> IF ok /\ s \in ids THEN [p \in Peer |-> 0] ELSE wrote[s]]
      /\ UNCHANGED <<up, bonded, stored>>
      /\ dbBudget.adds > 0 /\ dbBudget' = [dbBudget EXCEPT !.adds = @ - 1]
  BY DEF AddServices, AsksFor, Succeeds
<1>2. WellPlaced(allServices) /\ DbTypes /\ WellPlaced(allServices')
  BY AddDoes DEF KnownInv, Joined
<1>3. /\ InDb = Services(allServices) \ {System} /\ InDb \in SUBSET Service
      /\ InDb' = Services(allServices') \ {System}
  BY <1>2, InDbIs DEF InDb, Services, Entries
<1>4. InDb' = (IF ok THEN InDb \cup (ids \ {System}) ELSE InDb) /\ InDb' \in SUBSET Service
  <2>1. ids \in SUBSET Service
    BY DEF AsksFor, Call, Wish
  <2>2. QED
    BY <1>2, <1>3, <2>1, AddDoes, JoinedServices
<1> HIDE DEF ids, ok
<1>5. DbTypes'
  <2>1. cccds' \in [Service -> [Peer -> -1 .. 3]]
    BY <1>1, <1>2 DEF DbTypes
  <2>2. told' \in [Service -> [Peer -> 0 .. 3]] /\ wrote' \in [Service -> [Peer -> 0 .. 3]]
    BY <1>1, <1>2 DEF DbTypes
  <2>3. dbBudget' \in [adds : Nat, removals : Nat, links : Nat, writes : Nat, bonds : BOOLEAN]
    BY <1>1, <1>2, Spent
  <2>4. QED
    BY <1>1, <1>2, <2>1, <2>2, <2>3 DEF DbTypes
<1>6. \A s \in InDb', p \in Peer :
        \/ cccds'[s][p] = -1 /\ told'[s][p] = 0
        \/ s \in InDb /\ cccds'[s][p] = cccds[s][p] /\ told'[s][p] = told[s][p]
  BY <1>1, <1>4
<1>7. \A s \in InDb', p \in Peer : /\ p \notin up => cccds'[s][p] = -1 /\ told'[s][p] = 0
                                   /\ p \in up => told'[s][p] =
                                        IF cccds'[s][p] = -1 THEN 0 ELSE cccds'[s][p]
  BY <1>6, KnownValue
<1>8. up' = up /\ up \in SUBSET Peer
  BY <1>1, <1>2 DEF DbTypes
<1>9. QED
  BY <1>2, <1>5, <1>7, <1>8 DEF KnownInv, ApplicationKnowsSubscribers, ValueOf

LEMMA RemoveKnown ==
  ASSUME KnownInv, NEW s \in Service, RemoveService(s)
  PROVE  KnownInv'
<1>1. UNCHANGED <<cccds, up, bonded, stored, told, wrote>>
      /\ dbBudget.removals > 0 /\ dbBudget' = [dbBudget EXCEPT !.removals = @ - 1]
  BY DEF RemoveService
<1>2. /\ WellPlaced(allServices) /\ DbTypes /\ WellPlaced(allServices')
      /\ Services(allServices') \subseteq Services(allServices)
  BY RemoveDoes DEF KnownInv, Services
<1>3. InDb' = Services(allServices') \ {System}
  BY InDbIs DEF InDb, Services, Entries
<1>4. InDb' \in SUBSET InDb
  BY <1>2, <1>3, InDbIs
<1>5. DbTypes'
  <2>1. dbBudget' \in [adds : Nat, removals : Nat, links : Nat, writes : Nat, bonds : BOOLEAN]
    BY <1>1, <1>2, Spent
  <2>2. QED
    BY <1>1, <1>2, <2>1 DEF DbTypes
<1>6. \A t \in InDb', p \in Peer : /\ p \notin up => cccds[t][p] = -1 /\ told[t][p] = 0
                                   /\ p \in up => told[t][p] =
                                        IF cccds[t][p] = -1 THEN 0 ELSE cccds[t][p]
  BY <1>4, KnownValue
<1>7. QED
  BY <1>1, <1>2, <1>5, <1>6 DEF KnownInv, ApplicationKnowsSubscribers, ValueOf, DbTypes

\* What the storage has for a service.
LEMMA StoredIs ==
  ASSUME KnownInv, NEW p \in Peer, NEW s \in InDb
  PROVE  stored[p][CccdOf(s)] \in 0 .. 3
<1>1. CccdOf(s) \in Handle
  BY CccdOfIs DEF KnownInv
<1>2. QED
  BY <1>1 DEF KnownInv, DbTypes

LEMMA ConnectKnown ==
  ASSUME KnownInv, NEW p \in Peer, Connect(p)
  PROVE  KnownInv'
<1>1. /\ UNCHANGED <<allServices, attDb, attDbLength, bonded, stored, wrote>>
      /\ p \notin up /\ up' = up \cup {p}
      /\ dbBudget.links > 0 /\ dbBudget' = [dbBudget EXCEPT !.links = @ - 1]
  BY DEF Connect
<1>2. WellPlaced(allServices) /\ DbTypes
  BY DEF KnownInv
<1>3. CASE p \notin bonded
  <2>1. cccds' = cccds /\ told' = told
    BY <1>3 DEF Connect
  <2>2. DbTypes'
    <3>1. dbBudget' \in [adds : Nat, removals : Nat, links : Nat, writes : Nat, bonds : BOOLEAN]
      BY <1>1, <1>2, Spent
    <3>2. QED
      BY <1>1, <1>2, <2>1, <3>1 DEF DbTypes
  <2>3. QED
    BY <1>1, <2>1, <2>2, KnownValue, KnownAfter DEF DbTypes
<1>4. CASE p \in bonded
  <2> DEFINE read == [s \in InDb |-> stored[p][CccdOf(s)]]
             news == [s \in InDb |-> IF stored[p][CccdOf(s)] # 0
                                     THEN stored[p][CccdOf(s)] ELSE told[s][p]]
  <2>1. cccds' = InEach(cccds, p, read) /\ told' = InEach(told, p, news)
    BY <1>4 DEF Connect
  <2>2. \A s \in InDb : /\ read[s] \in 0 .. 3 /\ read[s] \in -1 .. 3 /\ read[s] # -1
                        /\ news[s] = read[s] /\ news[s] \in 0 .. 3
    BY <1>1, StoredIs, KnownValue
  <2> HIDE DEF read, news
  <2>3. /\ cccds' \in [Service -> [Peer -> -1 .. 3]]
        /\ \A s \in InDb : cccds'[s][p] = read[s]
        /\ \A s \in Service, q \in Peer : q # p => cccds'[s][q] = cccds[s][q]
    <3>1. cccds \in [Service -> [Peer -> -1 .. 3]] /\ \A s \in InDb : read[s] \in -1 .. 3
      BY <1>2, <2>2 DEF DbTypes
    <3>2. QED
      BY <1>2, <2>1, <3>1, CccdsInEach
  <2>4. /\ told' \in [Service -> [Peer -> 0 .. 3]]
        /\ \A s \in InDb : told'[s][p] = news[s]
        /\ \A s \in Service, q \in Peer : q # p => told'[s][q] = told[s][q]
    <3>1. told \in [Service -> [Peer -> 0 .. 3]] /\ \A s \in InDb : news[s] \in 0 .. 3
      BY <1>2, <2>2 DEF DbTypes
    <3>2. QED
      BY <1>2, <2>1, <3>1, ToldInEach
  <2>5. DbTypes'
    <3>1. dbBudget' \in [adds : Nat, removals : Nat, links : Nat, writes : Nat, bonds : BOOLEAN]
      BY <1>1, <1>2, Spent
    <3>2. QED
      BY <1>1, <1>2, <2>3, <2>4, <3>1 DEF DbTypes
  <2>6. ASSUME NEW s \in InDb, NEW q \in Peer
        PROVE  /\ q \notin up' => cccds'[s][q] = -1 /\ told'[s][q] = 0
               /\ q \in up' => told'[s][q] = IF cccds'[s][q] = -1 THEN 0 ELSE cccds'[s][q]
    <3>1. CASE q = p
      BY <1>1, <2>2, <2>3, <2>4, <3>1
    <3>2. CASE q # p
      <4>1. cccds'[s][q] = cccds[s][q] /\ told'[s][q] = told[s][q] /\ (q \in up' <=> q \in up)
        BY <1>1, <2>3, <2>4, <3>2, KnownValue
      <4>2. QED
        BY <4>1, KnownValue
    <3>3. QED
      BY <3>1, <3>2
  <2>7. QED
    BY <1>1, <2>5, <2>6, KnownAfter DEF DbTypes
<1>5. QED
  BY <1>3, <1>4

LEMMA DisconnectKnown ==
  ASSUME KnownInv, NEW p \in Peer, Disconnect(p)
  PROVE  /\ KnownInv'
         /\ \A s \in InDb : wrote'[s][p] = IF p \in bonded THEN wrote[s][p] ELSE 0
         /\ \A s \in InDb, q \in Peer : q # p => /\ wrote'[s][q] = wrote[s][q]
                                              /\ cccds'[s][q] = cccds[s][q]
<1>1. /\ UNCHANGED <<allServices, attDb, attDbLength, bonded, stored, dbBudget>>
      /\ p \in up /\ up' = up \ {p}
      /\ wrote' = IF p \in bonded THEN wrote ELSE InEach(wrote, p, [s \in InDb |-> 0])
  BY DEF Disconnect
<1>2. WellPlaced(allServices) /\ DbTypes
  BY DEF KnownInv
<1> DEFINE gone == [s \in InDb |-> -1]
           none == [s \in InDb |-> 0]
           news == [s \in InDb |-> IF ValueOf(s, p) # 0 THEN 0 ELSE told[s][p]]
<1>3. cccds' = InEach(cccds, p, gone) /\ told' = InEach(told, p, news)
  BY DEF Disconnect, ToldAfterDisconnect
<1>4. \A s \in InDb : gone[s] = -1 /\ gone[s] \in -1 .. 3 /\ none[s] = 0 /\ none[s] \in 0 .. 3
                     /\ news[s] = 0 /\ news[s] \in 0 .. 3
  BY <1>1, KnownValue DEF ValueOf
<1>5. wrote' = IF p \in bonded THEN wrote ELSE InEach(wrote, p, none)
  BY <1>1
<1> HIDE DEF gone, news, none
<1>6. /\ cccds' \in [Service -> [Peer -> -1 .. 3]]
      /\ \A s \in InDb : cccds'[s][p] = -1
      /\ \A s \in Service, q \in Peer : q # p => cccds'[s][q] = cccds[s][q]
  <2>1. cccds \in [Service -> [Peer -> -1 .. 3]] /\ \A s \in InDb : gone[s] \in -1 .. 3
    BY <1>2, <1>4 DEF DbTypes
  <2>2. /\ cccds' \in [Service -> [Peer -> -1 .. 3]]
        /\ \A s \in InDb : cccds'[s][p] = gone[s]
        /\ \A s \in Service, q \in Peer : q # p => cccds'[s][q] = cccds[s][q]
    BY <1>2, <1>3, <2>1, CccdsInEach
  <2>3. QED
    BY <1>4, <2>2
<1>7. /\ told' \in [Service -> [Peer -> 0 .. 3]]
      /\ \A s \in InDb : told'[s][p] = 0
      /\ \A s \in Service, q \in Peer : q # p => told'[s][q] = told[s][q]
  <2>1. told \in [Service -> [Peer -> 0 .. 3]] /\ \A s \in InDb : news[s] \in 0 .. 3
    BY <1>2, <1>4 DEF DbTypes
  <2>2. /\ told' \in [Service -> [Peer -> 0 .. 3]]
        /\ \A s \in InDb : told'[s][p] = news[s]
        /\ \A s \in Service, q \in Peer : q # p => told'[s][q] = told[s][q]
    BY <1>2, <1>3, <2>1, ToldInEach
  <2>3. QED
    BY <1>4, <2>2
<1>8. /\ wrote' \in [Service -> [Peer -> 0 .. 3]]
      /\ \A s \in InDb : wrote'[s][p] = IF p \in bonded THEN wrote[s][p] ELSE 0
      /\ \A s \in Service, q \in Peer : q # p => wrote'[s][q] = wrote[s][q]
  <2>1. CASE p \in bonded
    BY <1>2, <1>5, <2>1 DEF DbTypes
  <2>2. CASE p \notin bonded
    <3>1. /\ InEach(wrote, p, none) \in [Service -> [Peer -> 0 .. 3]]
          /\ \A s \in InDb : InEach(wrote, p, none)[s][p] = none[s]
          /\ \A s \in Service, q \in Peer : q # p => InEach(wrote, p, none)[s][q] = wrote[s][q]
      <4>1. wrote \in [Service -> [Peer -> 0 .. 3]] /\ \A s \in InDb : none[s] \in 0 .. 3
        BY <1>2, <1>4 DEF DbTypes
      <4>2. QED
        BY <1>2, <4>1, ToldInEach
    <3>2. QED
      BY <1>4, <1>5, <2>2, <3>1
  <2>3. QED
    BY <2>1, <2>2
<1>9. DbTypes'
  BY <1>1, <1>2, <1>6, <1>7, <1>8 DEF DbTypes
<1>10. ASSUME NEW s \in InDb, NEW q \in Peer
       PROVE  /\ q \notin up' => cccds'[s][q] = -1 /\ told'[s][q] = 0
              /\ q \in up' => told'[s][q] = IF cccds'[s][q] = -1 THEN 0 ELSE cccds'[s][q]
  <2>1. CASE q = p
    BY <1>1, <1>6, <1>7, <2>1
  <2>2. CASE q # p
    <3>1. cccds'[s][q] = cccds[s][q] /\ told'[s][q] = told[s][q] /\ (q \in up' <=> q \in up)
      BY <1>1, <1>6, <1>7, <2>2, KnownValue
    <3>2. QED
      BY <3>1, KnownValue
  <2>3. QED
    BY <2>1, <2>2
<1>11. KnownInv'
  BY <1>1, <1>9, <1>10, KnownAfter DEF DbTypes
<1>12. \A s \in InDb : s \in Service
  BY KnownValue, <1>1, <1>2 DEF DbTypes
<1>13. QED
  BY <1>6, <1>8, <1>11, <1>12

LEMMA OnBondedKnown ==
  ASSUME KnownInv, NEW p \in Peer, OnBonded(p)
  PROVE  /\ KnownInv'
         /\ \A s \in InDb : stored'[p][CccdOf(s)] = ValueOf(s, p)
         /\ \A h \in Handle : (\A s \in InDb : CccdOf(s) # h) => stored'[p][h] = stored[p][h]
         /\ \A q \in Peer : q # p => stored'[q] = stored[q]
<1>1. /\ UNCHANGED <<allServices, attDb, attDbLength, cccds, up, told, wrote, dbBudget>>
      /\ bonded' = bonded \cup {p} /\ stored' = StoredOnBonding(p)
  BY DEF OnBonded
<1>2. WellPlaced(allServices) /\ DbTypes
  BY DEF KnownInv
<1> DEFINE new == [h \in Handle |-> IF \E s \in InDb : CccdOf(s) = h
                                    THEN ValueOf(CHOOSE s \in InDb : CccdOf(s) = h, p)
                                    ELSE stored[p][h]]
<1>3. stored' = [stored EXCEPT ![p] = new]
  BY <1>1, <1>2 DEF StoredOnBonding, DbTypes
<1>4. \A s \in InDb : ValueOf(s, p) \in 0 .. 3
  BY <1>2, ValueOfIs, InDbIs
<1>5. \A s \in InDb : new[CccdOf(s)] = ValueOf(s, p)
  <2> TAKE s \in InDb
  <2>1. CccdOf(s) \in Handle /\ \A t \in InDb : CccdOf(t) = CccdOf(s) => t = s
    BY <1>2, CccdOfIs
  <2>2. (CHOOSE t \in InDb : CccdOf(t) = CccdOf(s)) = s
    BY <2>1
  <2>3. QED
    BY <2>1, <2>2
<1>6. \A h \in Handle : (\A s \in InDb : CccdOf(s) # h) => new[h] = stored[p][h]
  OBVIOUS
<1>7. new \in [Handle -> 0 .. 3]
  <2>1. \A h \in Handle : new[h] \in 0 .. 3
    BY <1>2, <1>4, <1>5, <1>6 DEF DbTypes
  <2>2. QED
    BY <2>1
<1> HIDE DEF new
<1>8. DbTypes'
  BY <1>1, <1>2, <1>3, <1>7 DEF DbTypes
<1>9. KnownInv'
  BY <1>1, <1>8, KnownValue, KnownAfter DEF DbTypes
<1>10. stored'[p] = new /\ \A q \in Peer : q # p => stored'[q] = stored[q]
  BY <1>2, <1>3 DEF DbTypes
<1>11. QED
  BY <1>5, <1>6, <1>9, <1>10

LEMMA RemoveBondKnown ==
  ASSUME KnownInv, NEW p \in Peer, RemoveBond(p)
  PROVE  KnownInv'
<1>1. DbTypes'
  BY DEF KnownInv, DbTypes, RemoveBond
<1>2. QED
  BY <1>1, KnownValue, KnownAfter DEF RemoveBond, DbTypes

LEMMA WriteKnown ==
  ASSUME KnownInv, NEW p \in Peer, NEW h \in Handle, NEW v \in 0 .. 3, WriteCccd(p, h, v)
  PROVE  KnownInv'
<1>1. /\ UNCHANGED <<allServices, attDb, attDbLength, up, bonded>>
      /\ p \in up /\ attDb[h] \in InDb /\ dbBudget.writes > 0
      /\ dbBudget' = [dbBudget EXCEPT !.writes = @ - 1]
  BY DEF WriteCccd
<1> DEFINE s == attDb[h]
<1>2. s \in Service /\ DbTypes
  BY <1>1, InDbIs DEF KnownInv
<1>3. CASE v \in Allowed[s]
  <2>1. /\ cccds' = [cccds EXCEPT ![s][p] = v] /\ told' = [told EXCEPT ![s][p] = v]
        /\ wrote' = [wrote EXCEPT ![s][p] = v]
        /\ stored' = stored \/ stored' = [stored EXCEPT ![p][h] = v]
    BY <1>3 DEF WriteCccd
  <2> HIDE DEF s
  <2>2. DbTypes'
    <3>1. cccds' \in [Service -> [Peer -> -1 .. 3]]
      BY <1>2, <2>1 DEF DbTypes
    <3>2. told' \in [Service -> [Peer -> 0 .. 3]]
      BY <1>2, <2>1 DEF DbTypes
    <3>3. wrote' \in [Service -> [Peer -> 0 .. 3]]
      BY <1>2, <2>1 DEF DbTypes
    <3>4. stored' \in [Peer -> [Handle -> 0 .. 3]]
      <4>1. stored \in [Peer -> [Handle -> 0 .. 3]]
        BY <1>2 DEF DbTypes
      <4>2. [stored EXCEPT ![p][h] = v] \in [Peer -> [Handle -> 0 .. 3]]
        BY <4>1
      <4>3. QED
        BY <2>1, <4>1, <4>2
    <3>5. dbBudget' \in [adds : Nat, removals : Nat, links : Nat, writes : Nat, bonds : BOOLEAN]
      BY <1>1, <1>2, Spent
    <3>6. QED
      BY <1>1, <1>2, <3>1, <3>2, <3>3, <3>4, <3>5 DEF DbTypes
  <2>3. ASSUME NEW t \in InDb, NEW q \in Peer
        PROVE  /\ q \notin up' => cccds'[t][q] = -1 /\ told'[t][q] = 0
               /\ q \in up' => told'[t][q] = IF cccds'[t][q] = -1 THEN 0 ELSE cccds'[t][q]
    <3>1. CASE t = s /\ q = p
      <4>1. cccds'[t][q] = v /\ told'[t][q] = v
        BY <1>2, <2>1, <3>1 DEF DbTypes
      <4>2. QED
        BY <1>1, <3>1, <4>1
    <3>2. CASE ~(t = s /\ q = p)
      <4>1. cccds'[t][q] = cccds[t][q] /\ told'[t][q] = told[t][q] /\ t \in Service
        BY <1>2, <2>1, <3>2, KnownValue DEF DbTypes
      <4>2. QED
        BY <1>1, <4>1, KnownValue
    <3>3. QED
      BY <3>1, <3>2
  <2>4. QED
    BY <1>1, <2>2, <2>3, KnownAfter DEF DbTypes
<1>4. CASE v \notin Allowed[s]
  <2>1. UNCHANGED <<cccds, stored, told, wrote>>
    BY <1>4 DEF WriteCccd
  <2> HIDE DEF s
  <2>2. DbTypes'
    <3>1. dbBudget' \in [adds : Nat, removals : Nat, links : Nat, writes : Nat, bonds : BOOLEAN]
      BY <1>1, <1>2, Spent
    <3>2. QED
      BY <1>1, <1>2, <2>1, <3>1 DEF DbTypes
  <2>3. QED
    BY <1>1, <2>1, <2>2, KnownValue, KnownAfter DEF DbTypes
<1>5. QED
  BY <1>3, <1>4

LEMMA KnownStep == KnownInv /\ [DbNext]_dbVars => KnownInv'
<1> SUFFICES ASSUME KnownInv, [DbNext]_dbVars PROVE KnownInv'
  OBVIOUS
<1>1. ASSUME UNCHANGED dbVars PROVE KnownInv'
  BY <1>1 DEF KnownInv, dbVars, DbTypes, ApplicationKnowsSubscribers, ValueOf, InDb
<1>2. ASSUME NEW wishes \in Call, AddServices(wishes) PROVE KnownInv'
  BY <1>2, AddKnown
<1>3. QED
  BY <1>1, <1>2, DbSteps, RemoveKnown, ConnectKnown, DisconnectKnown, OnBondedKnown, RemoveBondKnown,
     WriteKnown

\* Services stay in order, and the values kept are those of the peers that are connected.
THEOREM SubscriptionsKept == DbSpec => []KnownInv
<1>1. QED
  BY KnownInit, KnownStep, PTL DEF DbSpec

\* What the application was last told of a subscription is what notifications go by, for
\* any services, peers and bonds, whatever is added, removed or connected again.
THEOREM SubscribersKnown == DbSpec => []ApplicationKnowsSubscribers
<1>1. KnownInv => ApplicationKnowsSubscribers
  BY DEF KnownInv
<1>2. QED
  BY SubscriptionsKept, <1>1, PTL

-----------------------------------------------------------------------------
(* Whose the subscriptions are. *)

\* Services are removed or peers are bonded, not both: what is stored of a service that was
\* removed would be taken for a subscription to the next one at its handles.
NoReuse == \A b \in DbBudgets : b.removals = 0 \/ ~b.bonds

\* The values of connected peers, and those stored of bonded ones, are what they wrote; of
\* the others nothing is left, nor is anything stored for a handle without a service.
OwnInv ==
  /\ SubscriptionsAreThePeers
  /\ \A s \in InDb, p \in bonded : stored[p][CccdOf(s)] = wrote[s][p]
  /\ \A s \in InDb, p \in Peer \ (up \cup bonded) : wrote[s][p] = 0
  /\ \A p \in Peer, h \in Handle :
       stored[p][h] # 0 => p \in bonded /\ \E s \in InDb : CccdOf(s) = h
  /\ dbBudget.removals = 0 \/ (~dbBudget.bonds /\ bonded = {})

LEMMA OwnInit == NoReuse /\ DbInit => OwnInv
<1> SUFFICES ASSUME NoReuse, DbInit PROVE OwnInv
  OBVIOUS
<1>1. InDb \in SUBSET Service
  BY SoundInit, InDbIs
<1>2. QED
  BY <1>1 DEF DbInit, OwnInv, NoReuse, SubscriptionsAreThePeers

\* In a step that changes no service.
LEMMA OwnAfter ==
  ASSUME KnownInv, OwnInv, KnownInv', UNCHANGED <<allServices>>,
         \A s \in InDb, p \in up' : (IF cccds'[s][p] = -1 THEN 0 ELSE cccds'[s][p]) = wrote'[s][p],
         \A s \in InDb, p \in bonded' : stored'[p][CccdOf(s)] = wrote'[s][p],
         \A s \in InDb, p \in Peer : p \notin up' /\ p \notin bonded' => wrote'[s][p] = 0,
         \A p \in Peer, h \in Handle :
           stored'[p][h] # 0 => p \in bonded' /\ \E s \in InDb : CccdOf(s) = h,
         dbBudget'.removals = 0 \/ (~dbBudget'.bonds /\ bonded' = {})
  PROVE  OwnInv'
<1>1. InDb' = InDb /\ \A s \in InDb : CccdOf(s)' = CccdOf(s)
  BY DEF InDb, CccdOf
<1>2. \A s \in InDb' : CccdOf(s)' = CccdOf(s)
  BY <1>1
<1>3. QED
  BY <1>1, <1>2 DEF OwnInv, SubscriptionsAreThePeers, ValueOf

LEMMA OwnValue ==
  ASSUME KnownInv, OwnInv, NEW s \in InDb, NEW p \in Peer
  PROVE  /\ p \in up => (IF cccds[s][p] = -1 THEN 0 ELSE cccds[s][p]) = wrote[s][p]
         /\ p \in bonded => stored[p][CccdOf(s)] = wrote[s][p]
         /\ p \notin up /\ p \notin bonded => wrote[s][p] = 0
BY DEF OwnInv, SubscriptionsAreThePeers, ValueOf

LEMMA AddOwn ==
  ASSUME KnownInv, OwnInv, KnownInv', NEW wishes \in Call, AddServices(wishes)
  PROVE  OwnInv'
<1> DEFINE ids == AsksFor(wishes)
           ok == Succeeds(wishes)
<1>1. /\ cccds' = [s \in Service |-> IF ok /\ s \in ids THEN [p \in Peer |-> -1] ELSE cccds[s]]
      /\ wrote' = [s \in Service |-> IF ok /\ s \in ids THEN [p \in Peer |-> 0] ELSE wrote[s]]
      /\ UNCHANGED <<up, bonded, stored>>
      /\ dbBudget.adds > 0 /\ dbBudget' = [dbBudget EXCEPT !.adds = @ - 1]
  BY DEF AddServices, AsksFor, Succeeds
<1>2. WellPlaced(allServices) /\ DbTypes /\ WellPlaced(allServices') /\ ids \cap InDb = {}
  BY AddDoes DEF KnownInv, Joined
<1>3. /\ InDb = Services(allServices) \ {System} /\ InDb \in SUBSET Service
      /\ InDb' = Services(allServices') \ {System}
  BY <1>2, InDbIs DEF InDb, Services, Entries
<1>4. /\ InDb' = IF ok THEN InDb \cup ids ELSE InDb
      /\ InDb' \in SUBSET Service
      /\ \A s \in InDb : EntryOf(allServices', s) = EntryOf(allServices, s)
  <2>1. ids \in SUBSET Service /\ System \notin Service
    BY DbAssumption DEF AsksFor, Call, Wish
  <2>2. QED
    BY <1>2, <1>3, <2>1, AddDoes, JoinedServices
<1> HIDE DEF ids, ok
<1>5. \A s \in InDb : EntryOf(allServices', s).last = CccdOf(s)
  BY <1>4 DEF CccdOf
<1>6. \A s, t \in InDb' : EntryOf(allServices', s).last = EntryOf(allServices', t).last => s = t
  <2>1. \A s \in InDb' : /\ EntryOf(allServices', s) \in Entries(allServices')
                         /\ EntryOf(allServices', s).service = s
                         /\ EntryOf(allServices', s).last \in Of(EntryOf(allServices', s))
    BY <1>2, <1>3, <1>4, ServicesIn, SoundEntries
  <2>2. QED
    BY <1>2, <2>1, SoundEntries
<1>7. \A s \in InDb' : EntryOf(allServices', s).last \in Handle
  <2>1. \A s \in InDb' : /\ EntryOf(allServices', s) \in Entries(allServices')
                         /\ EntryOf(allServices', s).service = s
    BY <1>2, <1>3, ServicesIn
  <2>2. QED
    BY <1>2, <1>4, <2>1, SoundEntries
<1>8. \A s \in InDb', p \in Peer :
        \/ s \in InDb /\ cccds'[s][p] = cccds[s][p] /\ wrote'[s][p] = wrote[s][p]
        \/ s \notin InDb /\ cccds'[s][p] = -1 /\ wrote'[s][p] = 0
  BY <1>1, <1>2, <1>4
<1>9. \A s \in InDb', p \in bonded : stored[p][EntryOf(allServices', s).last] = wrote'[s][p]
  <2> TAKE s \in InDb', p \in bonded
  <2>0. p \in Peer
    BY <1>2 DEF DbTypes
  <2>1. CASE s \in InDb
    BY <1>5, <1>8, <2>0, <2>1, OwnValue
  <2>2. CASE s \notin InDb
    <3>1. \A t \in InDb : CccdOf(t) # EntryOf(allServices', s).last
      BY <1>4, <1>5, <1>6, <2>2
    <3>2. stored[p][EntryOf(allServices', s).last] = 0
      BY <1>7, <2>0, <3>1 DEF OwnInv
    <3>3. QED
      BY <1>8, <2>0, <2>2, <3>2
  <2>3. QED
    BY <2>1, <2>2
<1>10. \A s \in InDb', p \in up : (IF cccds'[s][p] = -1 THEN 0 ELSE cccds'[s][p]) = wrote'[s][p]
  BY <1>2, <1>8, OwnValue DEF DbTypes
<1>11. \A s \in InDb', p \in Peer \ (up \cup bonded) : wrote'[s][p] = 0
  BY <1>8, OwnValue
<1>12. \A p \in Peer, h \in Handle : stored[p][h] # 0 =>
         p \in bonded /\ \E s \in InDb' : EntryOf(allServices', s).last = h
  BY <1>4, <1>5 DEF OwnInv
<1>13. dbBudget'.removals = 0 \/ (~dbBudget'.bonds /\ bonded = {})
  BY <1>1, <1>2 DEF OwnInv, DbTypes
<1>14. QED
  BY <1>1, <1>9, <1>10, <1>11, <1>12, <1>13 DEF OwnInv, SubscriptionsAreThePeers, ValueOf, CccdOf

LEMMA RemoveOwn ==
  ASSUME KnownInv, OwnInv, NEW s \in Service, RemoveService(s)
  PROVE  OwnInv'
<1>1. /\ UNCHANGED <<cccds, up, bonded, stored, told, wrote>>
      /\ dbBudget.removals > 0 /\ dbBudget' = [dbBudget EXCEPT !.removals = @ - 1]
  BY DEF RemoveService
<1>2. WellPlaced(allServices) /\ DbTypes /\ Services(allServices') \subseteq Services(allServices)
  BY RemoveDoes DEF KnownInv, Services
<1>3. InDb' = Services(allServices') \ {System}
  BY InDbIs DEF InDb, Services, Entries
<1>4. InDb' \in SUBSET InDb
  BY <1>2, <1>3, InDbIs
<1>5. bonded = {} /\ ~dbBudget.bonds
  BY <1>1, <1>2 DEF OwnInv, DbTypes
<1>6. ~dbBudget'.bonds
  BY <1>1, <1>2, <1>5 DEF DbTypes
<1>7. \A t \in InDb', p \in up : (IF cccds[t][p] = -1 THEN 0 ELSE cccds[t][p]) = wrote[t][p]
  BY <1>2, <1>4, OwnValue DEF DbTypes
<1>8. \A t \in InDb', p \in Peer \ (up \cup bonded) : wrote[t][p] = 0
  BY <1>4, OwnValue
<1>9. \A p \in Peer, h \in Handle : stored[p][h] = 0
  BY <1>5 DEF OwnInv
<1>10. QED
  BY <1>1, <1>5, <1>6, <1>7, <1>8, <1>9 DEF OwnInv, SubscriptionsAreThePeers, ValueOf

LEMMA ConnectOwn ==
  ASSUME KnownInv, OwnInv, KnownInv', NEW p \in Peer, Connect(p)
  PROVE  OwnInv'
<1>1. /\ UNCHANGED <<allServices, attDb, attDbLength, bonded, stored, wrote>>
      /\ p \notin up /\ up' = up \cup {p} /\ dbBudget' = [dbBudget EXCEPT !.links = @ - 1]
  BY DEF Connect
<1>2. WellPlaced(allServices) /\ DbTypes
  BY DEF KnownInv
<1> DEFINE read == [s \in InDb |-> stored[p][CccdOf(s)]]
<1>3. cccds' = IF p \in bonded THEN InEach(cccds, p, read) ELSE cccds
  BY DEF Connect
<1>4. \A s \in InDb : read[s] \in 0 .. 3 /\ read[s] \in -1 .. 3 /\ read[s] = stored[p][CccdOf(s)]
  BY StoredIs
<1> HIDE DEF read
<1>0. p \in bonded => /\ \A s \in InDb : cccds'[s][p] = read[s]
                      /\ \A s \in Service, q \in Peer : q # p => cccds'[s][q] = cccds[s][q]
  <2>1. cccds \in [Service -> [Peer -> -1 .. 3]] /\ \A s \in InDb : read[s] \in -1 .. 3
    BY <1>2, <1>4 DEF DbTypes
  <2>2. /\ \A s \in InDb : InEach(cccds, p, read)[s][p] = read[s]
        /\ \A s \in Service, q \in Peer : q # p => InEach(cccds, p, read)[s][q] = cccds[s][q]
    BY <1>2, <2>1, CccdsInEach
  <2>3. QED
    BY <1>3, <2>2
<1>5. \A s \in InDb : IF p \in bonded THEN cccds'[s][p] = read[s] ELSE cccds'[s][p] = -1
  <2>1. CASE p \in bonded
    BY <1>0, <2>1
  <2>2. CASE p \notin bonded
    BY <1>1, <1>3, <2>2, KnownValue
  <2>3. QED
    BY <2>1, <2>2
<1>6. \A s \in InDb, q \in Peer : q # p => cccds'[s][q] = cccds[s][q]
  <2>1. \A s \in InDb : s \in Service
    BY <1>2, InDbIs
  <2>2. QED
    BY <1>0, <1>3, <2>1
<1>7. ASSUME NEW s \in InDb, NEW q \in up'
      PROVE  (IF cccds'[s][q] = -1 THEN 0 ELSE cccds'[s][q]) = wrote'[s][q]
  <2>1. CASE q = p
    BY <1>1, <1>4, <1>5, <2>1, OwnValue
  <2>2. CASE q # p
    <3>1. q \in up /\ q \in Peer
      BY <1>1, <1>2, <2>2 DEF DbTypes
    <3>2. QED
      BY <1>1, <1>6, <2>2, <3>1, OwnValue
  <2>3. QED
    BY <2>1, <2>2
<1>8. dbBudget'.removals = dbBudget.removals /\ dbBudget'.bonds = dbBudget.bonds
  BY <1>1, <1>2 DEF DbTypes
<1>9. \A s \in InDb, q \in bonded : q \in Peer
  BY <1>2 DEF DbTypes
<1>10. QED
  BY <1>1, <1>7, <1>8, <1>9, OwnValue, OwnAfter DEF OwnInv

LEMMA DisconnectOwn ==
  ASSUME KnownInv, OwnInv, NEW p \in Peer, Disconnect(p)
  PROVE  OwnInv'
<1>1. /\ UNCHANGED <<allServices, attDb, attDbLength, bonded, stored, dbBudget>>
      /\ p \in up /\ up' = up \ {p}
  BY DEF Disconnect
<1>2. /\ KnownInv' /\ DbTypes
      /\ \A s \in InDb : wrote'[s][p] = IF p \in bonded THEN wrote[s][p] ELSE 0
      /\ \A s \in InDb, q \in Peer : q # p => wrote'[s][q] = wrote[s][q] /\ cccds'[s][q] = cccds[s][q]
  BY DisconnectKnown DEF KnownInv
<1>3. \A q \in bonded : q \in Peer
  BY <1>2 DEF DbTypes
<1>4. ASSUME NEW s \in InDb, NEW q \in up'
      PROVE  (IF cccds'[s][q] = -1 THEN 0 ELSE cccds'[s][q]) = wrote'[s][q]
  <2>1. q \in up /\ q \in Peer /\ q # p
    BY <1>1, <1>2 DEF DbTypes
  <2>2. QED
    BY <1>2, <2>1, OwnValue
<1>5. ASSUME NEW s \in InDb, NEW q \in bonded'
      PROVE  stored'[q][CccdOf(s)] = wrote'[s][q]
  BY <1>1, <1>2, <1>3, OwnValue
<1>6. ASSUME NEW s \in InDb, NEW q \in Peer, q \notin up', q \notin bonded'
      PROVE  wrote'[s][q] = 0
  BY <1>1, <1>2, <1>6, OwnValue
<1>7. QED
  BY <1>1, <1>2, <1>4, <1>5, <1>6, OwnAfter DEF OwnInv

LEMMA OnBondedOwn ==
  ASSUME KnownInv, OwnInv, NEW p \in Peer, OnBonded(p)
  PROVE  OwnInv'
<1>1. /\ UNCHANGED <<allServices, attDb, attDbLength, cccds, up, told, wrote, dbBudget>>
      /\ p \in up /\ bonded' = bonded \cup {p} /\ dbBudget.bonds
  BY DEF OnBonded
<1>2. /\ KnownInv' /\ WellPlaced(allServices) /\ DbTypes
      /\ \A s \in InDb : stored'[p][CccdOf(s)] = ValueOf(s, p)
      /\ \A h \in Handle : (\A s \in InDb : CccdOf(s) # h) => stored'[p][h] = stored[p][h]
      /\ \A q \in Peer : q # p => stored'[q] = stored[q]
  BY OnBondedKnown DEF KnownInv
<1>3. \A s \in InDb : ValueOf(s, p) = wrote[s][p]
  BY <1>1, OwnValue DEF ValueOf
<1>4. ASSUME NEW s \in InDb, NEW q \in bonded'
      PROVE  stored'[q][CccdOf(s)] = wrote'[s][q]
  <2>1. CASE q = p
    BY <1>1, <1>2, <1>3, <2>1
  <2>2. CASE q # p
    <3>1. q \in bonded /\ q \in Peer
      BY <1>1, <1>2, <2>2 DEF DbTypes
    <3>2. QED
      BY <1>1, <1>2, <2>2, <3>1, OwnValue
  <2>3. QED
    BY <2>1, <2>2
<1>5. ASSUME NEW q \in Peer, NEW h \in Handle, stored'[q][h] # 0
      PROVE  q \in bonded' /\ \E s \in InDb : CccdOf(s) = h
  <2>1. CASE q = p
    BY <1>1, <1>2, <1>5, <2>1 DEF OwnInv
  <2>2. CASE q # p
    BY <1>1, <1>2, <1>5, <2>2 DEF OwnInv
  <2>3. QED
    BY <2>1, <2>2
<1>6. \A q \in up : q \in Peer
  BY <1>2 DEF DbTypes
<1>7. dbBudget.removals = 0
  BY <1>1 DEF OwnInv
<1>8. QED
  BY <1>1, <1>2, <1>4, <1>5, <1>6, <1>7, OwnValue, OwnAfter

LEMMA RemoveBondOwn ==
  ASSUME KnownInv, OwnInv, NEW p \in Peer, RemoveBond(p)
  PROVE  OwnInv'
<1>1. /\ UNCHANGED <<allServices, attDb, attDbLength, cccds, up, told, dbBudget>>
      /\ p \in bonded /\ p \notin up /\ bonded' = bonded \ {p}
      /\ stored' = [stored EXCEPT ![p] = [h \in Handle |-> 0]]
      /\ wrote' = [s \in Service |-> [wrote[s] EXCEPT ![p] = 0]]
  BY DEF RemoveBond
<1>2. KnownInv' /\ DbTypes /\ InDb \in SUBSET Service
  BY RemoveBondKnown, InDbIs DEF KnownInv
<1>3. /\ \A s \in InDb : wrote'[s][p] = 0
      /\ \A s \in InDb, q \in Peer : q # p => wrote'[s][q] = wrote[s][q]
  BY <1>1, <1>2 DEF DbTypes
<1>4. /\ \A h \in Handle : stored'[p][h] = 0
      /\ \A q \in Peer : q # p => stored'[q] = stored[q]
  BY <1>1, <1>2 DEF DbTypes
<1>5. \A q \in up : q \in Peer /\ q # p
  BY <1>1, <1>2 DEF DbTypes
<1>6. \A q \in bonded' : q \in Peer /\ q # p /\ q \in bonded
  BY <1>1, <1>2 DEF DbTypes
<1>7. ASSUME NEW q \in Peer, NEW h \in Handle, stored'[q][h] # 0
      PROVE  q \in bonded' /\ \E s \in InDb : CccdOf(s) = h
  BY <1>1, <1>4, <1>7 DEF OwnInv
<1>8. \A s \in InDb, q \in Peer : q \notin up' /\ q \notin bonded' => wrote'[s][q] = 0
  BY <1>1, <1>3, OwnValue
<1>9. dbBudget'.removals = 0 \/ (~dbBudget'.bonds /\ bonded' = {})
  BY <1>1 DEF OwnInv
<1>10. \A s \in InDb, q \in up' : (IF cccds'[s][q] = -1 THEN 0 ELSE cccds'[s][q]) = wrote'[s][q]
  BY <1>1, <1>3, <1>5, OwnValue
<1>11. \A s \in InDb, q \in bonded' : stored'[q][CccdOf(s)] = wrote'[s][q]
  BY <1>3, <1>4, <1>6, OwnValue
<1>12. QED
  BY <1>1, <1>2, <1>7, <1>8, <1>9, <1>10, <1>11, OwnAfter

LEMMA WriteOwn ==
  ASSUME KnownInv, OwnInv, NEW p \in Peer, NEW h \in Handle, NEW v \in 0 .. 3, WriteCccd(p, h, v)
  PROVE  OwnInv'
<1> DEFINE s == attDb[h]
<1>1. /\ UNCHANGED <<allServices, attDb, attDbLength, up, bonded>>
      /\ p \in up /\ s \in InDb /\ h = CccdOf(s)
      /\ dbBudget' = [dbBudget EXCEPT !.writes = @ - 1]
  BY DEF WriteCccd
<1>2. KnownInv' /\ WellPlaced(allServices) /\ DbTypes /\ InDb \in SUBSET Service
  BY WriteKnown, InDbIs DEF KnownInv
<1>3. dbBudget'.removals = 0 \/ (~dbBudget'.bonds /\ bonded' = {})
  BY <1>1, <1>2 DEF OwnInv, DbTypes
<1>4. (\A q \in bonded : q \in Peer) /\ (\A q \in up : q \in Peer)
  BY <1>2 DEF DbTypes
<1>5. CASE v \notin Allowed[s]
  <2>1. UNCHANGED <<cccds, stored, told, wrote>>
    BY <1>5 DEF WriteCccd
  <2> HIDE DEF s
  <2>2. QED
    BY <1>1, <1>2, <1>3, <1>4, <2>1, OwnValue, OwnAfter DEF OwnInv
<1>6. CASE v \in Allowed[s]
  <2>1. /\ cccds' = [cccds EXCEPT ![s][p] = v] /\ wrote' = [wrote EXCEPT ![s][p] = v]
        /\ stored' = IF p \in bonded /\ ValueOf(s, p) # v
                     THEN [stored EXCEPT ![p][h] = v] ELSE stored
    BY <1>6 DEF WriteCccd
  <2> HIDE DEF s
  <2>2. /\ cccds'[s][p] = v /\ wrote'[s][p] = v
        /\ \A t \in InDb, q \in Peer : ~(t = s /\ q = p) => /\ cccds'[t][q] = cccds[t][q]
                                                         /\ wrote'[t][q] = wrote[t][q]
    BY <1>1, <1>2, <2>1 DEF DbTypes
  <2>3. p \in bonded => stored'[p][h] = v
    <3>1. ValueOf(s, p) = wrote[s][p]
      BY <1>1, OwnValue DEF ValueOf
    <3>2. p \in bonded => stored[p][h] = ValueOf(s, p)
      BY <1>1, <3>1, OwnValue
    <3>3. QED
      BY <1>2, <2>1, <3>2 DEF DbTypes
  <2>4. \A q \in Peer, g \in Handle : ~(q = p /\ g = h) => stored'[q][g] = stored[q][g]
    BY <1>2, <2>1 DEF DbTypes
  <2>5. p \notin bonded => stored' = stored
    BY <2>1
  <2>6. ASSUME NEW t \in InDb, NEW q \in up'
        PROVE  (IF cccds'[t][q] = -1 THEN 0 ELSE cccds'[t][q]) = wrote'[t][q]
    <3>1. CASE t = s /\ q = p
      BY <2>2, <3>1
    <3>2. CASE ~(t = s /\ q = p)
      BY <1>1, <1>4, <2>2, <3>2, OwnValue
    <3>3. QED
      BY <3>1, <3>2
  <2>7. ASSUME NEW t \in InDb, NEW q \in bonded'
        PROVE  stored'[q][CccdOf(t)] = wrote'[t][q]
    <3>1. CASE t = s /\ q = p
      BY <1>1, <2>2, <2>3, <3>1
    <3>2. CASE ~(t = s /\ q = p)
      <4>1. CccdOf(t) \in Handle /\ ~(q = p /\ CccdOf(t) = h)
        BY <1>1, <1>2, <3>2, CccdOfIs
      <4>2. QED
        BY <1>1, <1>4, <2>2, <2>4, <3>2, <4>1, OwnValue
    <3>3. QED
      BY <3>1, <3>2
  <2>8. \A t \in InDb, q \in Peer : q \notin up' /\ q \notin bonded' => wrote'[t][q] = 0
    BY <1>1, <2>2, OwnValue
  <2>9. ASSUME NEW q \in Peer, NEW g \in Handle, stored'[q][g] # 0
        PROVE  q \in bonded' /\ \E t \in InDb : CccdOf(t) = g
    <3>1. CASE q = p /\ g = h
      BY <1>1, <2>5, <2>9, <3>1 DEF OwnInv
    <3>2. CASE ~(q = p /\ g = h)
      BY <1>1, <2>4, <2>9, <3>2 DEF OwnInv
    <3>3. QED
      BY <3>1, <3>2
  <2>10. QED
    BY <1>1, <1>2, <1>3, <2>6, <2>7, <2>8, <2>9, OwnAfter
<1>7. QED
  BY <1>5, <1>6

LEMMA OwnKept == KnownInv /\ OwnInv /\ [DbNext]_dbVars => OwnInv'
<1> SUFFICES ASSUME KnownInv, OwnInv, [DbNext]_dbVars PROVE OwnInv'
  OBVIOUS
<1>1. ASSUME UNCHANGED dbVars PROVE OwnInv'
  BY <1>1 DEF OwnInv, dbVars, SubscriptionsAreThePeers, ValueOf, InDb, CccdOf
<1>2. KnownInv'
  BY KnownStep
<1>3. ASSUME NEW wishes \in Call, AddServices(wishes) PROVE OwnInv'
  BY <1>2, <1>3, AddOwn
<1>4. QED
  BY <1>1, <1>2, <1>3, DbSteps, RemoveOwn, ConnectOwn, DisconnectOwn, OnBondedOwn, RemoveBondOwn,
     WriteOwn

\* A subscription is one the peer asked for, over any number of connections and bonds, if
\* the database is not changed while there are bonds.
THEOREM SubscriptionsOwn == NoReuse => (DbSpec => []SubscriptionsAreThePeers)
<1>1. OwnInv => SubscriptionsAreThePeers
  BY DEF OwnInv
<1>2. QED
  BY SubscriptionsKept, OwnInit, OwnKept, <1>1, PTL DEF DbSpec

-----------------------------------------------------------------------------
(* The attributes. *)

\* No service includes another: the code throws half-way through the attributes of one that does.
NothingIncluded == \A s \in Service : Includes[s] = {}

\* Each attribute is of the service that has its handle.
Belongs(db, all) ==
  /\ db \in [Handle -> Service \cup {System, Nobody}]
  /\ \A e \in Entries(all) : \A h \in Of(e) : db[h] = e.service
  /\ \A h \in Handle : db[h] # Nobody => \E e \in Entries(all) : h \in Of(e)

AttributesInv ==
  /\ WellPlaced(allServices)
  /\ Belongs(attDb, allServices)
  /\ attDbLength = HighestOf(attDb) + 1

LEMMA HighestIs ==
  ASSUME NEW db
  PROVE  /\ HighestOf(db) \in 0 .. Limit - 1
         /\ HighestOf(db) # 0 => HighestOf(db) \in Handle /\ db[HighestOf(db)] # Nobody
         /\ \A h \in Handle : db[h] # Nobody => h <= HighestOf(db)
<1> DEFINE S == {h \in Handle : db[h] # Nobody} \cup {0}
<1>1. Limit - 1 \in Nat /\ S \in SUBSET (0 .. Limit - 1) /\ S # {}
  BY DbAssumption DEF Handle
<1>2. Max(S) \in S /\ \A x \in S : x <= Max(S)
  BY <1>1, MaxProperties
<1>3. HighestOf(db) = Max(S)
  BY DEF HighestOf
<1> HIDE DEF S
<1>4. QED
  BY <1>1, <1>2, <1>3 DEF S

\* It is the only such handle.
LEMMA HighestOnly ==
  ASSUME NEW db, NEW n \in Nat, n # 0 => n \in Handle /\ db[n] # Nobody,
         \A h \in Handle : db[h] # Nobody => h <= n
  PROVE  HighestOf(db) = n
<1>1. HighestOf(db) \in Nat /\ HighestOf(db) <= n
  <2>1. HighestOf(db) # 0 => HighestOf(db) <= n
    BY HighestIs
  <2>2. QED
    BY <2>1, HighestIs
<1>2. n <= HighestOf(db)
  <2>1. n # 0 => n <= HighestOf(db)
    BY HighestIs
  <2>2. QED
    BY <1>1, <2>1
<1>3. QED
  BY <1>1, <1>2

LEMMA AttributesInit == DbInit => AttributesInv
<1> SUFFICES ASSUME DbInit PROVE AttributesInv
  OBVIOUS
<1>1. /\ allServices = <<[service |-> System, first |-> 1, last |-> BuiltIn]>>
      /\ attDb = [h \in Handle |-> IF h <= BuiltIn THEN System ELSE Nobody]
      /\ attDbLength = BuiltIn + 1
      /\ BuiltIn \in Nat /\ BuiltIn < Limit /\ Limit \in Nat
  BY DbAssumption DEF DbInit
<1>2. Entries(allServices) = {[service |-> System, first |-> 1, last |-> BuiltIn]}
  BY <1>1 DEF Entries
<1>3. System # Nobody
  BY DEF System, Nobody
<1>4. Belongs(attDb, allServices)
  BY <1>1, <1>2 DEF Belongs, Of, Handle
<1>5. HighestOf(attDb) = BuiltIn
  <2>1. BuiltIn # 0 => BuiltIn \in Handle /\ attDb[BuiltIn] # Nobody
    BY <1>1, <1>3 DEF Handle
  <2>2. \A h \in Handle : attDb[h] # Nobody => h <= BuiltIn
    BY <1>1
  <2>3. QED
    BY <1>1, <2>1, <2>2, HighestOnly
<1>6. QED
  BY <1>1, <1>4, <1>5, SoundInit DEF AttributesInv

\* The attributes of new services are added to those there are.
LEMMA AttributesDoes ==
  ASSUME NothingIncluded, AttributesInv, NEW wishes \in Call, NEW g, Joined(g, wishes)
  PROVE  /\ Belongs(Attributes(g, wishes), g)
         /\ \A h \in Handle : attDb[h] # Nobody => Attributes(g, wishes)[h] # Nobody
<1> DEFINE I == DOMAIN wishes
           broken == {i \in I : Includes[wishes[i].service] # {}}
           upTo == IF broken = {} THEN Len(wishes) ELSE Min(broken)
           of(h) == {i \in 1 .. upTo :
                       LET e == EntryOf(g, wishes[i].service)
                       IN h \in e.first .. (IF i \in broken THEN e.first ELSE e.last)}
           db == Attributes(g, wishes)
<1>1. db = [h \in Handle |-> IF of(h) = {} THEN attDb[h] ELSE wishes[Min(of(h))].service]
  BY DEF Attributes
<1>2. I = 1 .. Len(wishes) /\ Len(wishes) \in Nat /\ \A i \in I : wishes[i] \in Wish
  BY DEF Call
<1>3. \A i \in I : wishes[i].service \in Service
  BY <1>2 DEF Wish
<1>4. broken = {} /\ upTo = Len(wishes)
  BY <1>3 DEF NothingIncluded
<1>5. PICK new \in [I -> Entry] : /\ \A i \in I : new[i].service = wishes[i].service
                                  /\ Entries(g) = Entries(allServices) \cup {new[i] : i \in I}
  BY DEF Joined
<1>6. \A i \in I : EntryOf(g, wishes[i].service) = new[i]
  <2> TAKE i \in I
  <2>1. new[i] \in Entries(g) /\ WellPlaced(g)
    BY <1>5 DEF Joined
  <2>2. EntryOf(g, new[i].service) = new[i]
    BY <2>1, EntryOfIs
  <2>3. QED
    BY <1>5, <2>2
<1>7. \A h \in Handle : of(h) = {i \in I : h \in Of(new[i])}
  BY <1>2, <1>4, <1>6 DEF Of
<1> HIDE DEF I, of, db, broken, upTo
<1>8. /\ \A e, f \in Entries(g) : \A h \in Of(e) \cap Of(f) : e = f
      /\ \A e \in Entries(g) : Of(e) \subseteq Handle
  BY SoundEntries DEF Joined
<1>9. \A h \in Handle : of(h) = {} => db[h] = attDb[h]
  BY <1>1
<1>10. \A h \in Handle : \A i \in of(h) : db[h] = new[i].service
  <2> TAKE h \in Handle
  <2> TAKE i \in of(h)
  <2>1. of(h) \in SUBSET Nat /\ of(h) # {}
    BY <1>2, <1>7
  <2>2. Min(of(h)) \in of(h)
    BY <2>1, MinProperties
  <2>3. new[Min(of(h))] = new[i]
    BY <1>5, <1>7, <1>8, <2>2
  <2>4. db[h] = wishes[Min(of(h))].service
    BY <1>1, <2>1
  <2>5. Min(of(h)) \in I
    BY <1>7, <2>2
  <2>6. QED
    BY <1>5, <2>3, <2>4, <2>5
<1>11. System # Nobody /\ Nobody \notin Service
  BY DbAssumption DEF System, Nobody
<1>12. \A h \in Handle : \A i \in of(h) : db[h] \in Service
  BY <1>3, <1>5, <1>7, <1>10
<1>13. db \in [Handle -> Service \cup {System, Nobody}]
  <2>1. \A h \in Handle : db[h] \in Service \cup {System, Nobody}
    BY <1>9, <1>12 DEF AttributesInv, Belongs
  <2>2. DOMAIN db = Handle /\ db = [h \in Handle |-> db[h]]
    BY <1>1
  <2>3. QED
    BY <2>1, <2>2
<1>14. \A e \in Entries(g) : \A h \in Of(e) : db[h] = e.service
  <2> TAKE e \in Entries(g)
  <2> TAKE h \in Of(e)
  <2>1. h \in Handle
    BY <1>8
  <2>2. CASE \E i \in I : e = new[i]
    BY <1>7, <1>10, <2>1, <2>2
  <2>3. CASE ~\E i \in I : e = new[i]
    <3>1. e \in Entries(allServices)
      BY <1>5, <2>3
    <3>2. of(h) = {}
      BY <1>5, <1>7, <1>8, <2>3
    <3>3. QED
      BY <1>9, <2>1, <3>1, <3>2 DEF AttributesInv, Belongs
  <2>4. QED
    BY <2>2, <2>3
<1>15. \A h \in Handle : db[h] # Nobody => \E e \in Entries(g) : h \in Of(e)
  <2> TAKE h \in Handle
  <2>1. CASE of(h) = {}
    BY <1>5, <1>9, <2>1 DEF AttributesInv, Belongs
  <2>2. CASE of(h) # {}
    BY <1>5, <1>7, <2>2
  <2>3. QED
    BY <2>1, <2>2
<1>16. \A h \in Handle : attDb[h] # Nobody => db[h] # Nobody
  BY <1>9, <1>11, <1>12
<1>17. QED
  BY <1>13, <1>14, <1>15, <1>16 DEF Belongs, db

LEMMA AddAttributes ==
  ASSUME NothingIncluded, AttributesInv, NEW wishes \in Call, AddServices(wishes)
  PROVE  AttributesInv'
<1>1. /\ attDb' = IF Succeeds(wishes) THEN Attributes(Placed(wishes), wishes) ELSE attDb
      /\ attDbLength' = Max({attDbLength, HighestOf(attDb') + 1})
      /\ Succeeds(wishes) => allServices' = Placed(wishes)
  BY DEF AddServices, Succeeds
<1>2. /\ WellPlaced(allServices)
      /\ \/ Succeeds(wishes) /\ Joined(allServices', wishes)
         \/ ~Succeeds(wishes) /\ allServices' = allServices
  BY AddDoes DEF AttributesInv
<1>3. /\ WellPlaced(allServices') /\ Belongs(attDb', allServices')
      /\ \A h \in Handle : attDb[h] # Nobody => attDb'[h] # Nobody
  <2>1. CASE Succeeds(wishes)
    BY <1>1, <1>2, <2>1, AttributesDoes DEF Joined
  <2>2. CASE ~Succeeds(wishes)
    BY <1>1, <1>2, <2>2 DEF AttributesInv
  <2>3. QED
    BY <2>1, <2>2
<1> DEFINE old == HighestOf(attDb)
           now == HighestOf(attDb')
<1>4. old \in 0 .. Limit - 1 /\ now \in 0 .. Limit - 1
  BY HighestIs
<1>5. old <= now
  <2>1. old # 0 => old <= now
    BY <1>3, HighestIs
  <2> HIDE DEF old, now
  <2>2. QED
    BY <1>4, <2>1
<1>6. attDbLength' = Max({old + 1, now + 1})
  BY <1>1 DEF AttributesInv
<1> HIDE DEF old, now
<1>7. {old + 1, now + 1} \in SUBSET (0 .. Limit) /\ Limit \in Nat
  BY <1>4, DbAssumption
<1>8. /\ Max({old + 1, now + 1}) \in {old + 1, now + 1}
      /\ \A x \in {old + 1, now + 1} : x <= Max({old + 1, now + 1})
  BY <1>7, MaxProperties
<1>9. attDbLength' = now + 1
  BY <1>4, <1>5, <1>6, <1>8
<1>10. QED
  BY <1>3, <1>9 DEF AttributesInv, now

LEMMA RemoveAttributes ==
  ASSUME AttributesInv, NEW s \in Service, RemoveService(s)
  PROVE  AttributesInv'
<1> DEFINE e == EntryOf(allServices, s)
<1>1. /\ attDb' = [h \in Handle |-> IF h \in Of(e) THEN Nobody ELSE attDb[h]]
      /\ attDbLength' = LengthAfter(e, attDb')
  BY DEF RemoveService, Of
<1>2. /\ s \in InDb /\ e \in Entries(allServices) /\ WellPlaced(allServices)
      /\ WellPlaced(allServices') /\ Entries(allServices') = Entries(allServices) \ {e}
  BY RemoveDoes DEF AttributesInv
<1>3. e.service = s
  BY <1>2, ServicesIn, InDbIs
<1>4. /\ e \in Entry /\ Of(e) \subseteq Handle /\ e.first <= e.last /\ e.last \in Of(e)
      /\ \A f \in Entries(allServices) : \A h \in Of(e) \cap Of(f) : f = e
  BY <1>2, <1>3, SoundEntries
<1> HIDE DEF e
<1>5. Belongs(attDb', allServices')
  <2>1. attDb' \in [Handle -> Service \cup {System, Nobody}]
    BY <1>1 DEF AttributesInv, Belongs
  <2>2. \A f \in Entries(allServices') : \A h \in Of(f) : attDb'[h] = f.service
    <3> TAKE f \in Entries(allServices')
    <3> TAKE h \in Of(f)
    <3>1. f \in Entries(allServices) /\ h \notin Of(e)
      BY <1>2, <1>4
    <3>2. h \in Handle
      BY <1>2, <3>1, SoundEntries
    <3>3. QED
      BY <1>1, <3>1, <3>2 DEF AttributesInv, Belongs
  <2>3. \A h \in Handle : attDb'[h] # Nobody => \E f \in Entries(allServices') : h \in Of(f)
    BY <1>1, <1>2 DEF AttributesInv, Belongs
  <2>4. QED
    BY <2>1, <2>2, <2>3 DEF Belongs
<1>6. attDbLength' = HighestOf(attDb') + 1
  <2> DEFINE old == HighestOf(attDb)
  <2>1. CASE attDbLength = e.last + 1
    BY <1>1, <2>1 DEF LengthAfter
  <2>2. CASE attDbLength # e.last + 1
    <3>1. attDbLength' = old + 1 /\ old # e.last
      BY <1>1, <1>4, <2>2 DEF LengthAfter, AttributesInv, Entry
    <3>2. attDb[e.last] = s /\ s # Nobody /\ e.last \in Handle
      BY <1>2, <1>3, <1>4, DbAssumption DEF AttributesInv, Belongs
    <3>3. e.last <= old /\ old \in 0 .. Limit - 1
      BY <3>2, HighestIs
    <3>4. old # 0 => old \in Handle /\ attDb[old] # Nobody
      BY HighestIs
    <3>5. \A h \in Handle : attDb[h] # Nobody => h <= old
      BY HighestIs
    <3> HIDE DEF old
    <3>6. old \notin Of(e)
      BY <1>4, <3>1, <3>3 DEF Of, Entry
    <3>7. old # 0 => old \in Handle /\ attDb'[old] # Nobody
      BY <1>1, <3>4, <3>6
    <3>8. \A h \in Handle : attDb'[h] # Nobody => h <= old
      BY <1>1, <3>5
    <3>9. HighestOf(attDb') = old
      BY <3>3, <3>7, <3>8, HighestOnly
    <3>10. QED
      BY <3>1, <3>9
  <2>3. QED
    BY <2>1, <2>2
<1>7. QED
  BY <1>2, <1>5, <1>6 DEF AttributesInv

LEMMA AttributesStep == NothingIncluded /\ AttributesInv /\ [DbNext]_dbVars => AttributesInv'
<1> SUFFICES ASSUME NothingIncluded, AttributesInv, [DbNext]_dbVars PROVE AttributesInv'
  OBVIOUS
<1>1. CASE UNCHANGED <<allServices, attDb, attDbLength>>
  BY <1>1 DEF AttributesInv
<1>2. ASSUME NEW wishes \in Call, AddServices(wishes) PROVE AttributesInv'
  BY <1>2, AddAttributes
<1>3. CASE UNCHANGED dbVars
  BY <1>1, <1>3 DEF dbVars
<1>4. ASSUME NEW p \in Peer, Connect(p) \/ Disconnect(p) \/ OnBonded(p) \/ RemoveBond(p)
      PROVE  UNCHANGED <<allServices, attDb, attDbLength>>
  BY <1>4 DEF Connect, Disconnect, OnBonded, RemoveBond
<1>5. ASSUME NEW p \in Peer, NEW h \in Handle, NEW v \in 0 .. 3, WriteCccd(p, h, v)
      PROVE  UNCHANGED <<allServices, attDb, attDbLength>>
  BY <1>5 DEF WriteCccd
<1>6. QED
  BY <1>1, <1>2, <1>3, <1>4, <1>5, DbSteps, RemoveAttributes

LEMMA AttributesMatch == AttributesInv => DbMatchesServices
<1> SUFFICES ASSUME AttributesInv PROVE DbMatchesServices
  OBVIOUS
<1>1. WellPlaced(allServices) /\ DOMAIN allServices = 1 .. Len(allServices) /\ Len(allServices) \in Nat
  BY SoundEntries DEF AttributesInv
<1>2. \A i \in DOMAIN allServices : i > 1 => allServices[i - 1].last < allServices[i].first
  BY <1>1 DEF WellPlaced
<1>3. ASSUME NEW h \in Handle
      PROVE  LET of == {i \in DOMAIN allServices : h \in allServices[i].first .. allServices[i].last}
             IN attDb[h] = IF of = {} THEN Nobody ELSE allServices[Min(of)].service
  <2> DEFINE of == {i \in DOMAIN allServices : h \in allServices[i].first .. allServices[i].last}
  <2>1. CASE of = {}
    <3>1. \A e \in Entries(allServices) : h \notin Of(e)
      BY <2>1 DEF Entries, Of
    <3>2. attDb[h] = Nobody
      BY <3>1 DEF AttributesInv, Belongs
    <3>3. QED
      BY <2>1, <3>2
  <2>2. CASE of # {}
    <3>1. of \in SUBSET Nat
      BY <1>1
    <3>2. Min(of) \in of
      BY <2>2, <3>1, MinProperties
    <3>3. allServices[Min(of)] \in Entries(allServices) /\ h \in Of(allServices[Min(of)])
      BY <3>2 DEF Entries, Of
    <3>4. attDb[h] = allServices[Min(of)].service
      BY <3>3 DEF AttributesInv, Belongs
    <3>5. QED
      BY <2>2, <3>4
  <2>3. QED
    BY <2>1, <2>2
<1>4. QED
  BY <1>2, <1>3 DEF DbMatchesServices, AttributesInv

\* The attributes are those of the services at their handles and the services do not
\* overlap, after any number of calls, also ones that failed half-way, and removals.
THEOREM AttributesAreTheServices == NothingIncluded => (DbSpec => []DbMatchesServices)
<1> SUFFICES ASSUME NothingIncluded
             PROVE  DbSpec => []DbMatchesServices
  OBVIOUS
<1>1. AttributesInv /\ [DbNext]_dbVars => AttributesInv'
  BY AttributesStep
<1>2. QED
  BY <1>1, AttributesInit, AttributesMatch, PTL DEF DbSpec
=============================================================================
