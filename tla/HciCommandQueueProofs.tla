----------------------- MODULE HciCommandQueueProofs ------------------------
(***************************************************************************)
(* Proofs about HciCommandQueue, for any handles, procedures and bounds:   *)
(* one command is out at a time and its response is told by the opcode,    *)
(* callbacks and commands belong to the connection that has the handle,    *)
(* and the adapter implements SerialRequests.                              *)
(***************************************************************************)
EXTENDS HciCommandQueue, FiniteSetTheorems, FunctionTheorems, SequenceTheorems, TLAPS

-----------------------------------------------------------------------------
(* A filtered sequence has the chosen elements in the order they had. *)

\* A later position has a higher rank.
LEMMA RankIncreases ==
  ASSUME NEW n \in Nat, NEW I \in SUBSET (1 .. n)
  PROVE  /\ IsFiniteSet(I) /\ Cardinality(I) \in Nat
         /\ \A i \in I : Rank(I, i) \in 1 .. Cardinality(I)
         /\ \A i, j \in I : i < j => Rank(I, i) < Rank(I, j)
<1>1. IsFiniteSet(1 .. n)
  BY FS_Interval
<1>2. IsFiniteSet(I)
  BY <1>1, FS_Subset
<1> DEFINE upTo(i) == {j \in I : j <= i}
<1>3. \A i \in I : /\ IsFiniteSet(upTo(i)) /\ Cardinality(upTo(i)) \in Nat
                   /\ Cardinality(upTo(i)) <= Cardinality(I)
                   /\ Cardinality(upTo(i)) # 0
  <2> TAKE i \in I
  <2>1. upTo(i) \in SUBSET I
    OBVIOUS
  <2>2. IsFiniteSet(upTo(i)) /\ Cardinality(upTo(i)) <= Cardinality(I)
    BY <1>2, <2>1, FS_Subset
  <2>3. i \in upTo(i)
    OBVIOUS
  <2>4. QED
    BY <2>2, <2>3, FS_EmptySet, FS_CardinalityType
<1>4. \A i, j \in I : i < j => Cardinality(upTo(i)) < Cardinality(upTo(j))
  <2> SUFFICES ASSUME NEW i \in I, NEW j \in I, i < j
               PROVE  Cardinality(upTo(i)) < Cardinality(upTo(j))
    OBVIOUS
  <2>1. i \in Nat /\ j \in Nat /\ \A k \in I : k \in Nat
    OBVIOUS
  <2>2. j \in upTo(j) /\ j \notin upTo(i)
    BY <2>1
  <2>3. \A k \in I : k <= i => k <= j
    BY <2>1
  <2>4. upTo(i) \in SUBSET upTo(j)
    BY <2>3
  <2>5. Cardinality(upTo(i)) <= Cardinality(upTo(j)) /\ Cardinality(upTo(i)) # Cardinality(upTo(j))
    BY <1>3, <2>2, <2>4, FS_Subset
  <2>6. QED
    BY <1>3, <2>5
<1>5. Cardinality(I) \in Nat
  BY <1>2, FS_CardinalityType
<1>6. QED
  BY <1>2, <1>3, <1>4, <1>5 DEF Rank

\* Every number up to the size of I is the rank of one element.
LEMMA NthProperties ==
  ASSUME NEW n \in Nat, NEW I \in SUBSET (1 .. n)
  PROVE  /\ \A k \in 1 .. Cardinality(I) : Nth(I, k) \in I /\ Rank(I, Nth(I, k)) = k
         /\ \A i \in I : Nth(I, Rank(I, i)) = i
         /\ \A k, l \in 1 .. Cardinality(I) : k < l <=> Nth(I, k) < Nth(I, l)
<1> DEFINE r == [i \in I |-> Rank(I, i)]
           m == Cardinality(I)
<1>1. /\ IsFiniteSet(I) /\ m \in Nat
      /\ \A i \in I : Rank(I, i) \in 1 .. m
      /\ \A i, j \in I : i < j => Rank(I, i) < Rank(I, j)
  BY RankIncreases
<1>2. \A i, j \in I : Rank(I, i) = Rank(I, j) => i = j
  <2> SUFFICES ASSUME NEW i \in I, NEW j \in I, Rank(I, i) = Rank(I, j), i # j
               PROVE  FALSE
    OBVIOUS
  <2>1. i < j \/ j < i
    OBVIOUS
  <2>2. QED
    BY <1>1, <2>1
<1>3. r \in Injection(I, 1 .. m)
  BY <1>1, <1>2 DEF Injection, IsInjective
<1>4. IsFiniteSet(1 .. m) /\ Cardinality(1 .. m) = m
  <2> HIDE DEF m
  <2>1. m \in Int /\ 1 \in Int
    BY <1>1
  <2>2. IsFiniteSet(1 .. m) /\ Cardinality(1 .. m) = IF 1 > m THEN 0 ELSE m - 1 + 1
    BY <2>1, FS_Interval
  <2>3. QED
    BY <1>1, <2>2
<1>5. r \in Surjection(I, 1 .. m)
  BY <1>1, <1>3, <1>4, FS_Injection
<1>6. \A k \in 1 .. m : \E i \in I : Rank(I, i) = k
  BY <1>5 DEF Surjection
<1>7. \A k \in 1 .. m : Nth(I, k) \in I /\ Rank(I, Nth(I, k)) = k
  BY <1>6 DEF Nth
<1>8. \A i \in I : Nth(I, Rank(I, i)) = i
  BY <1>1, <1>2, <1>7
<1>9. \A k, l \in 1 .. m : k < l <=> Nth(I, k) < Nth(I, l)
  <2> SUFFICES ASSUME NEW k \in 1 .. m, NEW l \in 1 .. m
               PROVE  k < l <=> Nth(I, k) < Nth(I, l)
    OBVIOUS
  <2>1. PICK a \in I : a = Nth(I, k) /\ Rank(I, a) = k
    BY <1>7
  <2>2. PICK b \in I : b = Nth(I, l) /\ Rank(I, b) = l
    BY <1>7
  <2> HIDE DEF m
  <2>3. a \in Nat /\ b \in Nat /\ k \in Nat /\ l \in Nat
    BY <1>1
  <2>4. CASE a < b
    BY <1>1, <2>1, <2>2, <2>3, <2>4
  <2>5. CASE b < a
    BY <1>1, <2>1, <2>2, <2>3, <2>5
  <2>6. CASE a = b
    BY <2>1, <2>2, <2>3, <2>6
  <2>7. QED
    BY <2>3, <2>4, <2>5, <2>6
<1>10. QED
  BY <1>7, <1>8, <1>9

\* A part of a sequence has one entry for each position that stays, in their order.
LEMMA PickProperties ==
  ASSUME NEW S, NEW s \in Seq(S), NEW I \in SUBSET (1 .. Len(s))
  PROVE  /\ Pick(s, I) \in Seq(S)
         /\ Len(Pick(s, I)) = Cardinality(I)
         /\ Cardinality(I) \in Nat
         /\ \A k \in 1 .. Cardinality(I) : Nth(I, k) \in I /\ Pick(s, I)[k] = s[Nth(I, k)]
         /\ \A i \in I : \E k \in 1 .. Cardinality(I) : Nth(I, k) = i /\ Pick(s, I)[k] = s[i]
<1>1. Len(s) \in Nat /\ \A i \in 1 .. Len(s) : s[i] \in S
  BY LenProperties, ElementOfSeq
<1> DEFINE m == Cardinality(I)
<1>2. m \in Nat /\ \A i \in I : Rank(I, i) \in 1 .. m
  BY <1>1, RankIncreases
<1>3. /\ \A k \in 1 .. m : Nth(I, k) \in I
      /\ \A i \in I : Nth(I, Rank(I, i)) = i
  BY <1>1, NthProperties
<1>4. Pick(s, I) = [k \in 1 .. m |-> s[Nth(I, k)]]
  BY DEF Pick
<1> HIDE DEF m
<1>5. \A k \in 1 .. m : s[Nth(I, k)] \in S
  BY <1>1, <1>3
<1>6. Pick(s, I) \in [1 .. m -> S]
  BY <1>4, <1>5
<1>7. Pick(s, I) \in Seq(S) /\ Len(Pick(s, I)) = m
  BY <1>2, <1>6
<1>8. \A k \in 1 .. m : Pick(s, I)[k] = s[Nth(I, k)]
  BY <1>4
<1>9. \A i \in I : \E k \in 1 .. m : Nth(I, k) = i /\ Pick(s, I)[k] = s[i]
  BY <1>2, <1>3, <1>8
<1>10. QED
  BY <1>2, <1>3, <1>7, <1>8, <1>9 DEF m

\* Positions behind a new first element, which stays as well.
Behind(J) == {1} \cup {j + 1 : j \in J}

LEMMA BehindRanks ==
  ASSUME NEW n \in Nat, NEW J \in SUBSET (1 .. n)
  PROVE  /\ Behind(J) \in SUBSET (1 .. n + 1)
         /\ Cardinality(Behind(J)) = Cardinality(J) + 1
         /\ Nth(Behind(J), 1) = 1
         /\ \A k \in 1 .. Cardinality(J) : Nth(Behind(J), k + 1) = Nth(J, k) + 1
<1>1. \A K \in SUBSET J : IsFiniteSet(K) /\ Cardinality(Behind(K)) = Cardinality(K) + 1
  <2> TAKE K \in SUBSET J
  <2>1. IsFiniteSet(J)
    BY RankIncreases
  <2>2. IsFiniteSet(K)
    BY <2>1, FS_Subset
  <2> DEFINE L == {j + 1 : j \in K}
             f == [j \in K |-> j + 1]
  <2>3. \A j \in K : j \in Nat
    OBVIOUS
  <2>4. f \in Bijection(K, L)
    BY <2>3 DEF Bijection, Injection, Surjection, IsInjective
  <2>5. IsFiniteSet(L) /\ Cardinality(L) = Cardinality(K)
    <3>1. ExistsBijection(K, L)
      BY <2>4 DEF ExistsBijection
    <3> HIDE DEF L
    <3>2. QED
      BY <2>2, <3>1, FS_Bijection
  <2>6. 1 \notin L
    BY <2>3
  <2>7. Cardinality(L \cup {1}) = Cardinality(L) + 1
    <3> HIDE DEF L
    <3>1. QED
      BY <2>5, <2>6, FS_AddElement
  <2>8. Behind(K) = L \cup {1}
    BY DEF Behind
  <2>9. QED
    BY <2>2, <2>5, <2>7, <2>8
<1>2. Behind(J) \in SUBSET (1 .. n + 1)
  BY DEF Behind
<1>3. Cardinality(Behind(J)) = Cardinality(J) + 1
  BY <1>1
<1>4. Rank(Behind(J), 1) = 1
  <2>1. {j \in Behind(J) : j <= 1} = {1}
    BY DEF Behind
  <2>2. Cardinality({1}) = 1
    BY FS_Singleton
  <2>3. QED
    BY <2>1, <2>2 DEF Rank
<1>5. \A i \in J : Rank(Behind(J), i + 1) = Rank(J, i) + 1
  <2> TAKE i \in J
  <2>1. {j \in Behind(J) : j <= i + 1} = Behind({j \in J : j <= i})
    BY DEF Behind
  <2>2. Cardinality(Behind({j \in J : j <= i})) = Cardinality({j \in J : j <= i}) + 1
    <3>1. {j \in J : j <= i} \in SUBSET J
      OBVIOUS
    <3>2. QED
      BY <1>1, <3>1
  <2>3. QED
    BY <2>1, <2>2 DEF Rank
<1>6. \A i \in Behind(J) : Nth(Behind(J), Rank(Behind(J), i)) = i
  BY <1>2, n + 1 \in Nat, NthProperties
<1>7. \A k \in 1 .. Cardinality(J) : Nth(J, k) \in J /\ Rank(J, Nth(J, k)) = k
  BY NthProperties
<1>8. Nth(Behind(J), 1) = 1
  BY <1>4, <1>6 DEF Behind
<1>9. \A k \in 1 .. Cardinality(J) : Nth(Behind(J), k + 1) = Nth(J, k) + 1
  <2> TAKE k \in 1 .. Cardinality(J)
  <2>1. Nth(J, k) \in J /\ Rank(Behind(J), Nth(J, k) + 1) = k + 1
    BY <1>5, <1>7
  <2>2. Nth(J, k) + 1 \in Behind(J)
    BY <2>1 DEF Behind
  <2>3. QED
    BY <1>6, <2>1, <2>2
<1>10. QED
  BY <1>2, <1>3, <1>8, <1>9

\* A filter that keeps the first element filters the others.
LEMMA PickBehindHead ==
  ASSUME NEW S, NEW s \in Seq(S), NEW x \in S, NEW J \in SUBSET (1 .. Len(s))
  PROVE  Pick(<<x>> \o s, Behind(J)) = <<x>> \o Pick(s, J)
<1> DEFINE t == <<x>> \o s
           I == Behind(J)
           m == Cardinality(J)
<1>1. Len(s) \in Nat /\ <<x>> \in Seq(S) /\ Len(<<x>>) = 1 /\ <<x>>[1] = x
  BY LenProperties
<1>2. /\ t \in Seq(S) /\ Len(t) = Len(s) + 1
      /\ t[1] = x /\ \A i \in 1 .. Len(s) : t[i + 1] = s[i]
  <2> HIDE DEF t
  <2>1. /\ t \in Seq(S) /\ Len(t) = 1 + Len(s)
        /\ \A i \in 1 .. 1 + Len(s) : t[i] = IF i <= 1 THEN <<x>>[i] ELSE s[i - 1]
    BY <1>1, ConcatProperties DEF t
  <2>2. QED
    BY <1>1, <2>1
<1>3. /\ I \in SUBSET (1 .. Len(s) + 1)
      /\ Cardinality(I) = m + 1
      /\ Nth(I, 1) = 1
      /\ \A k \in 1 .. m : Nth(I, k + 1) = Nth(J, k) + 1
  BY <1>1, BehindRanks
<1> HIDE DEF t, I
<1>4. /\ Pick(t, I) \in Seq(S)
      /\ Len(Pick(t, I)) = m + 1
      /\ \A k \in 1 .. m + 1 : Pick(t, I)[k] = t[Nth(I, k)]
  BY <1>2, <1>3, PickProperties
<1>5. /\ Pick(s, J) \in Seq(S)
      /\ Len(Pick(s, J)) = m /\ m \in Nat
      /\ \A k \in 1 .. m : Nth(J, k) \in J /\ Pick(s, J)[k] = s[Nth(J, k)]
  BY PickProperties
<1> HIDE DEF m
<1>6. /\ <<x>> \o Pick(s, J) \in Seq(S)
      /\ Len(<<x>> \o Pick(s, J)) = 1 + m
      /\ \A k \in 1 .. 1 + m :
           (<<x>> \o Pick(s, J))[k] = IF k <= 1 THEN <<x>>[k] ELSE Pick(s, J)[k - 1]
  BY <1>1, <1>5, ConcatProperties
<1>7. \A k \in 1 .. m + 1 : Pick(t, I)[k] = (<<x>> \o Pick(s, J))[k]
  <2> TAKE k \in 1 .. m + 1
  <2>1. CASE k = 1
    BY <1>1, <1>2, <1>3, <1>4, <1>5, <1>6, <2>1
  <2>2. CASE k # 1
    <3>1. PICK l \in 1 .. m : k = l + 1
      BY <1>5, <2>2
    <3>2. Pick(t, I)[k] = t[Nth(J, l) + 1]
      BY <1>3, <1>4, <3>1
    <3>3. t[Nth(J, l) + 1] = s[Nth(J, l)]
      BY <1>2, <1>5
    <3>4. (<<x>> \o Pick(s, J))[k] = s[Nth(J, l)]
      BY <1>5, <1>6, <3>1
    <3>5. QED
      BY <3>2, <3>3, <3>4
  <2>3. QED
    BY <2>1, <2>2
<1>8. Pick(t, I) = <<x>> \o Pick(s, J)
  BY <1>4, <1>5, <1>6, <1>7, SeqEqual
<1>9. QED
  BY <1>8 DEF t, I

-----------------------------------------------------------------------------
(* The invariant. *)

\* Commands that need a connection name a handle.
Addressed(cmd) == cmd.opcode \in HandleOpcode => cmd.handle \in Handle

CommandsAddressed ==
  /\ Addressed(pendingCommand.cmd)
  /\ \A i \in DOMAIN commandQueue : Addressed(commandQueue[i])
  /\ Addressed(executing)

\* The command that is pending and those that wait are different ones whose callers wait;
\* a command that is given up while it is pending, and one whose caller waits, have had no
\* response, and one that started a procedure has.
CommandsOrdered ==
  /\ pendingCommand = Idle => commandQueue = <<>>
  /\ \A i \in DOMAIN commandQueue :
       /\ outcome[commandQueue[i].id] = "waiting"
       /\ commandQueue[i].id # pendingCommand.cmd.id
       /\ \A j \in DOMAIN commandQueue : commandQueue[i].id = commandQueue[j].id => i = j
  /\ pendingCommand # Idle =>
       /\ outcome[pendingCommand.cmd.id] = IF pendingCommand.ignoreResponse THEN "gone" ELSE "waiting"
       /\ responseTo[pendingCommand.cmd.id] = None
  /\ \A c \in Ids : outcome[c] \in {"new", "waiting"} => responseTo[c] = None
  /\ \A h \in Handle, p \in Procedure :
       eventCallback[h][p] # None => responseTo[eventCallback[h][p]] # None

\* A response that is on its way has the opcode of the pending command, and one that another
\* process caused has not.
OpcodesMatch ==
  \A i \in DOMAIN hciEvents : hciEvents[i].type = "response" =>
    /\ hciEvents[i].to = None <=> hciEvents[i].opcode = "foreign"
    /\ Running /\ hciEvents[i].to # None => hciEvents[i].opcode = pendingCommand.cmd.opcode

Types == TypeOK /\ CommandsAddressed
IInv == Types /\ CommandsOrdered /\ OneOutstanding /\ OpcodesMatch /\ OwnResponse /\ RightLink

-----------------------------------------------------------------------------
(* Types. *)

\* Events of a given type, and what reading the first event leaves.
LEMMA ReceiveProperties ==
  ASSUME TypeOK, NEW type, Receive(type)
  PROVE  /\ Head(hciEvents) \in Event /\ Head(hciEvents).type = type
         /\ Head(hciEvents) = hciEvents[1] /\ 1 \in DOMAIN hciEvents
         /\ hciEvents' \in Seq(Event)
         /\ Len(hciEvents) \in Nat /\ DOMAIN hciEvents = 1 .. Len(hciEvents)
         /\ DOMAIN hciEvents' = 1 .. Len(hciEvents) - 1
         /\ \A i \in DOMAIN hciEvents' : hciEvents'[i] = hciEvents[i + 1] /\ i + 1 \in DOMAIN hciEvents
<1>1. hciEvents \in Seq(Event) /\ hciEvents # <<>> /\ hciEvents' = Tail(hciEvents)
  BY DEF TypeOK, Receive
<1>2. /\ Head(hciEvents) \in Event /\ Tail(hciEvents) \in Seq(Event)
      /\ Len(Tail(hciEvents)) = Len(hciEvents) - 1
      /\ \A i \in 1 .. Len(Tail(hciEvents)) : Tail(hciEvents)[i] = hciEvents[i + 1]
  BY <1>1, HeadTailProperties
<1>3. Len(hciEvents) \in Nat \ {0} /\ DOMAIN hciEvents = 1 .. Len(hciEvents)
  BY <1>1, EmptySeq, LenProperties
<1>4. DOMAIN Tail(hciEvents) = 1 .. Len(hciEvents) - 1
  BY <1>2, LenProperties
<1>5. Head(hciEvents) = hciEvents[1] /\ Head(hciEvents).type = type
  BY <1>1 DEF Receive
<1> HIDE DEF Event
<1>6. QED
  BY <1>1, <1>2, <1>3, <1>4, <1>5

\* What each kind of event carries.
LEMMA EventProperties ==
  ASSUME NEW e \in Event
  PROVE  /\ e.type = "response" => /\ e.opcode \in Opcode \cup {"foreign"}
                                   /\ e.status \in Status /\ e.to \in Ids \cup {None}
         /\ e.type = "procedureComplete" => e.opcode \in Procedure /\ e.handle \in Handle
         /\ e.type = "connected" => e.handle \in Handle /\ e.number \in 1 .. MaxLinks
         /\ e.type = "disconnected" => e.handle \in Handle
BY DEF Event

\* An event that is added is the last.
LEMMA AppendEvent ==
  ASSUME TypeOK, NEW e \in Event, hciEvents' = Append(hciEvents, e)
  PROVE  /\ hciEvents' \in Seq(Event)
         /\ Len(hciEvents) \in Nat /\ DOMAIN hciEvents = 1 .. Len(hciEvents)
         /\ DOMAIN hciEvents' = 1 .. Len(hciEvents) + 1
         /\ \A i \in 1 .. Len(hciEvents) : hciEvents'[i] = hciEvents[i]
         /\ hciEvents'[Len(hciEvents) + 1] = e
<1>1. hciEvents \in Seq(Event)
  BY DEF TypeOK
<1> HIDE DEF Event
<1>2. QED
  BY <1>1, AppendProperties, LenProperties

\* The queue of commands as a function.
LEMMA QueueProperties ==
  ASSUME TypeOK
  PROVE  /\ Len(commandQueue) \in Nat /\ DOMAIN commandQueue = 1 .. Len(commandQueue)
         /\ \A i \in DOMAIN commandQueue : commandQueue[i] \in Command
         /\ commandQueue # <<>> =>
              /\ Head(commandQueue) = commandQueue[1] /\ 1 \in DOMAIN commandQueue
              /\ Tail(commandQueue) \in Seq(Command)
              /\ DOMAIN Tail(commandQueue) = 1 .. Len(commandQueue) - 1
              /\ \A i \in DOMAIN Tail(commandQueue) :
                   Tail(commandQueue)[i] = commandQueue[i + 1] /\ i + 1 \in DOMAIN commandQueue
         /\ \A cmd \in Command :
              /\ Append(commandQueue, cmd) \in Seq(Command)
              /\ DOMAIN Append(commandQueue, cmd) = 1 .. Len(commandQueue) + 1
              /\ \A i \in DOMAIN commandQueue : Append(commandQueue, cmd)[i] = commandQueue[i]
              /\ Append(commandQueue, cmd)[Len(commandQueue) + 1] = cmd
<1>1. commandQueue \in Seq(Command)
  BY DEF TypeOK
<1> HIDE DEF Command
<1>2. Len(commandQueue) \in Nat /\ DOMAIN commandQueue = 1 .. Len(commandQueue)
  BY <1>1, LenProperties
<1>3. \A i \in DOMAIN commandQueue : commandQueue[i] \in Command
  BY <1>1, <1>2, ElementOfSeq
<1>4. ASSUME commandQueue # <<>>
      PROVE  /\ Head(commandQueue) = commandQueue[1] /\ 1 \in DOMAIN commandQueue
             /\ Tail(commandQueue) \in Seq(Command)
             /\ DOMAIN Tail(commandQueue) = 1 .. Len(commandQueue) - 1
             /\ \A i \in DOMAIN Tail(commandQueue) :
                  Tail(commandQueue)[i] = commandQueue[i + 1] /\ i + 1 \in DOMAIN commandQueue
  <2>1. /\ Tail(commandQueue) \in Seq(Command) /\ Len(Tail(commandQueue)) = Len(commandQueue) - 1
        /\ \A i \in 1 .. Len(Tail(commandQueue)) : Tail(commandQueue)[i] = commandQueue[i + 1]
    BY <1>1, <1>4, HeadTailProperties
  <2>2. DOMAIN Tail(commandQueue) = 1 .. Len(commandQueue) - 1
    BY <2>1, LenProperties
  <2>3. Len(commandQueue) # 0 /\ Head(commandQueue) = commandQueue[1]
    BY <1>1, <1>4, EmptySeq
  <2>4. QED
    BY <1>2, <2>1, <2>2, <2>3
<1>5. \A cmd \in Command :
        /\ Append(commandQueue, cmd) \in Seq(Command)
        /\ DOMAIN Append(commandQueue, cmd) = 1 .. Len(commandQueue) + 1
        /\ \A i \in DOMAIN commandQueue : Append(commandQueue, cmd)[i] = commandQueue[i]
        /\ Append(commandQueue, cmd)[Len(commandQueue) + 1] = cmd
  BY <1>1, <1>2, AppendProperties, LenProperties
<1>6. QED
  BY <1>2, <1>3, <1>4, <1>5

\* Idle is the only pending command without a command.
LEMMA PendingProperties ==
  ASSUME TypeOK
  PROVE  /\ pendingCommand.cmd \in Command \cup {NoCommand}
         /\ pendingCommand.ignoreResponse \in BOOLEAN
         /\ pendingCommand = Idle <=> pendingCommand.cmd = NoCommand
         /\ pendingCommand # Idle <=> pendingCommand.cmd \in Command
         /\ NoCommand \notin Command
         /\ \A cmd \in Command : [cmd |-> cmd, ignoreResponse |-> FALSE] \in Pending
         /\ Idle \in Pending
         /\ \A cmd \in Command : [cmd |-> cmd, ignoreResponse |-> FALSE] # Idle
<1>1. NoCommand \notin Command
  BY CommandAssumption DEF NoCommand, Command, None, Ids
<1>2. pendingCommand \in [cmd : Command \cup {NoCommand}, ignoreResponse : BOOLEAN]
      /\ (pendingCommand.ignoreResponse => pendingCommand.cmd.handle \in Handle)
  BY DEF TypeOK, Pending
<1>3. NoCommand.handle \notin Handle
  BY CommandAssumption DEF NoCommand
<1> HIDE DEF Command, NoCommand
<1>4. pendingCommand.cmd = NoCommand => pendingCommand = Idle
  BY <1>2, <1>3 DEF Idle
<1>5. Idle.cmd = NoCommand
  BY DEF Idle
<1>6. \A cmd \in Command : [cmd |-> cmd, ignoreResponse |-> FALSE] \in Pending
  BY DEF Pending
<1>7. Idle \in Pending
  BY DEF Idle, Pending
<1>8. \A cmd \in Command : [cmd |-> cmd, ignoreResponse |-> FALSE] # Idle
  BY <1>1 DEF Idle
<1>9. QED
  BY <1>1, <1>2, <1>4, <1>5, <1>6, <1>7, <1>8

\* sendCommand keeps commands, queue and the controller well formed.
LEMMA SendCommandTypes ==
  ASSUME Types, NEW cmd \in Command, Addressed(cmd), SendCommand(cmd)
  PROVE  /\ pendingCommand' \in Pending /\ commandQueue' \in Seq(Command)
         /\ executing' \in Command \cup {NoCommand}
         /\ CommandsAddressed'
<1>1. TypeOK /\ CommandsAddressed
  BY DEF Types
<1> HIDE DEF Command
<1>2. CASE MustWait
  <2>1. commandQueue' = Append(commandQueue, cmd) /\ UNCHANGED <<pendingCommand, executing>>
    BY <1>2 DEF SendCommand
  <2>2. commandQueue' \in Seq(Command) /\ \A i \in DOMAIN commandQueue' : Addressed(commandQueue'[i])
    BY <1>1, <2>1, QueueProperties DEF CommandsAddressed
  <2>3. QED
    BY <1>1, <2>1, <2>2 DEF TypeOK, CommandsAddressed, Addressed
<1>3. CASE ~MustWait
  <2>1. /\ pendingCommand' = [cmd |-> cmd, ignoreResponse |-> FALSE]
        /\ executing' = cmd /\ commandQueue' = commandQueue
    BY <1>3 DEF SendCommand, ReallySendCommand
  <2>2. QED
    BY <1>1, <2>1, PendingProperties DEF TypeOK, CommandsAddressed, Addressed
<1>4. QED
  BY <1>2, <1>3

\* What follows a response keeps commands, queue and the controller well formed.
LEMMA SendNextTypes ==
  ASSUME Types, SendNextCommand
  PROVE  /\ pendingCommand' \in Pending /\ commandQueue' \in Seq(Command)
         /\ executing' \in Command \cup {NoCommand}
         /\ CommandsAddressed'
<1>1. TypeOK /\ CommandsAddressed
  BY DEF Types
<1> HIDE DEF Command
<1>2. CASE commandQueue = <<>>
  <2>1. pendingCommand' = Idle /\ UNCHANGED <<commandQueue, executing>>
    BY <1>2 DEF SendNextCommand
  <2>2. Addressed(Idle.cmd)
    BY CommandAssumption DEF Addressed, Idle, NoCommand, HandleOpcode
  <2>3. QED
    BY <1>1, <2>1, <2>2, PendingProperties DEF TypeOK, CommandsAddressed, Addressed
<1>3. CASE commandQueue # <<>>
  <2>1. /\ commandQueue' = Tail(commandQueue) /\ executing' = commandQueue[1]
        /\ pendingCommand' = [cmd |-> commandQueue[1], ignoreResponse |-> FALSE]
    BY <1>1, <1>3, QueueProperties DEF SendNextCommand, ReallySendCommand
  <2>2. commandQueue[1] \in Command /\ Addressed(commandQueue[1])
    BY <1>1, <1>3, QueueProperties DEF CommandsAddressed
  <2>3. commandQueue' \in Seq(Command) /\ \A i \in DOMAIN commandQueue' : Addressed(commandQueue'[i])
    BY <1>1, <1>3, <2>1, QueueProperties DEF CommandsAddressed
  <2>4. QED
    BY <1>1, <2>1, <2>2, <2>3, PendingProperties DEF CommandsAddressed, Addressed
<1>4. QED
  BY <1>2, <1>3

\* The commands that survive a disconnection are commands of the queue.
LEMMA SurvivorsProperties ==
  ASSUME TypeOK, NEW h
  PROVE  /\ Survivors(h) \in Seq(Command)
         /\ \A k \in DOMAIN Survivors(h) : \E i \in DOMAIN commandQueue :
              /\ Survivors(h)[k] = commandQueue[i] /\ commandQueue[i].handle # h
              /\ \A l \in DOMAIN Survivors(h) : \E j \in DOMAIN commandQueue :
                   Survivors(h)[l] = commandQueue[j] /\ (i = j => k = l)
         /\ commandQueue = <<>> => Survivors(h) = <<>>
<1> DEFINE I == {i \in DOMAIN commandQueue : commandQueue[i].handle # h}
<1>1. commandQueue \in Seq(Command) /\ Len(commandQueue) \in Nat
      /\ DOMAIN commandQueue = 1 .. Len(commandQueue)
  BY QueueProperties DEF TypeOK
<1>2. Survivors(h) = Pick(commandQueue, I)
  BY DEF Survivors
<1>3. I \in SUBSET (1 .. Len(commandQueue)) /\ \A i \in I : commandQueue[i].handle # h
  BY <1>1
<1> HIDE DEF I, Command
<1>4. /\ Pick(commandQueue, I) \in Seq(Command)
      /\ Len(Pick(commandQueue, I)) = Cardinality(I) /\ Cardinality(I) \in Nat
      /\ \A k \in 1 .. Cardinality(I) : Nth(I, k) \in I /\ Pick(commandQueue, I)[k] = commandQueue[Nth(I, k)]
  BY <1>1, <1>3, PickProperties
<1>5. \A k, l \in 1 .. Cardinality(I) : Nth(I, k) = Nth(I, l) => k = l
  <2>1. \A k \in 1 .. Cardinality(I) : Rank(I, Nth(I, k)) = k
    BY <1>1, <1>3, NthProperties
  <2>2. QED
    BY <2>1
<1>6. DOMAIN Survivors(h) = 1 .. Cardinality(I)
  BY <1>2, <1>4, LenProperties
<1>7. ASSUME NEW k \in DOMAIN Survivors(h)
      PROVE  \E i \in DOMAIN commandQueue :
              /\ Survivors(h)[k] = commandQueue[i] /\ commandQueue[i].handle # h
              /\ \A l \in DOMAIN Survivors(h) : \E j \in DOMAIN commandQueue :
                   Survivors(h)[l] = commandQueue[j] /\ (i = j => k = l)
  <2>1. /\ Nth(I, k) \in DOMAIN commandQueue
        /\ Survivors(h)[k] = commandQueue[Nth(I, k)] /\ commandQueue[Nth(I, k)].handle # h
    BY <1>1, <1>2, <1>3, <1>4, <1>6, <1>7
  <2>2. \A l \in DOMAIN Survivors(h) : /\ Nth(I, l) \in DOMAIN commandQueue
                                       /\ Survivors(h)[l] = commandQueue[Nth(I, l)]
                                       /\ (Nth(I, k) = Nth(I, l) => k = l)
    BY <1>1, <1>2, <1>3, <1>4, <1>5, <1>6, <1>7
  <2>3. QED
    BY <2>1, <2>2
<1>8. ASSUME commandQueue = <<>>
      PROVE  Survivors(h) = <<>>
  <2>1. I = {}
    BY <1>1, <1>3, <1>8
  <2>2. Len(Survivors(h)) = 0
    BY <1>2, <1>4, <2>1, FS_EmptySet
  <2>3. QED
    BY <1>2, <1>4, <2>2, EmptySeq
<1>9. QED
  BY <1>2, <1>4, <1>7, <1>8

\* Every step keeps the state well formed.
LEMMA TypesStep ==
  ASSUME Types, CommandsOrdered, [Next]_vars
  PROVE  Types'
<1> USE DEF hostVars, controllerVars, historyVars
<1>1. TypeOK /\ CommandsAddressed
  BY DEF Types
<1> HIDE DEF Command, Event, NoCommand
<1>2. ASSUME NEW c \in Ids, NEW opcode \in Opcode, NEW h \in Handle \cup {"none"},
             Issue(c, opcode, h)
      PROVE  Types'
  <2> DEFINE cmd == [id |-> c, opcode |-> opcode, handle |-> h]
  <2>1. cmd \in Command
    BY DEF Command
  <2>2. Addressed(cmd)
    BY <1>1, <1>2 DEF Issue, MayIssue, Addressed, TypeOK
  <2>3. SendCommand(cmd)
    BY <1>2 DEF Issue
  <2> HIDE DEF cmd
  <2>4. /\ pendingCommand' \in Pending /\ commandQueue' \in Seq(Command)
        /\ executing' \in Command \cup {NoCommand}
        /\ CommandsAddressed'
    BY <2>1, <2>2, <2>3, SendCommandTypes
  <2>5. issuedOn' \in [Ids -> 0 .. MaxLinks]
    BY <1>1, <1>2, CommandAssumption DEF Issue, TypeOK
  <2>6. QED
    BY <1>1, <1>2, <2>4, <2>5 DEF Issue, TypeOK, Types
<1>3. CASE Stop
  BY <1>1, <1>3 DEF Stop, TypeOK, CommandsAddressed, Types, Addressed
<1>4. CASE HandleForeignResponse
  BY <1>1, <1>4, ReceiveProperties DEF HandleForeignResponse, TypeOK, CommandsAddressed, Types, Addressed
<1>5. CASE HandleCommandResponse
  <2> DEFINE event == Head(hciEvents)
             cmd == pendingCommand.cmd
  <2>1. /\ hciEvents' \in Seq(Event) /\ event \in Event /\ event.type = "response"
    BY <1>1, <1>5, ReceiveProperties DEF HandleCommandResponse
  <2>2. event.to \in Ids \cup {None} /\ event.status \in Status
    BY <2>1, EventProperties
  <2>3. cmd \in Command
    BY <1>1, <1>5, PendingProperties DEF HandleCommandResponse, IsExpected, MustWait
  <2>4. cmd.id \in Ids /\ (cmd.opcode \in Procedure => cmd.handle \in Handle)
    BY <1>1, <2>3 DEF Command, CommandsAddressed, Addressed, HandleOpcode
  <2>5. SendNextCommand
    BY <1>5 DEF HandleCommandResponse
  <2>6. /\ pendingCommand' \in Pending /\ commandQueue' \in Seq(Command)
        /\ executing' \in Command \cup {NoCommand}
        /\ CommandsAddressed'
    BY <2>5, SendNextTypes
  <2>7. responseTo' \in [Ids -> Ids \cup {None}]
    BY <1>1, <1>5, <2>2, <2>4 DEF HandleCommandResponse, TypeOK
  <2>8. /\ eventCallback' \in [Handle -> [Procedure -> Ids \cup {None}]]
        /\ outcome' \in [Ids -> {"new", "waiting", "started", "answered", "gone"}]
        /\ crashed' \in {"no", "TypeError", "alreadyConnected", "hardwareError"}
    <3>1. CASE pendingCommand.ignoreResponse
      BY <1>1, <1>5, <3>1 DEF HandleCommandResponse, TypeOK
    <3>2. CASE ~pendingCommand.ignoreResponse
      <4>1. RunCallback(cmd, event.status)
        BY <1>5, <3>2 DEF HandleCommandResponse
      <4> HIDE DEF cmd, event
      <4>2. CASE cmd.opcode \in Procedure /\ event.status = "ok" /\ cmd.handle \in activeConnections
        <5>1. /\ eventCallback' = [eventCallback EXCEPT ![cmd.handle][cmd.opcode] = cmd.id]
              /\ outcome' = [outcome EXCEPT ![cmd.id] = "started"] /\ crashed' = crashed
          BY <4>1, <4>2 DEF RunCallback
        <5>2. QED
          BY <1>1, <2>4, <4>2, <5>1 DEF TypeOK
      <4>3. CASE ~(cmd.opcode \in Procedure /\ event.status = "ok")
        <5>1. /\ eventCallback' = eventCallback
              /\ outcome' = [outcome EXCEPT ![cmd.id] = "answered"] /\ crashed' = crashed
          BY <4>1, <4>3 DEF RunCallback
        <5>2. QED
          BY <1>1, <2>4, <5>1 DEF TypeOK
      <4>4. CASE /\ cmd.opcode \in Procedure /\ event.status = "ok"
                 /\ cmd.handle \notin activeConnections
        <5>1. eventCallback' = eventCallback /\ outcome' = outcome /\ crashed' = "TypeError"
          BY <4>1, <4>4 DEF RunCallback
        <5>2. QED
          BY <1>1, <5>1 DEF TypeOK
      <4>5. QED
        BY <4>2, <4>3, <4>4
    <3>3. QED
      BY <3>1, <3>2
  <2>9. QED
    BY <1>1, <1>5, <2>1, <2>6, <2>7, <2>8 DEF HandleCommandResponse, TypeOK, Types
<1>6. CASE HandleProcedureComplete
  <2> DEFINE h == Head(hciEvents).handle
             p == Head(hciEvents).opcode
  <2>1. /\ hciEvents' \in Seq(Event) /\ Head(hciEvents) \in Event
        /\ Head(hciEvents).type = "procedureComplete"
    BY <1>1, <1>6, ReceiveProperties DEF HandleProcedureComplete
  <2>2. h \in Handle /\ p \in Procedure
    BY <2>1, EventProperties
  <2>3. /\ eventCallback' \in [Handle -> [Procedure -> Ids \cup {None}]]
        /\ outcome' \in [Ids -> {"new", "waiting", "started", "answered", "gone"}]
    <3>1. CASE h \in activeConnections /\ eventCallback[h][p] # None
      <4>1. /\ outcome' = [outcome EXCEPT ![eventCallback[h][p]] = "answered"]
            /\ eventCallback' = [eventCallback EXCEPT ![h][p] = None]
        BY <1>6, <3>1 DEF HandleProcedureComplete
      <4> HIDE DEF h, p
      <4>2. eventCallback[h][p] \in Ids
        BY <1>1, <2>2, <3>1 DEF TypeOK
      <4>3. QED
        BY <1>1, <2>2, <4>1, <4>2 DEF TypeOK
    <3>2. CASE ~(h \in activeConnections /\ eventCallback[h][p] # None)
      <4>1. outcome' = outcome /\ eventCallback' = eventCallback
        BY <1>6, <3>2 DEF HandleProcedureComplete
      <4>2. QED
        BY <1>1, <4>1 DEF TypeOK
    <3>3. QED
      BY <3>1, <3>2
  <2>4. QED
    BY <1>1, <1>6, <2>1, <2>3 DEF HandleProcedureComplete, TypeOK, Types, CommandsAddressed, Addressed
<1>7. CASE HandleLeConnectionComplete
  <2> DEFINE event == Head(hciEvents)
             h == event.handle
  <2>1. /\ hciEvents' \in Seq(Event) /\ event \in Event /\ event.type = "connected"
    BY <1>1, <1>7, ReceiveProperties DEF HandleLeConnectionComplete
  <2>2. h \in Handle /\ event.number \in 1 .. MaxLinks
    BY <2>1, EventProperties
  <2>3. /\ activeConnections' \in SUBSET Handle
        /\ eventCallback' \in [Handle -> [Procedure -> Ids \cup {None}]]
        /\ crashed' \in {"no", "TypeError", "alreadyConnected", "hardwareError"}
        /\ linkOf' \in [Handle -> 0 .. MaxLinks]
    <3>1. CASE h \in activeConnections
      BY <1>1, <1>7, <3>1 DEF HandleLeConnectionComplete, TypeOK
    <3>2. CASE h \notin activeConnections
      <4>1. /\ activeConnections' = activeConnections \cup {h}
            /\ eventCallback' = [eventCallback EXCEPT ![h] = [p \in Procedure |-> None]]
            /\ linkOf' = [linkOf EXCEPT ![h] = event.number] /\ crashed' = crashed
        BY <1>7, <3>2 DEF HandleLeConnectionComplete
      <4>2. event.number \in 0 .. MaxLinks
        BY <2>2, CommandAssumption
      <4> HIDE DEF h, event
      <4>3. QED
        BY <1>1, <2>2, <4>1, <4>2 DEF TypeOK
    <3>3. QED
      BY <3>1, <3>2
  <2>4. /\ pendingCommand' \in Pending /\ commandQueue' \in Seq(Command)
        /\ executing' \in Command \cup {NoCommand}
        /\ CommandsAddressed'
        /\ issuedOn' \in [Ids -> 0 .. MaxLinks]
        /\ outcome' \in [Ids -> {"new", "waiting", "started", "answered", "gone"}]
    <3>1. CASE UNCHANGED <<pendingCommand, commandQueue, executing, issuedOn, outcome>>
      BY <1>1, <3>1 DEF TypeOK, CommandsAddressed, Addressed
    <3>2. ASSUME NEW c \in Ids,
                 SendCommand([id |-> c, opcode |-> "disconnect", handle |-> h]),
                 outcome' = [outcome EXCEPT ![c] = "waiting"],
                 issuedOn' = [issuedOn EXCEPT ![c] = event.number]
          PROVE  /\ pendingCommand' \in Pending /\ commandQueue' \in Seq(Command)
                 /\ executing' \in Command \cup {NoCommand}
                 /\ CommandsAddressed'
                 /\ issuedOn' \in [Ids -> 0 .. MaxLinks]
                 /\ outcome' \in [Ids -> {"new", "waiting", "started", "answered", "gone"}]
      <4> DEFINE cmd == [id |-> c, opcode |-> "disconnect", handle |-> h]
      <4>1. cmd \in Command /\ Addressed(cmd)
        BY <2>2 DEF Command, Addressed, Opcode, HandleOpcode
      <4>2. SendCommand(cmd)
        BY <3>2
      <4> HIDE DEF cmd
      <4>3. QED
        BY <1>1, <2>2, <3>2, <4>1, <4>2, SendCommandTypes, CommandAssumption DEF TypeOK
    <3>3. CASE h \in activeConnections
      BY <1>7, <3>1, <3>3 DEF HandleLeConnectionComplete
    <3>4. CASE h \notin activeConnections
      <4>1. \/ UNCHANGED <<pendingCommand, commandQueue, executing, issuedOn, outcome>>
            \/ \E c \in Ids :
                 /\ SendCommand([id |-> c, opcode |-> "disconnect", handle |-> h])
                 /\ outcome' = [outcome EXCEPT ![c] = "waiting"]
                 /\ issuedOn' = [issuedOn EXCEPT ![c] = event.number]
        BY <1>7, <3>4 DEF HandleLeConnectionComplete
      <4> HIDE DEF h, event
      <4>2. QED
        BY <3>1, <3>2, <4>1
    <3>5. QED
      BY <3>3, <3>4
  <2>5. QED
    BY <1>1, <1>7, <2>1, <2>3, <2>4 DEF HandleLeConnectionComplete, TypeOK, Types
<1>8. CASE HandleDisconnectionComplete
  <2> DEFINE h == Head(hciEvents).handle
  <2>1. /\ hciEvents' \in Seq(Event) /\ Head(hciEvents) \in Event
        /\ Head(hciEvents).type = "disconnected"
    BY <1>1, <1>8, ReceiveProperties DEF HandleDisconnectionComplete
  <2>2. h \in Handle
    BY <2>1, EventProperties
  <2> HIDE DEF h
  <2>3. commandQueue' = Survivors(h) /\ pendingCommand' = AfterDisconnect(h)
    BY <1>8 DEF HandleDisconnectionComplete, h
  <2>4. commandQueue' \in Seq(Command) /\ \A i \in DOMAIN commandQueue' : Addressed(commandQueue'[i])
    BY <1>1, <2>3, SurvivorsProperties DEF CommandsAddressed
  <2>5. pendingCommand' \in Pending /\ pendingCommand'.cmd = pendingCommand.cmd
    BY <1>1, <2>2, <2>3 DEF AfterDisconnect, Pending, TypeOK
  <2>6. /\ eventCallback' \in [Handle -> [Procedure -> Ids \cup {None}]]
        /\ outcome' \in [Ids -> {"new", "waiting", "started", "answered", "gone"}]
        /\ activeConnections' \in SUBSET Handle
    BY <1>1, <1>8, <2>2 DEF HandleDisconnectionComplete, TypeOK, h
  <2>7. CommandsAddressed'
    BY <1>1, <1>8, <2>4, <2>5 DEF CommandsAddressed, Addressed, HandleDisconnectionComplete
  <2>8. QED
    BY <1>1, <1>8, <2>1, <2>4, <2>5, <2>6, <2>7 DEF HandleDisconnectionComplete, TypeOK, Types
<1>9. CASE HandleHardwareError
  <2>1. hciEvents' \in Seq(Event)
    BY <1>1, <1>9, ReceiveProperties DEF HandleHardwareError
  <2>2. /\ pendingCommand' = Idle /\ commandQueue' = <<>> /\ executing' = executing
    BY <1>9 DEF HandleHardwareError
  <2>3. Addressed(Idle.cmd)
    BY CommandAssumption DEF Addressed, Idle, NoCommand, HandleOpcode
  <2>4. CommandsAddressed'
    BY <1>1, <2>2, <2>3 DEF CommandsAddressed, Addressed
  <2>5. pendingCommand' \in Pending
    BY <1>1, <2>2, PendingProperties
  <2>6. QED
    BY <1>1, <1>9, <2>1, <2>2, <2>4, <2>5 DEF HandleHardwareError, TypeOK, Types
<1>10. ASSUME NEW status \in Status, Respond(status)
       PROVE  Types'
  <2> DEFINE event == [type |-> "response", opcode |-> executing.opcode,
                       status |-> status, to |-> executing.id]
  <2>1. executing \in Command
    BY <1>1, <1>10 DEF Respond, TypeOK
  <2>2. event \in Event
    BY <2>1 DEF Event, Command
  <2>3. hciEvents' = Append(hciEvents, event)
    BY <1>10 DEF Respond
  <2> HIDE DEF event
  <2>4. hciEvents' \in Seq(Event)
    BY <1>1, <2>2, <2>3, AppendEvent
  <2>5. procedures' \in SUBSET (Procedure \X Handle)
    BY <1>1, <1>10, <2>1 DEF Respond, TypeOK, CommandsAddressed, Addressed, HandleOpcode, Command
  <2>6. Addressed(NoCommand)
    BY CommandAssumption DEF Addressed, NoCommand, HandleOpcode
  <2>7. QED
    BY <1>1, <1>10, <2>4, <2>5, <2>6 DEF Respond, TypeOK, CommandsAddressed, Addressed, Types
<1>11. CASE RespondForeign
  <2> DEFINE event == [type |-> "response", opcode |-> "foreign", status |-> "ok", to |-> None]
  <2>1. event \in Event
    BY DEF Event, Status
  <2>2. hciEvents' = <<event>>
    BY <1>11 DEF RespondForeign
  <2> HIDE DEF event
  <2>3. hciEvents' \in Seq(Event)
    BY <2>1, <2>2
  <2>4. QED
    BY <1>1, <1>11, <2>3 DEF RespondForeign, TypeOK, CommandsAddressed, Addressed, Types
<1>12. ASSUME NEW p \in Procedure, NEW h \in Handle, CompleteProcedure(p, h)
       PROVE  Types'
  <2>1. [type |-> "procedureComplete", opcode |-> p, handle |-> h] \in Event
    BY DEF Event
  <2>2. hciEvents' \in Seq(Event)
    BY <1>1, <1>12, <2>1, AppendEvent DEF CompleteProcedure
  <2>3. QED
    BY <1>1, <1>12, <2>2 DEF CompleteProcedure, TypeOK, CommandsAddressed, Addressed, Types
<1>13. ASSUME NEW h \in Handle, LinkUp(h)
       PROVE  Types'
  <2>1. linkCount' \in 1 .. MaxLinks /\ linkCount' = linkCount + 1
    BY <1>1, <1>13, CommandAssumption DEF LinkUp, TypeOK
  <2>2. [type |-> "connected", handle |-> h, number |-> linkCount + 1] \in Event
    BY <2>1 DEF Event
  <2>3. hciEvents' \in Seq(Event)
    BY <1>1, <1>13, <2>2, AppendEvent DEF LinkUp
  <2>4. QED
    BY <1>1, <1>13, <2>1, <2>3 DEF LinkUp, TypeOK, CommandsAddressed, Addressed, Types
<1>14. ASSUME NEW h \in Handle, LinkDown(h)
       PROVE  Types'
  <2>1. [type |-> "disconnected", handle |-> h] \in Event
    BY DEF Event
  <2>2. hciEvents' \in Seq(Event)
    BY <1>1, <1>14, <2>1, AppendEvent DEF LinkDown
  <2>3. QED
    BY <1>1, <1>14, <2>2 DEF LinkDown, TypeOK, CommandsAddressed, Addressed, Types
<1>15. CASE Malfunction
  <2>1. [type |-> "hardwareError"] \in Event
    BY DEF Event
  <2>2. hciEvents' \in Seq(Event)
    BY <1>1, <1>15, <2>1, AppendEvent DEF Malfunction
  <2>3. faults' \in 0 .. MaxFaults
    BY <1>1, <1>15, CommandAssumption DEF Malfunction, TypeOK
  <2>4. QED
    BY <1>1, <1>15, <2>2, <2>3 DEF Malfunction, TypeOK, CommandsAddressed, Addressed, Types
<1>16. CASE UNCHANGED vars
  BY <1>1, <1>16 DEF vars, TypeOK, CommandsAddressed, Addressed, Types
<1>17. QED
  BY <1>2, <1>3, <1>4, <1>5, <1>6, <1>7, <1>8, <1>9, <1>10, <1>11, <1>12, <1>13, <1>14, <1>15,
     <1>16 DEF Next, HostStep, ControllerWorks

-----------------------------------------------------------------------------
(* The order of commands. *)

\* A command that was never issued goes behind all others.
LEMMA SendCommandOrdered ==
  ASSUME Types, CommandsOrdered, NEW cmd \in Command, outcome[cmd.id] = "new",
         SendCommand(cmd), outcome' = [outcome EXCEPT ![cmd.id] = "waiting"],
         UNCHANGED responseTo,
         \A h \in Handle, p \in Procedure : eventCallback'[h][p] \in {None, eventCallback[h][p]}
  PROVE  CommandsOrdered'
<1>1. TypeOK /\ cmd.id \in Ids
  BY DEF Types, Command
<1>2. outcome \in [Ids -> {"new", "waiting", "started", "answered", "gone"}]
  BY <1>1 DEF TypeOK
<1>3. /\ \A i \in DOMAIN commandQueue : commandQueue[i] \in Command /\ commandQueue[i].id \in Ids
      /\ pendingCommand # Idle => pendingCommand.cmd \in Command /\ pendingCommand.cmd.id \in Ids
  BY <1>1, QueueProperties, PendingProperties DEF Command
<1> HIDE DEF Command
<1>4. CASE MustWait
  <2>1. /\ commandQueue' = Append(commandQueue, cmd) /\ pendingCommand' = pendingCommand
        /\ pendingCommand # Idle
    BY <1>4 DEF SendCommand, MustWait
  <2>2. cmd.id # pendingCommand.cmd.id
    BY <2>1 DEF CommandsOrdered
  <2>3. \A i \in DOMAIN commandQueue : commandQueue[i].id # cmd.id
    BY DEF CommandsOrdered
  <2>4. \A i \in DOMAIN commandQueue' :
          \/ i \in DOMAIN commandQueue /\ commandQueue'[i] = commandQueue[i]
          \/ i = Len(commandQueue) + 1 /\ commandQueue'[i] = cmd
    BY <1>1, <2>1, QueueProperties
  <2>5. \A i \in DOMAIN commandQueue' :
          /\ outcome'[commandQueue'[i].id] = "waiting"
          /\ commandQueue'[i].id # pendingCommand'.cmd.id
          /\ \A j \in DOMAIN commandQueue' : commandQueue'[i].id = commandQueue'[j].id => i = j
    BY <1>1, <1>2, <1>3, <2>1, <2>2, <2>3, <2>4 DEF CommandsOrdered
  <2>6. outcome'[pendingCommand.cmd.id] = outcome[pendingCommand.cmd.id]
    BY <1>2, <1>3, <2>1, <2>2
  <2>7. QED
    BY <1>1, <1>2, <2>1, <2>5, <2>6 DEF CommandsOrdered
<1>5. CASE ~MustWait
  <2>1. /\ commandQueue' = <<>> /\ pendingCommand' = [cmd |-> cmd, ignoreResponse |-> FALSE]
    BY <1>5 DEF SendCommand, MustWait, ReallySendCommand, CommandsOrdered
  <2>2. DOMAIN commandQueue' = {}
    BY <2>1
  <2>3. outcome'[cmd.id] = "waiting" /\ responseTo[cmd.id] = None
    BY <1>1, <1>2 DEF CommandsOrdered
  <2>4. QED
    BY <1>1, <1>2, <2>1, <2>2, <2>3 DEF CommandsOrdered
<1>6. QED
  BY <1>4, <1>5

\* What is left once the pending command had its response: the first of the others is pending.
LEMMA SendNextOrdered ==
  ASSUME Types, CommandsOrdered, SendNextCommand
  PROVE  /\ pendingCommand' = Idle => commandQueue' = <<>>
         /\ pendingCommand' # Idle => /\ ~pendingCommand'.ignoreResponse
                                      /\ outcome[pendingCommand'.cmd.id] = "waiting"
                                      /\ pendingCommand'.cmd.id # pendingCommand.cmd.id
                                      /\ pendingCommand'.cmd.id \in Ids
         /\ \A i \in DOMAIN commandQueue' :
              /\ outcome[commandQueue'[i].id] = "waiting"
              /\ commandQueue'[i].id \in Ids
              /\ commandQueue'[i].id # pendingCommand.cmd.id
              /\ commandQueue'[i].id # pendingCommand'.cmd.id
              /\ \A j \in DOMAIN commandQueue' : commandQueue'[i].id = commandQueue'[j].id => i = j
<1>1. TypeOK /\ \A i \in DOMAIN commandQueue : commandQueue[i].id \in Ids /\ commandQueue[i] \in Command
  BY QueueProperties DEF Types, Command
<1> HIDE DEF Command
<1>2. CASE commandQueue = <<>>
  <2>1. pendingCommand' = Idle /\ commandQueue' = <<>>
    BY <1>2 DEF SendNextCommand
  <2>2. DOMAIN commandQueue' = {}
    BY <2>1
  <2>3. QED
    BY <2>1, <2>2
<1>3. CASE commandQueue # <<>>
  <2>1. /\ commandQueue' = Tail(commandQueue)
        /\ pendingCommand' = [cmd |-> commandQueue[1], ignoreResponse |-> FALSE]
        /\ pendingCommand'.cmd = commandQueue[1] /\ ~pendingCommand'.ignoreResponse
        /\ 1 \in DOMAIN commandQueue
    BY <1>1, <1>3, QueueProperties DEF SendNextCommand, ReallySendCommand
  <2>2. \A i \in DOMAIN commandQueue' :
          commandQueue'[i] = commandQueue[i + 1] /\ i + 1 \in DOMAIN commandQueue /\ i + 1 # 1 /\ i \in Nat
    BY <1>1, <1>3, <2>1, QueueProperties
  <2>3. pendingCommand' # Idle
    BY <1>1, <2>1, PendingProperties
  <2>4. \A i, j \in DOMAIN commandQueue' : i + 1 = j + 1 => i = j
    BY <2>2
  <2>5. QED
    BY <1>1, <2>1, <2>2, <2>3, <2>4 DEF CommandsOrdered
<1>4. QED
  BY <1>2, <1>3

\* Every step keeps the commands in order.
LEMMA OrderedStep ==
  ASSUME Types, CommandsOrdered, OneOutstanding, OpcodesMatch, RightLink, [Next]_vars
  PROVE  CommandsOrdered'
<1> USE DEF hostVars, controllerVars, historyVars
<1>1. /\ TypeOK /\ CommandsAddressed
      /\ outcome \in [Ids -> {"new", "waiting", "started", "answered", "gone"}]
      /\ responseTo \in [Ids -> Ids \cup {None}]
      /\ eventCallback \in [Handle -> [Procedure -> Ids \cup {None}]]
  BY DEF Types, TypeOK
<1> HIDE DEF Command, Event, NoCommand
<1>2. CASE UNCHANGED <<pendingCommand, commandQueue, outcome, responseTo, eventCallback>>
  BY <1>2 DEF CommandsOrdered
<1>3. ASSUME NEW c \in Ids, NEW opcode \in Opcode, NEW h \in Handle \cup {"none"},
             Issue(c, opcode, h)
      PROVE  CommandsOrdered'
  <2> DEFINE cmd == [id |-> c, opcode |-> opcode, handle |-> h]
  <2>1. cmd \in Command /\ cmd.id = c
    BY DEF Command
  <2>2. /\ SendCommand(cmd) /\ outcome[c] = "new" /\ outcome' = [outcome EXCEPT ![c] = "waiting"]
        /\ UNCHANGED <<responseTo, eventCallback>>
    BY <1>3 DEF Issue, IsNext
  <2> HIDE DEF cmd
  <2>3. QED
    BY <2>1, <2>2, SendCommandOrdered
<1>4. CASE HandleCommandResponse
  <2> DEFINE event == Head(hciEvents)
             cmd == pendingCommand.cmd
  <2>1. SendNextCommand
    BY <1>4 DEF HandleCommandResponse
  <2>2. event.type = "response" /\ event.to \in Ids \cup {None} /\ event.opcode = cmd.opcode
        /\ event = hciEvents[1] /\ 1 \in DOMAIN hciEvents
    BY <1>1, <1>4, ReceiveProperties, EventProperties DEF HandleCommandResponse, IsExpected
  <2>3. cmd \in Command /\ cmd.id \in Ids /\ cmd.opcode \in Opcode /\ pendingCommand # Idle
    BY <1>1, <1>4, PendingProperties DEF HandleCommandResponse, IsExpected, MustWait, Command
  <2>4. event.to # None
    <3>1. cmd.opcode # "foreign"
      BY <2>3, CommandAssumption DEF Opcode, HandleOpcode
    <3>2. QED
      BY <2>2, <3>1 DEF OpcodesMatch
  <2> HIDE DEF event, cmd
  <2>5. /\ \A c \in Ids : c # cmd.id => outcome'[c] = outcome[c] /\ responseTo'[c] = responseTo[c]
        /\ outcome'[cmd.id] \in {outcome[cmd.id], "started", "answered"}
        /\ responseTo'[cmd.id] \in {responseTo[cmd.id], event.to}
        /\ \A h \in Handle, p \in Procedure : eventCallback'[h][p] \in {eventCallback[h][p], cmd.id}
    <3>1. CASE pendingCommand.ignoreResponse
      BY <1>4, <3>1 DEF HandleCommandResponse
    <3>2. CASE ~pendingCommand.ignoreResponse
      <4>1. RunCallback(cmd, event.status) /\ responseTo' = [responseTo EXCEPT ![cmd.id] = event.to]
        BY <1>4, <3>2 DEF HandleCommandResponse, cmd, event
      <4>2. /\ outcome' \in {outcome, [outcome EXCEPT ![cmd.id] = "started"],
                             [outcome EXCEPT ![cmd.id] = "answered"]}
            /\ eventCallback' \in {eventCallback, [eventCallback EXCEPT ![cmd.handle][cmd.opcode] = cmd.id]}
        BY <4>1 DEF RunCallback
      <4>3. \A h \in Handle, p \in Procedure : eventCallback'[h][p] \in {eventCallback[h][p], cmd.id}
        BY <1>1, <4>2
      <4>4. QED
        BY <1>1, <2>3, <4>1, <4>2, <4>3
    <3>3. QED
      BY <3>1, <3>2
  <2>6. pendingCommand.ignoreResponse =>
          outcome' = outcome /\ responseTo' = responseTo /\ eventCallback' = eventCallback
    BY <1>4 DEF HandleCommandResponse
  <2>7. ~pendingCommand.ignoreResponse => responseTo'[cmd.id] = event.to
    BY <1>1, <1>4, <2>3 DEF HandleCommandResponse, cmd, event
  <2>8. \A c \in Ids : outcome'[c] \in {"new", "waiting"} => responseTo'[c] = None
    <3>1. TAKE c \in Ids
    <3>2. CASE c # cmd.id \/ pendingCommand.ignoreResponse
      BY <2>5, <2>6, <3>2 DEF CommandsOrdered
    <3>3. CASE c = cmd.id /\ ~pendingCommand.ignoreResponse
      <4>1. \/ outcome'[c] \notin {"new", "waiting"}
            \/ crashed' = "TypeError" /\ cmd.handle \notin activeConnections /\ cmd.opcode \in Procedure
        BY <1>1, <1>4, <2>3, <3>3 DEF HandleCommandResponse, RunCallback, cmd
      <4>2. cmd.opcode \in Procedure => cmd.handle \in activeConnections
        <5>1. cmd \in Unanswered
          BY <3>3 DEF Unanswered, cmd
        <5>2. QED
          BY <1>1, <5>1 DEF RightLink, CommandsAddressed, Addressed, HandleOpcode, cmd
      <4>3. QED
        BY <4>1, <4>2
    <3>4. QED
      BY <3>2, <3>3
  <2>9. \A h \in Handle, p \in Procedure :
          eventCallback'[h][p] # None => responseTo'[eventCallback'[h][p]] # None
    <3>1. TAKE h \in Handle, p \in Procedure
    <3>2. CASE pendingCommand.ignoreResponse
      BY <2>6, <3>2 DEF CommandsOrdered
    <3>3. CASE ~pendingCommand.ignoreResponse
      <4>1. responseTo'[cmd.id] # None
        BY <2>4, <2>7, <3>3
      <4>2. eventCallback[h][p] # None => responseTo[eventCallback[h][p]] # None
                                           /\ eventCallback[h][p] \in Ids
        BY <1>1 DEF CommandsOrdered
      <4>3. QED
        BY <2>5, <4>1, <4>2
    <3>4. QED
      BY <3>2, <3>3
  <2>10. /\ pendingCommand' = Idle => commandQueue' = <<>>
         /\ pendingCommand' # Idle => /\ ~pendingCommand'.ignoreResponse
                                      /\ outcome[pendingCommand'.cmd.id] = "waiting"
                                      /\ pendingCommand'.cmd.id # pendingCommand.cmd.id
                                      /\ pendingCommand'.cmd.id \in Ids
         /\ \A i \in DOMAIN commandQueue' :
              /\ outcome[commandQueue'[i].id] = "waiting"
              /\ commandQueue'[i].id \in Ids
              /\ commandQueue'[i].id # pendingCommand.cmd.id
              /\ commandQueue'[i].id # pendingCommand'.cmd.id
              /\ \A j \in DOMAIN commandQueue' : commandQueue'[i].id = commandQueue'[j].id => i = j
    BY <2>1, SendNextOrdered
  <2>11. \A c \in Ids : outcome[c] = "waiting" => responseTo[c] = None
    BY DEF CommandsOrdered
  <2>12. /\ \A i \in DOMAIN commandQueue' : outcome'[commandQueue'[i].id] = "waiting"
         /\ pendingCommand' # Idle => /\ outcome'[pendingCommand'.cmd.id] = "waiting"
                                      /\ responseTo'[pendingCommand'.cmd.id] = None
    BY <2>5, <2>10, <2>11 DEF cmd
  <2>13. QED
    BY <2>8, <2>9, <2>10, <2>12 DEF CommandsOrdered
<1>5. CASE HandleProcedureComplete
  <2> DEFINE h == Head(hciEvents).handle
             p == Head(hciEvents).opcode
             c == eventCallback[h][p]
  <2>1. h \in Handle /\ p \in Procedure
    BY <1>1, <1>5, ReceiveProperties, EventProperties DEF HandleProcedureComplete
  <2>2. /\ UNCHANGED <<pendingCommand, commandQueue, responseTo>>
        /\ \/ UNCHANGED <<outcome, eventCallback>>
           \/ /\ c # None /\ outcome' = [outcome EXCEPT ![c] = "answered"]
              /\ eventCallback' = [eventCallback EXCEPT ![h][p] = None]
    BY <1>5 DEF HandleProcedureComplete
  <2> HIDE DEF h, p
  <2>3. CASE UNCHANGED <<outcome, eventCallback>>
    BY <1>2, <2>2, <2>3
  <2>4. CASE /\ c # None /\ outcome' = [outcome EXCEPT ![c] = "answered"]
             /\ eventCallback' = [eventCallback EXCEPT ![h][p] = None]
    <3>1. c \in Ids /\ responseTo[c] # None
      BY <1>1, <2>1, <2>4 DEF CommandsOrdered
    <3>2. \A d \in Ids : responseTo[d] = None => outcome'[d] = outcome[d]
      BY <1>1, <2>4, <3>1
    <3>3. \A i \in DOMAIN commandQueue :
            commandQueue[i].id \in Ids /\ outcome'[commandQueue[i].id] = "waiting"
      <4>1. TAKE i \in DOMAIN commandQueue
      <4>2. commandQueue[i].id \in Ids /\ outcome[commandQueue[i].id] = "waiting"
        BY <1>1, QueueProperties DEF CommandsOrdered, Command
      <4>3. responseTo[commandQueue[i].id] = None
        BY <4>2 DEF CommandsOrdered
      <4>4. QED
        BY <3>2, <4>2, <4>3
    <3>4. pendingCommand # Idle =>
            pendingCommand.cmd.id \in Ids /\ outcome'[pendingCommand.cmd.id] = outcome[pendingCommand.cmd.id]
      BY <1>1, <3>2, PendingProperties DEF CommandsOrdered, Command
    <3>5. \A g \in Handle, q \in Procedure : eventCallback'[g][q] \in {None, eventCallback[g][q]}
      BY <1>1, <2>1, <2>4
    <3>6. \A d \in Ids : outcome'[d] \in {"new", "waiting"} => outcome'[d] = outcome[d]
      BY <1>1, <2>4, <3>1
    <3>7. QED
      BY <1>1, <2>2, <3>3, <3>4, <3>5, <3>6 DEF CommandsOrdered
  <2>5. QED
    BY <2>2, <2>3, <2>4
<1>6. CASE HandleLeConnectionComplete
  <2> DEFINE event == Head(hciEvents)
             h == event.handle
  <2>1. h \in Handle /\ responseTo' = responseTo
    BY <1>1, <1>6, ReceiveProperties, EventProperties DEF HandleLeConnectionComplete
  <2>2. CASE h \in activeConnections
    BY <1>2, <1>6, <2>1, <2>2 DEF HandleLeConnectionComplete
  <2>3. CASE h \notin activeConnections
    <3>1. /\ eventCallback' = [eventCallback EXCEPT ![h] = [p \in Procedure |-> None]]
          /\ \/ UNCHANGED <<pendingCommand, commandQueue, executing, issuedOn, outcome>>
             \/ \E c \in Ids :
                  /\ outcome[c] = "new"
                  /\ SendCommand([id |-> c, opcode |-> "disconnect", handle |-> h])
                  /\ outcome' = [outcome EXCEPT ![c] = "waiting"]
      BY <1>6, <2>3 DEF HandleLeConnectionComplete, IsNext
    <3>2. \A g \in Handle, p \in Procedure : eventCallback'[g][p] \in {None, eventCallback[g][p]}
      <4> HIDE DEF h
      <4>1. QED
        BY <1>1, <2>1, <3>1
    <3>3. CASE UNCHANGED <<pendingCommand, commandQueue, executing, issuedOn, outcome>>
      BY <2>1, <3>2, <3>3 DEF CommandsOrdered
    <3>4. ASSUME NEW c \in Ids, outcome[c] = "new",
                 SendCommand([id |-> c, opcode |-> "disconnect", handle |-> h]),
                 outcome' = [outcome EXCEPT ![c] = "waiting"]
          PROVE  CommandsOrdered'
      <4> DEFINE cmd == [id |-> c, opcode |-> "disconnect", handle |-> h]
      <4>1. cmd \in Command /\ cmd.id = c
        BY <2>1 DEF Command, Opcode, HandleOpcode
      <4>2. SendCommand(cmd)
        BY <3>4
      <4> HIDE DEF cmd
      <4>3. QED
        BY <2>1, <3>2, <3>4, <4>1, <4>2, SendCommandOrdered
    <3> HIDE DEF h
    <3>5. QED
      BY <3>1, <3>3, <3>4
  <2>4. QED
    BY <2>2, <2>3
<1>7. CASE HandleDisconnectionComplete
  <2> DEFINE h == Head(hciEvents).handle
             orphans == {cmd.id : cmd \in {c \in Unanswered : c.handle = h}}
                          \cup {eventCallback[h][p] : p \in Procedure}
  <2>1. h \in Handle
    BY <1>1, <1>7, ReceiveProperties, EventProperties DEF HandleDisconnectionComplete
  <2>2. /\ commandQueue' = Survivors(h) /\ pendingCommand' = AfterDisconnect(h)
        /\ eventCallback' = [eventCallback EXCEPT ![h] = [p \in Procedure |-> None]]
        /\ outcome' = [c \in Ids |-> IF c \in orphans THEN "gone" ELSE outcome[c]]
        /\ responseTo' = responseTo
    BY <1>7 DEF HandleDisconnectionComplete
  <2> HIDE DEF h
  <2>3. \A c \in Ids : outcome'[c] \in {"new", "waiting"} => outcome'[c] = outcome[c]
    <3> HIDE DEF orphans
    <3>1. QED
      BY <1>1, <2>2
  <2>4. \A g \in Handle, p \in Procedure : eventCallback'[g][p] \in {None, eventCallback[g][p]}
    BY <1>1, <2>1, <2>2
  <2>5. pendingCommand'.cmd = pendingCommand.cmd
    BY <1>1, <2>2 DEF AfterDisconnect, TypeOK, Pending
  <2>6. ASSUME NEW c \in Ids, responseTo[c] = None,
               \A cmd \in Unanswered : cmd.id = c => cmd.handle # h
        PROVE  outcome'[c] = outcome[c]
    <3>1. c \notin orphans
      <4>1. \A p \in Procedure : eventCallback[h][p] # c
        BY <1>1, <2>1, <2>6 DEF CommandsOrdered, Ids, None
      <4>2. QED
        BY <2>6, <4>1
    <3> HIDE DEF orphans
    <3>2. QED
      BY <2>2, <3>1
  <2>7. \A i \in DOMAIN commandQueue : commandQueue[i].id \in Ids /\ commandQueue[i] \in Command
    BY <1>1, QueueProperties DEF Command
  <2>8. pendingCommand # Idle => pendingCommand.cmd.id \in Ids /\ pendingCommand.cmd \in Command
    BY <1>1, PendingProperties DEF Command
  <2>9. ASSUME NEW i \in DOMAIN commandQueue, commandQueue[i].handle # h
        PROVE  outcome'[commandQueue[i].id] = "waiting"
    <3>1. /\ commandQueue[i].id \in Ids /\ outcome[commandQueue[i].id] = "waiting"
          /\ responseTo[commandQueue[i].id] = None
      BY <2>7, <2>9 DEF CommandsOrdered
    <3>2. \A cmd \in Unanswered : cmd.id = commandQueue[i].id => cmd.handle # h
      <4>1. \A j \in DOMAIN commandQueue : commandQueue[j].id = commandQueue[i].id => j = i
        BY <2>9 DEF CommandsOrdered
      <4>2. pendingCommand.cmd.id # commandQueue[i].id
        BY <2>9 DEF CommandsOrdered
      <4>3. QED
        BY <2>9, <4>1, <4>2 DEF Unanswered
    <3>3. QED
      BY <2>6, <3>1, <3>2
  <2>10. /\ \A k \in DOMAIN commandQueue' : \E i \in DOMAIN commandQueue :
              /\ commandQueue'[k] = commandQueue[i] /\ commandQueue[i].handle # h
              /\ \A l \in DOMAIN commandQueue' : \E j \in DOMAIN commandQueue :
                   commandQueue'[l] = commandQueue[j] /\ (i = j => k = l)
         /\ commandQueue = <<>> => commandQueue' = <<>>
    <3> HIDE DEF orphans
    <3>1. QED
      BY <1>1, <2>2, SurvivorsProperties
  <2>11. \A k \in DOMAIN commandQueue' :
           /\ outcome'[commandQueue'[k].id] = "waiting"
           /\ commandQueue'[k].id # pendingCommand'.cmd.id
           /\ \A l \in DOMAIN commandQueue' : commandQueue'[k].id = commandQueue'[l].id => k = l
    <3>1. TAKE k \in DOMAIN commandQueue'
    <3>2. PICK i \in DOMAIN commandQueue :
            /\ commandQueue'[k] = commandQueue[i] /\ commandQueue[i].handle # h
            /\ \A l \in DOMAIN commandQueue' : \E j \in DOMAIN commandQueue :
                 commandQueue'[l] = commandQueue[j] /\ (i = j => k = l)
      BY <2>10
    <3>3. commandQueue[i].id # pendingCommand.cmd.id
          /\ \A j \in DOMAIN commandQueue : commandQueue[i].id = commandQueue[j].id => i = j
      BY DEF CommandsOrdered
    <3>4. \A l \in DOMAIN commandQueue' : commandQueue'[k].id = commandQueue'[l].id => k = l
      BY <3>2, <3>3
    <3>5. outcome'[commandQueue[i].id] = "waiting"
      BY <2>9, <3>2
    <3>6. QED
      BY <2>5, <3>2, <3>3, <3>4, <3>5
  <2>12. pendingCommand' = Idle <=> pendingCommand = Idle
    BY <1>1, <2>1, <2>2, PendingProperties, CommandAssumption DEF AfterDisconnect, Idle, MustWait
  <2>13. pendingCommand' # Idle =>
           outcome'[pendingCommand'.cmd.id] = IF pendingCommand'.ignoreResponse THEN "gone" ELSE "waiting"
    <3>1. HAVE pendingCommand' # Idle
    <3>2. /\ pendingCommand # Idle /\ pendingCommand.cmd.id \in Ids
          /\ responseTo[pendingCommand.cmd.id] = None
          /\ outcome[pendingCommand.cmd.id] = IF pendingCommand.ignoreResponse THEN "gone" ELSE "waiting"
      BY <2>8, <2>12, <3>1 DEF CommandsOrdered
    <3>3. CASE pendingCommand.ignoreResponse
      <4>1. pendingCommand'.ignoreResponse
        BY <1>1, <2>2, <3>3 DEF AfterDisconnect, TypeOK, Pending
      <4>2. outcome'[pendingCommand.cmd.id] = "gone"
        <5> HIDE DEF orphans
        <5>1. QED
          BY <2>2, <3>2, <3>3
      <4>3. QED
        BY <2>5, <4>1, <4>2
    <3>4. CASE ~pendingCommand.ignoreResponse /\ pendingCommand.cmd.handle = h
      <4>1. pendingCommand'.ignoreResponse
        BY <1>1, <2>2, <3>2, <3>4 DEF AfterDisconnect, TypeOK, Pending, MustWait
      <4>2. pendingCommand.cmd.id \in orphans
        <5>1. pendingCommand.cmd \in Unanswered
          BY <3>4 DEF Unanswered
        <5>2. QED
          BY <3>4, <5>1
      <4>3. outcome'[pendingCommand.cmd.id] = "gone"
        <5> HIDE DEF orphans
        <5>1. QED
          BY <2>2, <3>2, <4>2
      <4>4. QED
        BY <2>5, <4>1, <4>3
    <3>5. CASE ~pendingCommand.ignoreResponse /\ pendingCommand.cmd.handle # h
      <4>1. pendingCommand' = pendingCommand
        BY <2>2, <3>5 DEF AfterDisconnect
      <4>2. \A cmd \in Unanswered : cmd.id = pendingCommand.cmd.id => cmd.handle # h
        BY <3>5 DEF Unanswered, CommandsOrdered
      <4>3. outcome'[pendingCommand.cmd.id] = "waiting"
        BY <2>6, <3>2, <3>5, <4>2
      <4>4. QED
        BY <3>5, <4>1, <4>3
    <3>6. QED
      BY <3>3, <3>4, <3>5
  <2> HIDE DEF orphans
  <2>14. QED
    BY <1>1, <2>2, <2>3, <2>4, <2>5, <2>10, <2>11, <2>12, <2>13 DEF CommandsOrdered
<1>8. CASE HandleHardwareError
  <2>1. /\ pendingCommand' = Idle /\ commandQueue' = <<>>
        /\ UNCHANGED <<outcome, responseTo, eventCallback>>
    BY <1>8 DEF HandleHardwareError
  <2>2. DOMAIN commandQueue' = {}
    BY <2>1
  <2>3. QED
    BY <2>1, <2>2 DEF CommandsOrdered
<1>9. QED
  BY <1>2, <1>3, <1>4, <1>5, <1>6, <1>7, <1>8
  DEF Next, HostStep, ControllerWorks, Stop, HandleForeignResponse, Respond, RespondForeign,
      CompleteProcedure, LinkUp, LinkDown, Malfunction, vars

-----------------------------------------------------------------------------
(* Responses. *)

\* There is one response on its way, that to the command id.
OneInFlight(id) == \E i \in DOMAIN hciEvents : ResponsesInFlight = {i} /\ hciEvents[i].to = id

\* The same responses are in flight after a step, and those of other processes are told apart.
SameInFlight ==
  /\ ResponsesInFlight = {} => ResponsesInFlight' = {}
  /\ \A id \in Ids : OneInFlight(id) => OneInFlight(id)'
  /\ \A i \in DOMAIN hciEvents' : hciEvents'[i].type = "response" =>
       /\ hciEvents'[i].to = None <=> hciEvents'[i].opcode = "foreign"
       /\ hciEvents'[i].to # None =>
            \E j \in DOMAIN hciEvents : hciEvents'[i] = hciEvents[j]

\* Reading an event that is no response in flight leaves those that are.
LEMMA ReadOther ==
  ASSUME TypeOK, OpcodesMatch, NEW type, Receive(type), 1 \notin ResponsesInFlight
  PROVE  SameInFlight
<1>1. /\ Len(hciEvents) \in Nat /\ DOMAIN hciEvents = 1 .. Len(hciEvents)
      /\ DOMAIN hciEvents' = 1 .. Len(hciEvents) - 1
      /\ \A i \in DOMAIN hciEvents' : hciEvents'[i] = hciEvents[i + 1] /\ i + 1 \in DOMAIN hciEvents
  BY ReceiveProperties
<1>2. \A i \in DOMAIN hciEvents' : i \in ResponsesInFlight' <=> i + 1 \in ResponsesInFlight
  BY <1>1 DEF ResponsesInFlight
<1>3. \A i \in ResponsesInFlight : i - 1 \in DOMAIN hciEvents' /\ i = (i - 1) + 1
  BY <1>1 DEF ResponsesInFlight
<1>4. \A i \in ResponsesInFlight' : i \in DOMAIN hciEvents' /\ i \in Int
  BY <1>1 DEF ResponsesInFlight
<1>5. ResponsesInFlight = {} => ResponsesInFlight' = {}
  BY <1>2, <1>4
<1>6. ASSUME NEW id \in Ids, OneInFlight(id)
      PROVE  OneInFlight(id)'
  <2>1. PICK i \in DOMAIN hciEvents : ResponsesInFlight = {i} /\ hciEvents[i].to = id
    BY <1>6 DEF OneInFlight
  <2>2. /\ i - 1 \in DOMAIN hciEvents' /\ (i - 1) + 1 = i
        /\ hciEvents'[i - 1].to = id /\ i - 1 \in ResponsesInFlight'
    BY <1>1, <1>2, <1>3, <2>1
  <2>3. \A j \in ResponsesInFlight' : j = i - 1
    <3>1. TAKE j \in ResponsesInFlight'
    <3>2. j + 1 = i /\ j \in Int /\ i \in Int
      BY <1>1, <1>2, <1>4, <2>1
    <3>3. QED
      BY <3>2
  <2>4. ResponsesInFlight' = {i - 1}
    BY <2>2, <2>3
  <2>5. QED
    BY <2>2, <2>4 DEF OneInFlight
<1>7. \A i \in DOMAIN hciEvents' : hciEvents'[i].type = "response" =>
        /\ hciEvents'[i].to = None <=> hciEvents'[i].opcode = "foreign"
        /\ \E j \in DOMAIN hciEvents : hciEvents'[i] = hciEvents[j]
  BY <1>1 DEF OpcodesMatch
<1>8. QED
  BY <1>5, <1>6, <1>7 DEF SameInFlight

\* An event that is added and is no response to the adapter leaves those that are.
LEMMA AddOther ==
  ASSUME TypeOK, OpcodesMatch, NEW e \in Event, hciEvents' = Append(hciEvents, e),
         e.type = "response" => e.to = None /\ e.opcode = "foreign"
  PROVE  SameInFlight
<1>1. /\ Len(hciEvents) \in Nat /\ DOMAIN hciEvents = 1 .. Len(hciEvents)
      /\ DOMAIN hciEvents' = 1 .. Len(hciEvents) + 1
      /\ \A i \in 1 .. Len(hciEvents) : hciEvents'[i] = hciEvents[i]
      /\ hciEvents'[Len(hciEvents) + 1] = e
  BY AppendEvent
<1> HIDE DEF Event
<1>2. \A i \in DOMAIN hciEvents' : i \in DOMAIN hciEvents \/ hciEvents'[i] = e
  BY <1>1
<1>3. ResponsesInFlight' = ResponsesInFlight
  BY <1>1, <1>2 DEF ResponsesInFlight
<1>4. \A id \in Ids : OneInFlight(id) => OneInFlight(id)'
  BY <1>1, <1>3 DEF OneInFlight
<1>5. \A i \in DOMAIN hciEvents' : hciEvents'[i].type = "response" =>
        /\ hciEvents'[i].to = None <=> hciEvents'[i].opcode = "foreign"
        /\ hciEvents'[i].to # None => \E j \in DOMAIN hciEvents : hciEvents'[i] = hciEvents[j]
  BY <1>1, <1>2 DEF OpcodesMatch
<1>6. QED
  BY <1>3, <1>4, <1>5 DEF SameInFlight

Outstanding == OneOutstanding /\ OpcodesMatch /\ OwnResponse

\* OneOutstanding with OneInFlight for its last part.
LEMMA OutstandingCases ==
  /\ OneOutstanding <=>
       (Running => IF pendingCommand = Idle
                   THEN executing = NoCommand /\ ResponsesInFlight = {}
                   ELSE \/ executing = pendingCommand.cmd /\ ResponsesInFlight = {}
                        \/ executing = NoCommand /\ OneInFlight(pendingCommand.cmd.id))
  /\ OneOutstanding' <=>
       (Running' => IF pendingCommand' = Idle
                    THEN executing' = NoCommand /\ ResponsesInFlight' = {}
                    ELSE \/ executing' = pendingCommand'.cmd /\ ResponsesInFlight' = {}
                         \/ executing' = NoCommand /\ (OneInFlight(pendingCommand.cmd.id))')
BY DEF OneOutstanding, OneInFlight

\* A step that leaves the responses, the pending command and the one that is executed.
LEMMA OutstandingKept ==
  ASSUME Types, Outstanding, SameInFlight, Running' => Running,
         pendingCommand'.cmd = pendingCommand.cmd, executing' = executing,
         pendingCommand' = Idle <=> pendingCommand = Idle, UNCHANGED responseTo
  PROVE  Outstanding'
<1>1. pendingCommand # Idle => pendingCommand.cmd.id \in Ids
  BY PendingProperties DEF Types, Command
<1>2. OneOutstanding'
  <2>1. ASSUME NEW id \in Ids, OneInFlight(id)
        PROVE  OneInFlight(id)'
    BY <2>1 DEF SameInFlight
  <2>2. pendingCommand # Idle /\ OneInFlight(pendingCommand.cmd.id)
          => (OneInFlight(pendingCommand.cmd.id))'
    <3>1. SUFFICES ASSUME pendingCommand # Idle, OneInFlight(pendingCommand.cmd.id)
                   PROVE  (OneInFlight(pendingCommand.cmd.id))'
      OBVIOUS
    <3> DEFINE id == pendingCommand.cmd.id
    <3>2. PICK c \in Ids : c = id
      BY <1>1, <3>1
    <3>3. OneInFlight(c)
      BY <3>1, <3>2
    <3>4. OneInFlight(c)'
      BY <2>1, <3>3
    <3>5. c = id'
      BY <3>2
    <3>6. QED
      BY <3>4, <3>5 DEF OneInFlight
  <2>3. ResponsesInFlight = {} => ResponsesInFlight' = {}
    BY DEF SameInFlight
  <2>4. QED
    BY <2>2, <2>3, OutstandingCases DEF Outstanding
<1>3. OpcodesMatch'
  BY DEF Outstanding, OpcodesMatch, SameInFlight
<1>4. QED
  BY <1>2, <1>3 DEF Outstanding, OwnResponse

\* sendCommand while nothing is read.
LEMMA OutstandingSend ==
  ASSUME Types, CommandsOrdered, Outstanding, NEW cmd \in Command, SendCommand(cmd),
         Running' => Running, SameInFlight, UNCHANGED responseTo
  PROVE  Outstanding'
<1>1. TypeOK
  BY DEF Types
<1> HIDE DEF Command
<1>2. CASE MustWait
  BY <1>2, OutstandingKept DEF SendCommand
<1>3. CASE ~MustWait
  <2>1. /\ pendingCommand = Idle /\ pendingCommand'.cmd = cmd /\ executing' = cmd
        /\ pendingCommand' # Idle
    BY <1>1, <1>3, PendingProperties DEF SendCommand, ReallySendCommand, MustWait
  <2>2. Running' => ResponsesInFlight = {}
    BY <2>1 DEF Outstanding, OneOutstanding
  <2>3. Running' => ResponsesInFlight' = {}
    BY <2>2 DEF SameInFlight
  <2>4. OneOutstanding'
    BY <2>1, <2>3 DEF OneOutstanding
  <2>5. \A i \in DOMAIN hciEvents' : hciEvents'[i].type = "response" =>
          /\ hciEvents'[i].to = None <=> hciEvents'[i].opcode = "foreign"
          /\ Running' => hciEvents'[i].to = None
    BY <2>3 DEF SameInFlight, ResponsesInFlight
  <2>6. OpcodesMatch'
    BY <2>5 DEF OpcodesMatch
  <2>7. QED
    BY <2>4, <2>6 DEF Outstanding, OwnResponse
<1>4. QED
  BY <1>2, <1>3

\* Reading an event other than a response.
LEMMA ReadEvent ==
  ASSUME Types, Outstanding, NEW type, Receive(type), type # "response"
  PROVE  SameInFlight
<1>1. TypeOK /\ OpcodesMatch
  BY DEF Types, Outstanding
<1>2. 1 \notin ResponsesInFlight
  BY <1>1, ReceiveProperties DEF ResponsesInFlight
<1>3. QED
  BY <1>1, <1>2, ReadOther

\* Every step keeps commands and responses together.
LEMMA OutstandingStep ==
  ASSUME Types, CommandsOrdered, Outstanding, [Next]_vars
  PROVE  Outstanding'
<1> USE DEF hostVars, controllerVars, historyVars
<1>1. TypeOK /\ CommandsAddressed /\ OneOutstanding /\ OpcodesMatch /\ OwnResponse
  BY DEF Types, Outstanding
<1> HIDE DEF Command, Event, NoCommand
<1>2. hciEvents' = hciEvents => SameInFlight
  <2>1. SUFFICES ASSUME hciEvents' = hciEvents
                 PROVE  SameInFlight
    OBVIOUS
  <2>2. ResponsesInFlight' = ResponsesInFlight
    BY <2>1 DEF ResponsesInFlight
  <2>3. \A id \in Ids : OneInFlight(id) => OneInFlight(id)'
    BY <2>1, <2>2 DEF OneInFlight
  <2>4. QED
    BY <1>1, <2>1, <2>2, <2>3 DEF SameInFlight, OpcodesMatch
<1>3. ASSUME NEW c \in Ids, NEW opcode \in Opcode, NEW h \in Handle \cup {"none"},
             Issue(c, opcode, h)
      PROVE  Outstanding'
  <2> DEFINE cmd == [id |-> c, opcode |-> opcode, handle |-> h]
  <2>1. cmd \in Command
    BY DEF Command
  <2>2. SendCommand(cmd) /\ UNCHANGED <<responseTo, hciEvents, crashed, isStopped>>
    BY <1>3 DEF Issue
  <2> HIDE DEF cmd
  <2>3. QED
    BY <1>2, <2>1, <2>2, OutstandingSend DEF Running
<1>4. CASE Stop
  BY <1>1, <1>2, <1>4, OutstandingKept DEF Stop, Running
<1>5. CASE HandleForeignResponse
  <2>1. /\ Receive("response") /\ ~IsExpected(Head(hciEvents)) /\ Running
        /\ UNCHANGED <<pendingCommand, executing, responseTo, crashed, isStopped>>
    BY <1>5 DEF HandleForeignResponse, Receive
  <2>2. 1 \notin ResponsesInFlight
    <3>1. SUFFICES ASSUME 1 \in ResponsesInFlight
                   PROVE  FALSE
      OBVIOUS
    <3>2. /\ hciEvents[1].type = "response" /\ hciEvents[1].to # None /\ 1 \in DOMAIN hciEvents
          /\ Head(hciEvents) = hciEvents[1]
      BY <1>1, <2>1, <3>1, ReceiveProperties DEF ResponsesInFlight
    <3>3. hciEvents[1].opcode = pendingCommand.cmd.opcode
      BY <1>1, <2>1, <3>2 DEF OpcodesMatch
    <3>4. pendingCommand # Idle
      BY <1>1, <2>1, <3>1 DEF OneOutstanding
    <3>5. QED
      BY <2>1, <3>2, <3>3, <3>4 DEF IsExpected, MustWait
  <2>3. SameInFlight
    BY <1>1, <2>1, <2>2, ReadOther
  <2>4. QED
    BY <2>1, <2>3, OutstandingKept DEF Running
<1>6. CASE HandleCommandResponse
  <2> DEFINE event == Head(hciEvents)
             cmd == pendingCommand.cmd
  <2>1. /\ Receive("response") /\ Running /\ SendNextCommand /\ IsExpected(event)
        /\ pendingCommand # Idle
    BY <1>6 DEF HandleCommandResponse, Receive, IsExpected, MustWait
  <2>2. /\ event.type = "response" /\ event.opcode = cmd.opcode
        /\ event = hciEvents[1] /\ 1 \in DOMAIN hciEvents
    BY <1>1, <2>1, ReceiveProperties DEF IsExpected
  <2>3. cmd \in Command /\ cmd.id \in Ids /\ cmd.opcode \in Opcode
    BY <1>1, <2>1, PendingProperties DEF Command
  <2>4. event.to # None
    <3>1. cmd.opcode # "foreign"
      BY <2>3, CommandAssumption DEF Opcode, HandleOpcode
    <3>2. QED
      BY <1>1, <2>2, <3>1 DEF OpcodesMatch
  <2>5. 1 \in ResponsesInFlight
    BY <2>2, <2>4 DEF ResponsesInFlight
  <2>6. ResponsesInFlight = {1} /\ event.to = cmd.id /\ executing = NoCommand
    BY <1>1, <2>1, <2>2, <2>5 DEF OneOutstanding
  <2>7. /\ DOMAIN hciEvents' = 1 .. Len(hciEvents) - 1 /\ Len(hciEvents) \in Nat
        /\ \A i \in DOMAIN hciEvents' : hciEvents'[i] = hciEvents[i + 1] /\ i + 1 \in DOMAIN hciEvents
    BY <1>1, <2>1, ReceiveProperties
  <2>8. \A i \in DOMAIN hciEvents' : i + 1 \notin ResponsesInFlight
    BY <2>6, <2>7
  <2>9. ResponsesInFlight' = {}
    BY <2>7, <2>8 DEF ResponsesInFlight
  <2>10. OpcodesMatch'
    <3>1. \A i \in DOMAIN hciEvents' : hciEvents'[i].type = "response" =>
            (hciEvents'[i].to = None <=> hciEvents'[i].opcode = "foreign")
      BY <1>1, <2>7 DEF OpcodesMatch
    <3>2. QED
      BY <2>9, <3>1 DEF OpcodesMatch, ResponsesInFlight
  <2>11. OwnResponse'
    <3>1. responseTo' = responseTo \/ responseTo' = [responseTo EXCEPT ![cmd.id] = event.to]
      BY <1>6 DEF HandleCommandResponse
    <3> HIDE DEF cmd, event
    <3>2. QED
      BY <1>1, <2>3, <2>6, <3>1 DEF OwnResponse, TypeOK
  <2>12. OneOutstanding'
    <3>1. CASE commandQueue = <<>>
      BY <2>1, <2>6, <2>9, <3>1 DEF SendNextCommand, OneOutstanding
    <3>2. CASE commandQueue # <<>>
      <4>1. /\ pendingCommand' = [cmd |-> Head(commandQueue), ignoreResponse |-> FALSE]
            /\ executing' = Head(commandQueue)
        BY <2>1, <3>2 DEF SendNextCommand, ReallySendCommand
      <4>2. Head(commandQueue) \in Command
        BY <1>1, <3>2, QueueProperties
      <4>3. pendingCommand' # Idle /\ executing' = pendingCommand'.cmd
        BY <1>1, <4>1, <4>2, PendingProperties
      <4>4. QED
        BY <2>9, <4>3 DEF OneOutstanding
    <3>3. QED
      BY <3>1, <3>2
  <2>13. QED
    BY <2>10, <2>11, <2>12 DEF Outstanding
<1>7. CASE HandleProcedureComplete
  BY <1>7, ReadEvent, OutstandingKept DEF HandleProcedureComplete, Running
<1>8. CASE HandleLeConnectionComplete
  <2> DEFINE event == Head(hciEvents)
             h == event.handle
  <2>1. h \in Handle /\ responseTo' = responseTo /\ Running /\ isStopped' = isStopped
    BY <1>1, <1>8, ReceiveProperties, EventProperties DEF HandleLeConnectionComplete, Receive
  <2>2. SameInFlight /\ (Running' => Running)
    BY <1>8, <2>1, ReadEvent DEF HandleLeConnectionComplete
  <2>3. \/ UNCHANGED <<pendingCommand, executing>>
        \/ \E c \in Ids : SendCommand([id |-> c, opcode |-> "disconnect", handle |-> h])
    BY <1>8 DEF HandleLeConnectionComplete
  <2> HIDE DEF h
  <2>4. \A c \in Ids : [id |-> c, opcode |-> "disconnect", handle |-> h] \in Command
    BY <2>1 DEF Command, Opcode, HandleOpcode
  <2>5. QED
    BY <2>1, <2>2, <2>3, <2>4, OutstandingSend, OutstandingKept
<1>9. CASE HandleDisconnectionComplete
  <2> DEFINE h == Head(hciEvents).handle
  <2>1. h \in Handle
    BY <1>1, <1>9, ReceiveProperties, EventProperties DEF HandleDisconnectionComplete
  <2>2. /\ pendingCommand' = AfterDisconnect(h) /\ executing' = executing
        /\ responseTo' = responseTo /\ (Running' => Running)
    BY <1>9 DEF HandleDisconnectionComplete, Running
  <2> HIDE DEF h
  <2>3. pendingCommand'.cmd = pendingCommand.cmd
    BY <1>1, <2>2 DEF AfterDisconnect, TypeOK, Pending
  <2>4. pendingCommand' = Idle <=> pendingCommand = Idle
    BY <1>1, <2>1, <2>2, PendingProperties, CommandAssumption DEF AfterDisconnect, Idle, MustWait
  <2>5. QED
    BY <1>9, <2>2, <2>3, <2>4, ReadEvent, OutstandingKept DEF HandleDisconnectionComplete
<1>10. CASE HandleHardwareError
  <2>1. ~Running' /\ responseTo' = responseTo
    BY <1>10 DEF HandleHardwareError, Running
  <2>2. SameInFlight
    BY <1>10, ReadEvent DEF HandleHardwareError
  <2>3. QED
    BY <1>1, <2>1, <2>2 DEF Outstanding, OneOutstanding, OpcodesMatch, OwnResponse, SameInFlight
<1>11. ASSUME NEW status \in Status, Respond(status)
       PROVE  Outstanding'
  <2> DEFINE event == [type |-> "response", opcode |-> executing.opcode,
                       status |-> status, to |-> executing.id]
  <2>1. /\ executing \in Command /\ executing.id \in Ids /\ executing.id # None
        /\ executing.opcode # "foreign"
    <3>1. executing \in Command
      BY <1>1, <1>11 DEF Respond, TypeOK
    <3>2. executing.id \in Ids /\ executing.opcode \in Opcode
      BY <3>1 DEF Command
    <3>3. QED
      BY <3>1, <3>2, CommandAssumption DEF Ids, None, Opcode, HandleOpcode
  <2>2. event \in Event /\ event.type = "response" /\ event.opcode # "foreign"
        /\ event.to = executing.id /\ event.opcode = executing.opcode
    BY <2>1 DEF Event, Command
  <2>3. /\ hciEvents' = Append(hciEvents, event) /\ executing' = NoCommand /\ executing # NoCommand
        /\ UNCHANGED <<pendingCommand, responseTo, isStopped, crashed>>
    BY <1>11 DEF Respond
  <2> HIDE DEF event
  <2>4. /\ Len(hciEvents) \in Nat /\ DOMAIN hciEvents = 1 .. Len(hciEvents)
        /\ DOMAIN hciEvents' = 1 .. Len(hciEvents) + 1
        /\ \A i \in 1 .. Len(hciEvents) : hciEvents'[i] = hciEvents[i]
        /\ hciEvents'[Len(hciEvents) + 1] = event
    BY <1>1, <2>2, <2>3, AppendEvent
  <2>5. \A i \in DOMAIN hciEvents' : i \in DOMAIN hciEvents \/ i = Len(hciEvents) + 1
    BY <2>4
  <2>6. ResponsesInFlight' = ResponsesInFlight \cup {Len(hciEvents) + 1}
    BY <2>1, <2>2, <2>4, <2>5 DEF ResponsesInFlight
  <2>7. Running => /\ ResponsesInFlight = {} /\ executing = pendingCommand.cmd
                   /\ pendingCommand # Idle
    BY <1>1, <2>3 DEF OneOutstanding
  <2>8. OneOutstanding'
    BY <2>2, <2>3, <2>4, <2>6, <2>7 DEF OneOutstanding, Running
  <2>9. OpcodesMatch'
    <3>1. \A i \in DOMAIN hciEvents' : hciEvents'[i].type = "response" =>
            (hciEvents'[i].to = None <=> hciEvents'[i].opcode = "foreign")
      BY <1>1, <2>1, <2>2, <2>4, <2>5 DEF OpcodesMatch
    <3>2. ASSUME NEW i \in DOMAIN hciEvents', Running', hciEvents'[i].type = "response",
                 hciEvents'[i].to # None
          PROVE  hciEvents'[i].opcode = pendingCommand'.cmd.opcode
      <4>1. Running
        BY <2>3, <3>2 DEF Running
      <4>2. i = Len(hciEvents) + 1
        BY <2>6, <2>7, <3>2, <4>1 DEF ResponsesInFlight
      <4>3. QED
        BY <2>2, <2>3, <2>4, <2>7, <4>1, <4>2
    <3>3. QED
      BY <3>1, <3>2 DEF OpcodesMatch
  <2>10. QED
    BY <1>1, <2>3, <2>8, <2>9 DEF Outstanding, OwnResponse
<1>12. CASE RespondForeign
  <2> DEFINE event == [type |-> "response", opcode |-> "foreign", status |-> "ok", to |-> None]
  <2>1. event \in Event /\ event.type = "response" /\ event.to = None /\ event.opcode = "foreign"
    BY DEF Event, Status
  <2>2. hciEvents' = <<event>> /\ hciEvents = <<>>
    BY <1>12 DEF RespondForeign
  <2> HIDE DEF event
  <2>3. hciEvents' = Append(hciEvents, event)
    BY <2>2
  <2>4. QED
    BY <1>1, <1>12, <2>1, <2>3, AddOther, OutstandingKept DEF RespondForeign, Running
<1>13. ASSUME NEW e \in Event, hciEvents' = Append(hciEvents, e), e.type # "response",
              UNCHANGED <<hostVars, executing, historyVars>>
       PROVE  Outstanding'
  BY <1>1, <1>13, AddOther, OutstandingKept DEF Running
<1>14. ASSUME NEW p \in Procedure, NEW h \in Handle, CompleteProcedure(p, h)
       PROVE  Outstanding'
  <2>1. [type |-> "procedureComplete", opcode |-> p, handle |-> h] \in Event
    BY DEF Event
  <2>2. QED
    BY <1>13, <1>14, <2>1 DEF CompleteProcedure
<1>15. ASSUME NEW h \in Handle, LinkUp(h)
       PROVE  Outstanding'
  <2>1. [type |-> "connected", handle |-> h, number |-> linkCount + 1] \in Event
    BY <1>1, <1>15, CommandAssumption DEF Event, LinkUp, TypeOK
  <2>2. QED
    BY <1>13, <1>15, <2>1 DEF LinkUp
<1>16. ASSUME NEW h \in Handle, LinkDown(h)
       PROVE  Outstanding'
  <2>1. [type |-> "disconnected", handle |-> h] \in Event
    BY DEF Event
  <2>2. QED
    BY <1>13, <1>16, <2>1 DEF LinkDown
<1>17. CASE Malfunction
  <2>1. [type |-> "hardwareError"] \in Event
    BY DEF Event
  <2>2. QED
    BY <1>13, <1>17, <2>1 DEF Malfunction
<1>18. CASE UNCHANGED vars
  BY <1>2, <1>18, OutstandingKept DEF vars, Running
<1>19. QED
  BY <1>3, <1>4, <1>5, <1>6, <1>7, <1>8, <1>9, <1>10, <1>11, <1>12, <1>14, <1>15, <1>16, <1>17,
     <1>18 DEF Next, HostStep, ControllerWorks

-----------------------------------------------------------------------------
(* Connections. *)

\* Whoever waits for the response to a command of a connection issued it.
LEMMA UnansweredProperties ==
  ASSUME Types, CommandsOrdered
  PROVE  \A cmd \in Unanswered : cmd.handle \in Handle =>
           /\ cmd \in Command /\ cmd.id \in Ids /\ outcome[cmd.id] = "waiting"
<1>1. TypeOK
  BY DEF Types
<1>2. \A cmd \in Command : cmd.id \in Ids
  BY DEF Command
<1>3. NoCommand.handle \notin Handle
  BY CommandAssumption DEF NoCommand
<1> HIDE DEF Command, NoCommand
<1>4. \A i \in DOMAIN commandQueue : commandQueue[i] \in Command
                                       /\ outcome[commandQueue[i].id] = "waiting"
  BY <1>1, QueueProperties DEF CommandsOrdered
<1>5. ASSUME ~pendingCommand.ignoreResponse, pendingCommand.cmd.handle \in Handle
      PROVE  pendingCommand.cmd \in Command /\ outcome[pendingCommand.cmd.id] = "waiting"
  <2>1. pendingCommand.cmd \in Command /\ pendingCommand # Idle
    BY <1>1, <1>3, <1>5, PendingProperties
  <2>2. QED
    BY <1>5, <2>1 DEF CommandsOrdered
<1>6. QED
  BY <1>2, <1>4, <1>5 DEF Unanswered

\* What SendCommand leaves unanswered.
LEMMA SendCommandUnanswered ==
  ASSUME Types, NEW cmd \in Command, SendCommand(cmd)
  PROVE  \A c \in Unanswered' : c = cmd \/ c \in Unanswered
<1>1. TypeOK
  BY DEF Types
<1> HIDE DEF Command
<1>2. CASE MustWait
  <2>1. commandQueue' = Append(commandQueue, cmd) /\ pendingCommand' = pendingCommand
    BY <1>2 DEF SendCommand
  <2>2. \A i \in DOMAIN commandQueue' :
          \/ i \in DOMAIN commandQueue /\ commandQueue'[i] = commandQueue[i]
          \/ commandQueue'[i] = cmd
    BY <1>1, <2>1, QueueProperties
  <2>3. QED
    BY <2>1, <2>2 DEF Unanswered
<1>3. CASE ~MustWait
  BY <1>3 DEF SendCommand, ReallySendCommand, Unanswered
<1>4. QED
  BY <1>2, <1>3

\* What follows a response leaves nobody else waiting.
LEMMA SendNextUnanswered ==
  ASSUME Types, SendNextCommand
  PROVE  \A c \in Unanswered' : c = NoCommand \/ c \in Unanswered
<1>1. TypeOK
  BY DEF Types
<1> HIDE DEF Command, NoCommand
<1>2. CASE commandQueue = <<>>
  BY <1>2 DEF SendNextCommand, Unanswered, Idle
<1>3. CASE commandQueue # <<>>
  <2>1. /\ commandQueue' = Tail(commandQueue) /\ 1 \in DOMAIN commandQueue
        /\ pendingCommand' = [cmd |-> commandQueue[1], ignoreResponse |-> FALSE]
    BY <1>1, <1>3, QueueProperties DEF SendNextCommand, ReallySendCommand
  <2>2. \A i \in DOMAIN commandQueue' :
          commandQueue'[i] = commandQueue[i + 1] /\ i + 1 \in DOMAIN commandQueue
    BY <1>1, <1>3, <2>1, QueueProperties
  <2>3. QED
    BY <2>1, <2>2 DEF Unanswered
<1>4. QED
  BY <1>2, <1>3

\* A command that was never issued, for a connection the host has.
LEMMA LinkSend ==
  ASSUME Types, CommandsOrdered, RightLink, NEW cmd \in Command, NEW n,
         outcome[cmd.id] = "new", SendCommand(cmd),
         issuedOn' = [issuedOn EXCEPT ![cmd.id] = n],
         cmd.handle \in Handle => cmd.handle \in activeConnections' /\ linkOf'[cmd.handle] = n,
         \A h \in activeConnections : h \in activeConnections' /\ linkOf'[h] = linkOf[h],
         \A h \in Handle, p \in Procedure : eventCallback'[h][p] \in {None, eventCallback[h][p]}
  PROVE  RightLink'
<1>1. /\ TypeOK /\ cmd.id \in Ids /\ responseTo[cmd.id] = None
      /\ issuedOn \in [Ids -> 0 .. MaxLinks]
      /\ eventCallback \in [Handle -> [Procedure -> Ids \cup {None}]]
  BY DEF Types, TypeOK, Command, CommandsOrdered
<1> HIDE DEF Command
<1>2. issuedOn'[cmd.id] = n /\ \A c \in Ids : c # cmd.id => issuedOn'[c] = issuedOn[c]
  BY <1>1
<1>3. ASSUME NEW c \in Unanswered', c.handle \in Handle
      PROVE  c.handle \in activeConnections' /\ issuedOn'[c.id] = linkOf'[c.handle]
  <2>1. CASE c = cmd
    BY <1>2, <1>3, <2>1
  <2>2. CASE c \in Unanswered
    <3>1. c.id \in Ids /\ c.id # cmd.id
      BY <1>3, <2>2, UnansweredProperties
    <3>2. c.handle \in activeConnections /\ issuedOn[c.id] = linkOf[c.handle]
      BY <1>3, <2>2 DEF RightLink
    <3>3. QED
      BY <1>2, <3>1, <3>2
  <2>3. QED
    BY <2>1, <2>2, SendCommandUnanswered
<1>4. ASSUME NEW h \in Handle, NEW p \in Procedure, eventCallback'[h][p] # None
      PROVE  h \in activeConnections' /\ issuedOn'[eventCallback'[h][p]] = linkOf'[h]
  <2>1. eventCallback'[h][p] = eventCallback[h][p] /\ eventCallback[h][p] # None
    BY <1>4
  <2>2. eventCallback[h][p] \in Ids /\ eventCallback[h][p] # cmd.id
    BY <1>1, <2>1 DEF CommandsOrdered
  <2>3. h \in activeConnections /\ issuedOn[eventCallback[h][p]] = linkOf[h]
    BY <2>1 DEF RightLink
  <2>4. QED
    BY <1>2, <2>1, <2>2, <2>3
<1>5. QED
  BY <1>3, <1>4 DEF RightLink

\* Every step keeps commands and callbacks with their connection.
LEMMA LinkStep ==
  ASSUME Types, CommandsOrdered, RightLink, [Next]_vars
  PROVE  RightLink'
<1> USE DEF hostVars, controllerVars, historyVars
<1>1. /\ TypeOK /\ CommandsAddressed
      /\ eventCallback \in [Handle -> [Procedure -> Ids \cup {None}]]
      /\ linkOf \in [Handle -> 0 .. MaxLinks] /\ activeConnections \in SUBSET Handle
  BY DEF Types, TypeOK
<1>2. NoCommand.handle \notin Handle
  BY CommandAssumption DEF NoCommand
<1> HIDE DEF Command, Event, NoCommand
<1>3. CASE UNCHANGED <<pendingCommand, commandQueue, eventCallback, activeConnections, linkOf, issuedOn>>
  BY <1>3 DEF RightLink, Unanswered
<1>4. ASSUME NEW c \in Ids, NEW opcode \in Opcode, NEW h \in Handle \cup {"none"},
             Issue(c, opcode, h)
      PROVE  RightLink'
  <2> DEFINE cmd == [id |-> c, opcode |-> opcode, handle |-> h]
             n == IF h \in Handle THEN linkOf[h] ELSE 0
  <2>1. cmd \in Command /\ cmd.id = c /\ cmd.handle = h
    BY DEF Command
  <2>2. /\ SendCommand(cmd) /\ outcome[c] = "new" /\ issuedOn' = [issuedOn EXCEPT ![c] = n]
        /\ UNCHANGED <<activeConnections, eventCallback, linkOf>>
    BY <1>4 DEF Issue, IsNext
  <2>3. h \in Handle => h \in activeConnections /\ linkOf[h] = n
    BY <1>4, CommandAssumption DEF Issue, MayIssue
  <2> HIDE DEF cmd, n
  <2>4. QED
    BY <2>1, <2>2, <2>3, LinkSend
<1>5. CASE HandleCommandResponse
  <2> DEFINE event == Head(hciEvents)
             cmd == pendingCommand.cmd
  <2>1. SendNextCommand /\ UNCHANGED <<activeConnections, linkOf, issuedOn>>
    BY <1>5 DEF HandleCommandResponse
  <2>2. \A c \in Unanswered' : c.handle \in Handle => c \in Unanswered
    BY <1>2, <2>1, SendNextUnanswered
  <2>3. \A c \in Unanswered' : c.handle \in Handle =>
          c \in Unanswered /\ c.handle \in activeConnections'
    BY <2>1, <2>2 DEF RightLink
  <2>4. CASE eventCallback' = eventCallback
    BY <2>1, <2>3, <2>4 DEF RightLink
  <2>5. CASE eventCallback' # eventCallback
    <3>1. /\ ~pendingCommand.ignoreResponse /\ RunCallback(cmd, event.status)
      BY <1>5, <2>5 DEF HandleCommandResponse
    <3>2. /\ cmd.opcode \in Procedure /\ cmd.handle \in activeConnections
          /\ eventCallback' = [eventCallback EXCEPT ![cmd.handle][cmd.opcode] = cmd.id]
      BY <2>5, <3>1 DEF RunCallback
    <3>3. cmd \in Unanswered
      BY <3>1 DEF Unanswered
    <3>4. issuedOn[cmd.id] = linkOf[cmd.handle]
      BY <1>1, <3>2, <3>3 DEF RightLink
    <3> HIDE DEF cmd, event
    <3>5. ASSUME NEW h \in Handle, NEW p \in Procedure, eventCallback'[h][p] # None
          PROVE  h \in activeConnections' /\ issuedOn'[eventCallback'[h][p]] = linkOf'[h]
      <4>1. CASE h = cmd.handle /\ p = cmd.opcode
        BY <1>1, <2>1, <3>2, <3>4, <4>1
      <4>2. CASE ~(h = cmd.handle /\ p = cmd.opcode)
        <5>1. eventCallback'[h][p] = eventCallback[h][p]
          BY <1>1, <3>2, <4>2
        <5>2. QED
          BY <2>1, <3>5, <5>1 DEF RightLink
      <4>3. QED
        BY <4>1, <4>2
    <3>6. QED
      BY <2>1, <2>3, <3>5 DEF RightLink
  <2>6. QED
    BY <2>4, <2>5
<1>6. CASE HandleProcedureComplete
  <2> DEFINE h == Head(hciEvents).handle
             p == Head(hciEvents).opcode
  <2>1. h \in Handle /\ p \in Procedure
    BY <1>1, <1>6, ReceiveProperties, EventProperties DEF HandleProcedureComplete
  <2>2. /\ UNCHANGED <<pendingCommand, commandQueue, activeConnections, linkOf, issuedOn>>
        /\ eventCallback' \in {eventCallback, [eventCallback EXCEPT ![h][p] = None]}
    BY <1>6 DEF HandleProcedureComplete
  <2> HIDE DEF h, p
  <2>3. \A g \in Handle, q \in Procedure : eventCallback'[g][q] \in {None, eventCallback[g][q]}
    BY <1>1, <2>1, <2>2
  <2>4. Unanswered' = Unanswered
    BY <2>2 DEF Unanswered
  <2>5. QED
    BY <2>2, <2>3, <2>4 DEF RightLink
<1>7. CASE HandleLeConnectionComplete
  <2> DEFINE event == Head(hciEvents)
             h == event.handle
             n == event.number
  <2>1. h \in Handle
    BY <1>1, <1>7, ReceiveProperties, EventProperties DEF HandleLeConnectionComplete
  <2>2. CASE h \in activeConnections
    BY <1>3, <1>7, <2>2 DEF HandleLeConnectionComplete
  <2>3. CASE h \notin activeConnections
    <3>1. /\ activeConnections' = activeConnections \cup {h}
          /\ eventCallback' = [eventCallback EXCEPT ![h] = [p \in Procedure |-> None]]
          /\ linkOf' = [linkOf EXCEPT ![h] = n]
          /\ \/ UNCHANGED <<pendingCommand, commandQueue, executing, issuedOn, outcome>>
             \/ \E c \in Ids :
                  /\ outcome[c] = "new"
                  /\ SendCommand([id |-> c, opcode |-> "disconnect", handle |-> h])
                  /\ issuedOn' = [issuedOn EXCEPT ![c] = n]
      BY <1>7, <2>3 DEF HandleLeConnectionComplete, IsNext
    <3> HIDE DEF h, n
    <3>2. \A g \in Handle, p \in Procedure : eventCallback'[g][p] \in {None, eventCallback[g][p]}
      BY <1>1, <2>1, <3>1
    <3>3. /\ \A g \in activeConnections : g \in activeConnections' /\ linkOf'[g] = linkOf[g]
          /\ linkOf'[h] = n /\ h \in activeConnections'
      BY <1>1, <2>1, <2>3, <3>1
    <3>4. CASE UNCHANGED <<pendingCommand, commandQueue, executing, issuedOn, outcome>>
      <4>1. Unanswered' = Unanswered
        BY <3>4 DEF Unanswered
      <4>2. QED
        BY <3>2, <3>3, <3>4, <4>1 DEF RightLink
    <3>5. ASSUME NEW c \in Ids, outcome[c] = "new",
                 SendCommand([id |-> c, opcode |-> "disconnect", handle |-> h]),
                 issuedOn' = [issuedOn EXCEPT ![c] = n]
          PROVE  RightLink'
      <4> DEFINE cmd == [id |-> c, opcode |-> "disconnect", handle |-> h]
      <4>1. cmd \in Command /\ cmd.id = c /\ cmd.handle = h
        BY <2>1 DEF Command, Opcode, HandleOpcode
      <4>2. SendCommand(cmd)
        BY <3>5
      <4> HIDE DEF cmd
      <4>3. QED
        BY <3>2, <3>3, <3>5, <4>1, <4>2, LinkSend
    <3>6. QED
      BY <3>1, <3>4, <3>5
  <2>4. QED
    BY <2>2, <2>3
<1>8. CASE HandleDisconnectionComplete
  <2> DEFINE h == Head(hciEvents).handle
  <2>1. h \in Handle
    BY <1>1, <1>8, ReceiveProperties, EventProperties DEF HandleDisconnectionComplete
  <2>2. /\ commandQueue' = Survivors(h) /\ pendingCommand' = AfterDisconnect(h)
        /\ eventCallback' = [eventCallback EXCEPT ![h] = [p \in Procedure |-> None]]
        /\ activeConnections' = activeConnections \ {h}
        /\ UNCHANGED <<linkOf, issuedOn>>
    BY <1>8 DEF HandleDisconnectionComplete
  <2> HIDE DEF h
  <2>3. \A g \in Handle, p \in Procedure : eventCallback'[g][p] # None =>
          g # h /\ eventCallback'[g][p] = eventCallback[g][p]
    BY <1>1, <2>1, <2>2
  <2>4. \A k \in DOMAIN commandQueue' : \E i \in DOMAIN commandQueue :
          commandQueue'[k] = commandQueue[i] /\ commandQueue[i].handle # h
    BY <1>1, <2>2, SurvivorsProperties
  <2>5. ASSUME ~pendingCommand'.ignoreResponse, pendingCommand'.cmd.handle \in Handle
        PROVE  /\ ~pendingCommand.ignoreResponse /\ pendingCommand'.cmd = pendingCommand.cmd
               /\ pendingCommand.cmd.handle # h
    <3>1. pendingCommand \in [cmd : Command \cup {NoCommand}, ignoreResponse : BOOLEAN]
      BY <1>1 DEF TypeOK, Pending
    <3>2. pendingCommand' = pendingCommand
      BY <2>2, <2>5, <3>1 DEF AfterDisconnect
    <3>3. pendingCommand # Idle
      BY <1>2, <2>5, <3>2 DEF Idle
    <3>4. pendingCommand.cmd.handle # h
      BY <2>2, <2>5, <3>1, <3>2, <3>3 DEF AfterDisconnect, MustWait
    <3>5. QED
      BY <2>5, <3>2, <3>4
  <2>6. \A c \in Unanswered' : c.handle \in Handle => c \in Unanswered /\ c.handle # h
    BY <2>4, <2>5 DEF Unanswered
  <2>7. QED
    BY <2>2, <2>3, <2>6 DEF RightLink
<1>9. CASE HandleHardwareError
  <2>1. /\ pendingCommand' = Idle /\ commandQueue' = <<>>
        /\ UNCHANGED <<eventCallback, activeConnections, linkOf, issuedOn>>
    BY <1>9 DEF HandleHardwareError
  <2>2. DOMAIN commandQueue' = {}
    BY <2>1
  <2>3. \A c \in Unanswered' : c.handle \notin Handle
    BY <1>2, <2>1, <2>2 DEF Unanswered, Idle
  <2>4. QED
    BY <2>1, <2>3 DEF RightLink
<1>10. QED
  BY <1>3, <1>4, <1>5, <1>6, <1>7, <1>8, <1>9
  DEF Next, HostStep, ControllerWorks, Stop, HandleForeignResponse, Respond, RespondForeign,
      CompleteProcedure, LinkUp, LinkDown, Malfunction, vars

-----------------------------------------------------------------------------
(* The theorems. *)

\* The invariant holds initially.
LEMMA InitInvariant == Init => IInv
<1> SUFFICES ASSUME Init
             PROVE  IInv
  OBVIOUS
<1> USE DEF Init
<1>1. TypeOK
  <2>1. Idle \in Pending
    BY DEF Idle, Pending
  <2>2. NoCommand \in Command \cup {NoCommand}
    OBVIOUS
  <2>3. None \in Ids \cup {None} /\ 0 \in 0 .. MaxLinks /\ 0 \in 0 .. MaxFaults
    BY CommandAssumption
  <2> HIDE DEF Idle, NoCommand, Command, Event, Pending, Ids, None
  <2>4. /\ eventCallback \in [Handle -> [Procedure -> Ids \cup {None}]]
        /\ linkOf \in [Handle -> 0 .. MaxLinks] /\ issuedOn \in [Ids -> 0 .. MaxLinks]
        /\ outcome \in [Ids -> {"new", "waiting", "started", "answered", "gone"}]
        /\ responseTo \in [Ids -> Ids \cup {None}]
    BY <2>3
  <2>5. commandQueue \in Seq(Command) /\ hciEvents \in Seq(Event)
    OBVIOUS
  <2>6. QED
    BY <2>1, <2>2, <2>3, <2>4, <2>5 DEF TypeOK
<1>2. Addressed(NoCommand) /\ NoCommand.handle \notin Handle /\ Idle.cmd = NoCommand
  BY CommandAssumption DEF Addressed, NoCommand, Idle, HandleOpcode
<1>3. CommandsAddressed
  <2>1. QED
    BY <1>2 DEF CommandsAddressed
<1>4. CommandsOrdered
  BY DEF CommandsOrdered
<1>5. OneOutstanding /\ OpcodesMatch
  BY DEF OneOutstanding, OpcodesMatch, ResponsesInFlight
<1>6. OwnResponse
  BY DEF OwnResponse
<1>7. RightLink
  BY <1>2 DEF RightLink, Unanswered
<1>8. QED
  BY <1>1, <1>3, <1>4, <1>5, <1>6, <1>7 DEF IInv, Types

\* IInv is inductive: what OneOutstanding, OwnResponse and RightLink say of a state follows
\* from them and from what CommandsOrdered and OpcodesMatch say of the state before it.
THEOREM CommandInvariant == Spec => []IInv
<1>1. ASSUME IInv, [Next]_vars
      PROVE  IInv'
  <2>1. /\ Types /\ CommandsOrdered /\ Outstanding /\ RightLink
        /\ OneOutstanding /\ OpcodesMatch
    BY <1>1 DEF IInv, Outstanding
  <2>2. Types' /\ CommandsOrdered' /\ Outstanding' /\ RightLink'
    BY <1>1, <2>1, TypesStep, OrderedStep, OutstandingStep, LinkStep
  <2>3. QED
    BY <2>2 DEF IInv, Outstanding
<1>2. QED
  BY <1>1, InitInvariant, PTL DEF Spec

\* The state of the adapter is well formed; at most one command is out, and a response, and
\* what the host keeps of a procedure, go to the command they belong to.
THEOREM ResponsesOwn == Spec => []ResponsesAreOwn
<1>1. IInv => ResponsesAreOwn
  BY DEF IInv, Types, ResponsesAreOwn
<1>2. QED
  BY <1>1, CommandInvariant, PTL

-----------------------------------------------------------------------------
(* The refinement. *)

\* The requests of SerialRequests: the pending command, then those that wait.
IdsOf(q) == [i \in DOMAIN q |-> q[i].id]
Served(p, q) == (IF p = Idle THEN <<>> ELSE <<p.cmd.id>>) \o IdsOf(q)
GivenUp == {c \in Ids : outcome[c] = "gone" /\ responseTo[c] = None}
Answered == {c \in Ids : responseTo[c] # None}

\* The numbers of the commands of a queue.
LEMMA IdsOfProperties ==
  ASSUME NEW q \in Seq(Command)
  PROVE  /\ IdsOf(q) \in Seq(Ids) /\ Len(IdsOf(q)) = Len(q) /\ Len(q) \in Nat
         /\ DOMAIN q = 1 .. Len(q)
         /\ \A i \in 1 .. Len(q) : IdsOf(q)[i] = q[i].id
<1>1. \A cmd \in Command : cmd.id \in Ids
  BY DEF Command
<1> HIDE DEF Command
<1>2. Len(q) \in Nat /\ DOMAIN q = 1 .. Len(q) /\ \A i \in 1 .. Len(q) : q[i] \in Command
  BY LenProperties, ElementOfSeq
<1> DEFINE s == [i \in 1 .. Len(q) |-> q[i].id]
<1>3. IdsOf(q) = s
  BY <1>2 DEF IdsOf
<1>4. s \in [1 .. Len(q) -> Ids]
  BY <1>1, <1>2
<1>5. s \in Seq(Ids) /\ Len(s) = Len(q)
  BY <1>2, <1>4
<1>6. QED
  BY <1>2, <1>3, <1>5

\* What is served first, and what is behind it.
LEMMA ServedProperties ==
  ASSUME NEW p \in Pending, NEW q \in Seq(Command), p = Idle => q = <<>>
  PROVE  /\ Served(p, q) \in Seq(Ids)
         /\ p = Idle => Served(p, q) = <<>>
         /\ p # Idle => /\ p.cmd.id \in Ids /\ Served(p, q) = <<p.cmd.id>> \o IdsOf(q)
                        /\ Served(p, q) # <<>>
                        /\ Head(Served(p, q)) = p.cmd.id /\ Tail(Served(p, q)) = IdsOf(q)
                        /\ Len(Served(p, q)) = Len(q) + 1
                        /\ Served(p, q)[1] = p.cmd.id
                        /\ \A i \in 1 .. Len(q) : Served(p, q)[i + 1] = q[i].id
<1>1. /\ IdsOf(q) \in Seq(Ids) /\ Len(IdsOf(q)) = Len(q) /\ Len(q) \in Nat
      /\ \A i \in 1 .. Len(q) : IdsOf(q)[i] = q[i].id
  BY IdsOfProperties
<1>2. CASE p = Idle
  <2>1. Len(q) = 0
    BY <1>2
  <2>2. IdsOf(q) = <<>>
    BY <1>1, <2>1, EmptySeq
  <2>3. Served(p, q) = <<>> \o IdsOf(q)
    BY <1>2 DEF Served
  <2>4. Served(p, q) = <<>>
    BY <1>1, <2>2, <2>3, ConcatEmptySeq
  <2>5. QED
    BY <1>2, <2>4, EmptySeq
<1>3. CASE p # Idle
  <2>1. /\ p \in [cmd : Command \cup {NoCommand}, ignoreResponse : BOOLEAN]
        /\ p.ignoreResponse => p.cmd.handle \in Handle
    BY DEF Pending
  <2>2. NoCommand.handle \notin Handle
    BY CommandAssumption DEF NoCommand
  <2>3. p.cmd \in Command
    <3> HIDE DEF Command, NoCommand
    <3>1. QED
      BY <1>3, <2>1, <2>2 DEF Idle
  <2>4. p.cmd.id \in Ids
    BY <2>3 DEF Command
  <2> DEFINE x == p.cmd.id
             w == IdsOf(q)
             s == <<x>> \o w
  <2>5. Served(p, q) = s
    BY <1>3 DEF Served
  <2>6. <<x>> \in Seq(Ids) /\ Len(<<x>>) = 1 /\ <<x>>[1] = x
    BY <2>4
  <2>7. w \in Seq(Ids) /\ Len(w) = Len(q) /\ Len(q) \in Nat /\ \A i \in 1 .. Len(q) : w[i] = q[i].id
    BY <1>1
  <2> HIDE DEF w, x
  <2>8. /\ s \in Seq(Ids) /\ Len(s) = Len(q) + 1
        /\ \A i \in 1 .. Len(q) + 1 : s[i] = IF i <= 1 THEN <<x>>[i] ELSE w[i - 1]
    BY <2>6, <2>7, ConcatProperties
  <2>9. s[1] = x /\ \A i \in 1 .. Len(q) : s[i + 1] = w[i]
    BY <2>6, <2>7, <2>8
  <2> HIDE DEF s
  <2>10. s # <<>> /\ Head(s) = x
    BY <2>7, <2>8, <2>9, EmptySeq
  <2>11. /\ Tail(s) \in Seq(Ids) /\ Len(Tail(s)) = Len(w)
         /\ \A i \in 1 .. Len(Tail(s)) : Tail(s)[i] = w[i]
    BY <2>7, <2>8, <2>9, <2>10, HeadTailProperties
  <2>12. Tail(s) = w
    BY <2>7, <2>11, SeqEqual
  <2>13. QED
    BY <1>3, <2>4, <2>5, <2>7, <2>8, <2>9, <2>10, <2>12 DEF w, x, s
<1>4. QED
  BY <1>2, <1>3

\* The queue of SerialRequests and its elements in a state.
LEMMA ServedNow ==
  ASSUME Types, CommandsOrdered
  PROVE  /\ pendingCommand \in Pending /\ commandQueue \in Seq(Command)
         /\ pendingCommand = Idle => commandQueue = <<>>
         /\ \A c \in Requests!Elements(Served(pendingCommand, commandQueue)) :
              \/ pendingCommand # Idle /\ c = pendingCommand.cmd.id
              \/ \E i \in DOMAIN commandQueue : c = commandQueue[i].id
         /\ pendingCommand # Idle =>
              /\ pendingCommand.cmd.id \in Requests!Elements(Served(pendingCommand, commandQueue))
              /\ \A i \in DOMAIN commandQueue :
                   commandQueue[i].id \in Requests!Elements(Served(pendingCommand, commandQueue))
<1>1. /\ pendingCommand \in Pending /\ commandQueue \in Seq(Command)
      /\ pendingCommand = Idle => commandQueue = <<>>
  BY DEF Types, TypeOK, CommandsOrdered
<1>2. Len(commandQueue) \in Nat /\ DOMAIN commandQueue = 1 .. Len(commandQueue)
  BY <1>1, IdsOfProperties
<1> DEFINE s == Served(pendingCommand, commandQueue)
<1>3. /\ s \in Seq(Ids)
      /\ pendingCommand = Idle => s = <<>>
      /\ pendingCommand # Idle => /\ Len(s) = Len(commandQueue) + 1 /\ s[1] = pendingCommand.cmd.id
                                  /\ \A i \in 1 .. Len(commandQueue) : s[i + 1] = commandQueue[i].id
  BY <1>1, ServedProperties
<1> HIDE DEF s, Command, Pending, Idle
<1>4. CASE pendingCommand = Idle
  <2>1. DOMAIN s = {} /\ DOMAIN commandQueue = {}
    BY <1>1, <1>3, <1>4
  <2>2. QED
    BY <1>1, <1>4, <2>1 DEF Requests!Elements, s
<1>5. CASE pendingCommand # Idle
  <2>1. DOMAIN s = 1 .. Len(commandQueue) + 1
    BY <1>3, <1>5, LenProperties
  <2>2. \A i \in DOMAIN s : i = 1 \/ \E j \in DOMAIN commandQueue : i = j + 1
    <3>1. TAKE i \in DOMAIN s
    <3>2. i = 1 \/ (i - 1 \in DOMAIN commandQueue /\ i = (i - 1) + 1)
      BY <1>2, <2>1
    <3>3. QED
      BY <3>2
  <2>3. \A c \in Requests!Elements(s) :
          \/ c = pendingCommand.cmd.id
          \/ \E i \in DOMAIN commandQueue : c = commandQueue[i].id
    BY <1>2, <1>3, <1>5, <2>2 DEF Requests!Elements
  <2>4. 1 \in DOMAIN s /\ \A j \in DOMAIN commandQueue : j + 1 \in DOMAIN s
    BY <1>2, <2>1
  <2>5. \A c : (\E i \in DOMAIN s : s[i] = c) => c \in Requests!Elements(s)
    BY DEF Requests!Elements
  <2>6. pendingCommand.cmd.id \in Requests!Elements(s)
    BY <1>3, <1>5, <2>4, <2>5
  <2>7. \A i \in DOMAIN commandQueue : commandQueue[i].id \in Requests!Elements(s)
    BY <1>2, <1>3, <1>5, <2>4, <2>5
  <2>8. QED
    BY <1>1, <1>5, <2>3, <2>6, <2>7 DEF s
<1>6. QED
  BY <1>4, <1>5

\* Submit, from what it says of the mapped state; the lemmas after it do the same for the
\* other actions of SerialRequests.
LEMMA MappedSubmit ==
  ASSUME NEW c \in Ids,
         crashed # "hardwareError", crashed' # "hardwareError",
         c \notin Requests!Elements(Served(pendingCommand, commandQueue)) \cup GivenUp \cup Answered,
         Served(pendingCommand', commandQueue') = Append(Served(pendingCommand, commandQueue), c),
         GivenUp' = GivenUp, Answered' = Answered
  PROVE  Requests!Next
<1>1. Requests!Submit(c)
  BY DEF Requests!Submit, Served, IdsOf, GivenUp, Answered
<1>2. QED
  BY <1>1 DEF Requests!Next

\* Finish, from what it says of the mapped state.
LEMMA MappedFinish ==
  ASSUME crashed # "hardwareError", crashed' # "hardwareError",
         Served(pendingCommand, commandQueue) # <<>>,
         Served(pendingCommand', commandQueue') = Tail(Served(pendingCommand, commandQueue)),
         GivenUp' = GivenUp,
         Answered' = Answered \cup ({Head(Served(pendingCommand, commandQueue))} \ GivenUp)
  PROVE  Requests!Next
<1>1. Requests!Finish
  BY DEF Requests!Finish, Served, IdsOf, GivenUp, Answered
<1>2. QED
  BY <1>1 DEF Requests!Next

\* Abandon, from what it says of the mapped state.
LEMMA MappedAbandon ==
  ASSUME NEW A \in SUBSET Ids,
         crashed # "hardwareError", crashed' # "hardwareError",
         Served(pendingCommand, commandQueue) # <<>>,
         Served(pendingCommand', commandQueue') =
           Pick(Served(pendingCommand, commandQueue),
                {i \in DOMAIN Served(pendingCommand, commandQueue) :
                   i = 1 \/ Served(pendingCommand, commandQueue)[i] \notin A}),
         GivenUp' = GivenUp \cup (A \cap Requests!Elements(Served(pendingCommand, commandQueue))),
         Answered' = Answered
  PROVE  Requests!Next
<1>1. \A s, I : Requests!Pick(s, I) = Pick(s, I)
  BY DEF Requests!Pick, Pick, Requests!Nth, Nth, Requests!Rank, Rank, Requests!Cardinality, Cardinality
<1>2. Requests!Abandon(A)
  BY <1>1 DEF Requests!Abandon, Served, IdsOf, GivenUp, Answered
<1>3. QED
  BY <1>2 DEF Requests!Next

\* Collapse, from what it says of the mapped state.
LEMMA MappedCollapse ==
  ASSUME crashed # "hardwareError", crashed' = "hardwareError",
         Served(pendingCommand', commandQueue') = <<>>,
         GivenUp' = GivenUp, Answered' = Answered
  PROVE  Requests!Next
<1>1. Requests!Collapse
  BY DEF Requests!Collapse, Served, IdsOf, GivenUp, Answered
<1>2. QED
  BY <1>1 DEF Requests!Next

\* Steps that SerialRequests does not see.
LEMMA MappedStutter ==
  ASSUME Served(pendingCommand', commandQueue') = Served(pendingCommand, commandQueue),
         GivenUp' = GivenUp, Answered' = Answered,
         crashed' = "hardwareError" <=> crashed = "hardwareError"
  PROVE  UNCHANGED Requests!vars
BY DEF Requests!vars, Served, IdsOf, GivenUp, Answered

\* Sending a command submits a request.
LEMMA SubmitStep ==
  ASSUME Types, CommandsOrdered, CommandsOrdered', Types', NEW cmd \in Command,
         outcome[cmd.id] = "new", SendCommand(cmd), Running,
         outcome' = [outcome EXCEPT ![cmd.id] = "waiting"],
         UNCHANGED <<responseTo, crashed>>
  PROVE  Requests!Next
<1>1. /\ cmd.id \in Ids /\ outcome \in [Ids -> {"new", "waiting", "started", "answered", "gone"}]
      /\ responseTo[cmd.id] = None
  BY DEF Types, TypeOK, Command, CommandsOrdered
<1>2. pendingCommand \in Pending /\ commandQueue \in Seq(Command)
      /\ pendingCommand' \in Pending /\ commandQueue' \in Seq(Command)
  BY DEF Types, TypeOK
<1>3. GivenUp' = GivenUp /\ Answered' = Answered
  BY <1>1 DEF GivenUp, Answered
<1>4. cmd.id \notin GivenUp \cup Answered
  BY <1>1 DEF GivenUp, Answered
<1> HIDE DEF Command, Pending
<1>5. cmd.id \notin Requests!Elements(Served(pendingCommand, commandQueue))
  BY <1>1, ServedNow DEF CommandsOrdered
<1> DEFINE s == Served(pendingCommand, commandQueue)
           t == Served(pendingCommand', commandQueue')
           c == cmd.id
<1>6. t = Append(s, c)
  <2>1. s \in Seq(Ids) /\ t \in Seq(Ids) /\ Len(commandQueue) \in Nat /\ Len(commandQueue') \in Nat
    BY <1>2, ServedProperties, IdsOfProperties DEF CommandsOrdered
  <2>2. /\ Append(s, c) \in Seq(Ids) /\ Len(Append(s, c)) = Len(s) + 1
        /\ \A i \in 1 .. Len(s) : Append(s, c)[i] = s[i]
        /\ Append(s, c)[Len(s) + 1] = c
    BY <1>1, <2>1, AppendProperties
  <2>3. CASE MustWait
    <3>1. /\ commandQueue' = Append(commandQueue, cmd) /\ pendingCommand' = pendingCommand
          /\ pendingCommand # Idle
      BY <2>3 DEF SendCommand, MustWait
    <3>2. /\ Len(commandQueue') = Len(commandQueue) + 1
          /\ \A i \in 1 .. Len(commandQueue) : commandQueue'[i] = commandQueue[i]
          /\ commandQueue'[Len(commandQueue) + 1] = cmd
      BY <1>2, <3>1, AppendProperties
    <3>3. /\ Len(s) = Len(commandQueue) + 1 /\ s[1] = pendingCommand.cmd.id
          /\ \A i \in 1 .. Len(commandQueue) : s[i + 1] = commandQueue[i].id
      BY <1>2, <3>1, ServedProperties
    <3>4. /\ Len(t) = Len(commandQueue') + 1 /\ t[1] = pendingCommand.cmd.id
          /\ \A i \in 1 .. Len(commandQueue') : t[i + 1] = commandQueue'[i].id
      BY <1>2, <3>1, ServedProperties
    <3> HIDE DEF s, t
    <3>5. t[Len(s) + 1] = c
      BY <2>1, <3>2, <3>3, <3>4
    <3>6. \A i \in 1 .. Len(commandQueue) : t[i + 1] = s[i + 1]
      BY <2>1, <3>2, <3>3, <3>4
    <3>7. \A i \in 1 .. Len(s) : t[i] = s[i]
      <4>1. TAKE i \in 1 .. Len(s)
      <4>2. i = 1 \/ (i - 1 \in 1 .. Len(commandQueue) /\ i = (i - 1) + 1)
        BY <2>1, <3>3
      <4>3. QED
        BY <3>3, <3>4, <3>6, <4>2
    <3> HIDE DEF c
    <3>8. \A i \in 1 .. Len(t) : t[i] = Append(s, c)[i]
      <4>1. TAKE i \in 1 .. Len(t)
      <4>2. i \in 1 .. Len(s) \/ i = Len(s) + 1
        BY <2>1, <3>2, <3>3, <3>4
      <4>3. QED
        BY <2>2, <3>5, <3>7, <4>2
    <3>9. QED
      BY <2>1, <2>2, <3>2, <3>3, <3>4, <3>8, SeqEqual
  <2>4. CASE ~MustWait
    <3>1. /\ pendingCommand = Idle /\ commandQueue = <<>> /\ commandQueue' = <<>>
          /\ pendingCommand' = [cmd |-> cmd, ignoreResponse |-> FALSE]
          /\ pendingCommand'.cmd = cmd
      BY <2>4 DEF SendCommand, MustWait, ReallySendCommand, CommandsOrdered
    <3>2. pendingCommand' # Idle
      BY <3>1, PendingProperties DEF Types
    <3>3. s = <<>>
      BY <1>2, <3>1, ServedProperties
    <3>4. Len(t) = Len(commandQueue') + 1 /\ Len(commandQueue') = 0 /\ t[1] = c
      <4>1. pendingCommand' = Idle => commandQueue' = <<>>
        BY <3>1
      <4>2. Len(t) = Len(commandQueue') + 1 /\ t[1] = pendingCommand'.cmd.id
        BY <1>2, <3>2, <4>1, ServedProperties
      <4>3. QED
        BY <3>1, <4>2
    <3> HIDE DEF s, t, c
    <3>5. QED
      BY <2>1, <2>2, <3>3, <3>4, SeqEqual
  <2>5. QED
    BY <2>3, <2>4
<1>7. crashed # "hardwareError" /\ crashed' # "hardwareError"
  BY DEF Running
<1> HIDE DEF s, t, c
<1>8. QED
  BY <1>1, <1>3, <1>4, <1>5, <1>6, <1>7, MappedSubmit DEF s, t, c

\* The response to a command finishes the request that is served.
LEMMA FinishStep ==
  ASSUME IInv, IInv', HandleCommandResponse
  PROVE  Requests!Next
<1>1. /\ Types /\ TypeOK /\ CommandsOrdered /\ OneOutstanding /\ OpcodesMatch /\ RightLink
      /\ CommandsAddressed
      /\ outcome \in [Ids -> {"new", "waiting", "started", "answered", "gone"}]
      /\ responseTo \in [Ids -> Ids \cup {None}]
      /\ pendingCommand \in Pending /\ commandQueue \in Seq(Command)
      /\ pendingCommand' \in Pending /\ commandQueue' \in Seq(Command)
      /\ (pendingCommand' = Idle => commandQueue' = <<>>)
  BY DEF IInv, Types, TypeOK, CommandsOrdered
<1>2. \A cmd \in Command : cmd.id \in Ids
  BY DEF Command
<1> HIDE DEF Command, Pending, Event, NoCommand
<1> DEFINE event == Head(hciEvents)
           cmd == pendingCommand.cmd
           s == Served(pendingCommand, commandQueue)
           t == Served(pendingCommand', commandQueue')
<1>3. /\ Running /\ SendNextCommand /\ pendingCommand # Idle
      /\ event.type = "response" /\ event.opcode = cmd.opcode /\ event.to \in Ids \cup {None}
      /\ event = hciEvents[1] /\ 1 \in DOMAIN hciEvents
  BY <1>1, ReceiveProperties, EventProperties
  DEF HandleCommandResponse, IsExpected, MustWait, Receive
<1>4. cmd \in Command /\ cmd.id \in Ids
  BY <1>1, <1>2, <1>3, PendingProperties
<1>5. event.to # None
  <2>1. cmd.opcode \in Opcode
    BY <1>4 DEF Command
  <2>2. cmd.opcode # "foreign"
    BY <2>1, CommandAssumption DEF Opcode, HandleOpcode
  <2>3. QED
    BY <1>1, <1>3, <2>2 DEF OpcodesMatch
<1>6. /\ responseTo[cmd.id] = None
      /\ outcome[cmd.id] = IF pendingCommand.ignoreResponse THEN "gone" ELSE "waiting"
  BY <1>1, <1>3 DEF CommandsOrdered
<1>7. t = Tail(s) /\ s # <<>> /\ Head(s) = cmd.id
  <2>1. /\ s # <<>> /\ Head(s) = cmd.id /\ Tail(s) = IdsOf(commandQueue)
    BY <1>1, <1>3, ServedProperties
  <2>2. /\ IdsOf(commandQueue) \in Seq(Ids) /\ Len(IdsOf(commandQueue)) = Len(commandQueue)
        /\ Len(commandQueue) \in Nat /\ DOMAIN commandQueue = 1 .. Len(commandQueue)
        /\ \A i \in 1 .. Len(commandQueue) : IdsOf(commandQueue)[i] = commandQueue[i].id
    BY <1>1, IdsOfProperties
  <2>3. CASE commandQueue = <<>>
    <3>1. t = <<>>
      BY <1>1, <1>3, <2>3, ServedProperties DEF SendNextCommand
    <3>2. IdsOf(commandQueue) = <<>>
      BY <2>2, <2>3, EmptySeq
    <3>3. QED
      BY <2>1, <3>1, <3>2
  <2>4. CASE commandQueue # <<>>
    <3>1. /\ commandQueue' = Tail(commandQueue)
          /\ pendingCommand' = [cmd |-> commandQueue[1], ignoreResponse |-> FALSE]
          /\ pendingCommand'.cmd = commandQueue[1] /\ commandQueue[1] \in Command
      BY <1>1, <1>3, <2>4, QueueProperties DEF SendNextCommand, ReallySendCommand
    <3>2. pendingCommand' # Idle
      BY <1>1, <3>1, PendingProperties
    <3>3. /\ Len(commandQueue') = Len(commandQueue) - 1
          /\ \A i \in 1 .. Len(commandQueue') : commandQueue'[i] = commandQueue[i + 1]
      BY <1>1, <2>4, <3>1, HeadTailProperties
    <3>4. /\ t \in Seq(Ids) /\ Len(t) = Len(commandQueue') + 1 /\ t[1] = commandQueue[1].id
          /\ \A i \in 1 .. Len(commandQueue') : t[i + 1] = commandQueue'[i].id
      BY <1>1, <3>1, <3>2, ServedProperties
    <3> HIDE DEF t
    <3>5. \A i \in 1 .. Len(t) : t[i] = commandQueue[i].id
      <4>1. TAKE i \in 1 .. Len(t)
      <4>2. i = 1 \/ (i - 1 \in 1 .. Len(commandQueue') /\ i = (i - 1) + 1)
        BY <2>2, <3>3, <3>4
      <4>3. QED
        BY <3>3, <3>4, <4>2
    <3>6. Len(t) = Len(commandQueue)
      BY <2>2, <3>3, <3>4
    <3>7. t = IdsOf(commandQueue)
      BY <2>2, <3>4, <3>5, <3>6, SeqEqual
    <3>8. QED
      BY <2>1, <3>7
  <2>5. QED
    BY <2>3, <2>4
<1>8. CASE pendingCommand.ignoreResponse
  <2>1. UNCHANGED <<crashed, outcome, responseTo>>
    BY <1>8 DEF HandleCommandResponse
  <2>2. cmd.id \in GivenUp
    BY <1>4, <1>6, <1>8 DEF GivenUp
  <2>3. GivenUp' = GivenUp /\ Answered' = Answered
    BY <2>1 DEF GivenUp, Answered
  <2>4. crashed # "hardwareError" /\ crashed' # "hardwareError"
    BY <1>3, <2>1 DEF Running
  <2>5. Answered' = Answered \cup ({Head(s)} \ GivenUp)
    BY <1>7, <2>2, <2>3
  <2> HIDE DEF s, t
  <2>6. QED
    BY <1>7, <2>3, <2>4, <2>5, MappedFinish DEF s, t
<1>9. CASE ~pendingCommand.ignoreResponse
  <2>1. RunCallback(cmd, event.status) /\ responseTo' = [responseTo EXCEPT ![cmd.id] = event.to]
    BY <1>9 DEF HandleCommandResponse
  <2>2. outcome[cmd.id] = "waiting" /\ cmd.id \notin GivenUp
    BY <1>6, <1>9 DEF GivenUp
  <2>3. /\ outcome' \in {outcome, [outcome EXCEPT ![cmd.id] = "started"],
                         [outcome EXCEPT ![cmd.id] = "answered"]}
        /\ crashed' \in {crashed, "TypeError"}
    BY <2>1 DEF RunCallback
  <2>4. crashed # "hardwareError" /\ crashed' # "hardwareError"
    BY <1>3, <2>3 DEF Running
  <2> HIDE DEF cmd, event, s, t
  <2>5. /\ responseTo'[cmd.id] # None
        /\ \A c \in Ids : c # cmd.id => responseTo'[c] = responseTo[c] /\ outcome'[c] = outcome[c]
    BY <1>1, <1>4, <1>5, <2>1, <2>3
  <2>6. GivenUp' = GivenUp
    BY <2>2, <2>5 DEF GivenUp
  <2>7. Answered' = Answered \cup {cmd.id}
    BY <1>4, <2>5 DEF Answered
  <2>8. QED
    BY <1>7, <2>2, <2>4, <2>6, <2>7, MappedFinish DEF s, t
<1>10. QED
  BY <1>8, <1>9

\* A disconnection keeps the request that is served and drops those of the connection.
LEMMA AbandonStep ==
  ASSUME IInv, IInv', HandleDisconnectionComplete
  PROVE  Requests!Next \/ UNCHANGED Requests!vars
<1>1. /\ Types /\ TypeOK /\ CommandsOrdered
      /\ outcome \in [Ids -> {"new", "waiting", "started", "answered", "gone"}]
      /\ responseTo \in [Ids -> Ids \cup {None}]
      /\ eventCallback \in [Handle -> [Procedure -> Ids \cup {None}]]
      /\ pendingCommand \in Pending /\ commandQueue \in Seq(Command)
      /\ pendingCommand' \in Pending /\ commandQueue' \in Seq(Command)
  BY DEF IInv, Types, TypeOK, CommandsOrdered
<1>2. None \notin Ids
  BY DEF None, Ids
<1> HIDE DEF Command, Pending, Event, NoCommand
<1> DEFINE h == Head(hciEvents).handle
           A == {cmd.id : cmd \in {c \in Unanswered : c.handle = h}}
           callbacks == {eventCallback[h][p] : p \in Procedure}
           s == Served(pendingCommand, commandQueue)
<1>3. /\ Running /\ h \in Handle
  BY <1>1, ReceiveProperties, EventProperties DEF HandleDisconnectionComplete, Receive
<1>4. /\ commandQueue' = Survivors(h) /\ pendingCommand' = AfterDisconnect(h)
      /\ outcome' = [c \in Ids |-> IF c \in A \cup callbacks THEN "gone" ELSE outcome[c]]
      /\ UNCHANGED <<responseTo, crashed>>
  BY DEF HandleDisconnectionComplete
<1> HIDE DEF h
<1>5. /\ \A c \in callbacks : c # None => responseTo[c] # None
  BY <1>1, <1>3 DEF CommandsOrdered
<1>6. A \in SUBSET Ids /\ \A c \in A : outcome[c] = "waiting" /\ responseTo[c] = None
  BY <1>1, <1>3, UnansweredProperties DEF CommandsOrdered
<1>7. Answered' = Answered
  BY <1>4 DEF Answered
<1>8. GivenUp' = GivenUp \cup A
  <2> HIDE DEF A, callbacks
  <2>1. ASSUME NEW c \in Ids
        PROVE  c \in GivenUp' <=> c \in GivenUp \cup A
    <3>1. outcome'[c] = IF c \in A \cup callbacks THEN "gone" ELSE outcome[c]
      BY <1>4
    <3>2. CASE c \in A
      BY <1>4, <1>6, <3>1, <3>2 DEF GivenUp
    <3>3. CASE c \notin A /\ c \in callbacks
      BY <1>2, <1>4, <1>5, <3>3 DEF GivenUp
    <3>4. CASE c \notin A /\ c \notin callbacks
      BY <1>4, <3>1, <3>4 DEF GivenUp
    <3>5. QED
      BY <3>2, <3>3, <3>4
  <2>2. QED
    BY <1>6, <2>1 DEF GivenUp
<1>9. /\ crashed # "hardwareError" /\ crashed' # "hardwareError"
  BY <1>3, <1>4 DEF Running
<1>10. pendingCommand'.cmd = pendingCommand.cmd
       /\ (pendingCommand' = Idle <=> pendingCommand = Idle)
  <2>1. pendingCommand \in [cmd : Command \cup {NoCommand}, ignoreResponse : BOOLEAN]
    BY <1>1 DEF Pending
  <2>2. pendingCommand'.cmd = pendingCommand.cmd
    BY <1>4, <2>1 DEF AfterDisconnect
  <2>3. pendingCommand' = Idle <=> pendingCommand'.cmd = NoCommand
    <3>1. pendingCommand' \in [cmd : Command \cup {NoCommand}, ignoreResponse : BOOLEAN]
          /\ (pendingCommand'.ignoreResponse => pendingCommand'.cmd.handle \in Handle)
      BY <1>1 DEF Pending
    <3>2. NoCommand.handle \notin Handle
      BY CommandAssumption DEF NoCommand
    <3>3. QED
      BY <3>1, <3>2 DEF Idle
  <2>4. QED
    BY <1>1, <2>2, <2>3, PendingProperties
<1>11. CASE pendingCommand = Idle
  <2>1. commandQueue = <<>> /\ commandQueue' = <<>>
    BY <1>1, <1>4, <1>11, SurvivorsProperties DEF CommandsOrdered
  <2>2. Served(pendingCommand', commandQueue') = s
    BY <1>10, <1>11, <2>1 DEF Served
  <2>3. DOMAIN commandQueue = {}
    BY <2>1
  <2>4. A = {}
    <3>1. Idle.cmd.handle = "none"
      BY DEF Idle, NoCommand
    <3>2. \A c \in Unanswered : c.handle # h
      BY <1>3, <1>11, <2>3, <3>1, CommandAssumption DEF Unanswered
    <3>3. QED
      BY <3>2
  <2>5. GivenUp' = GivenUp
    BY <1>8, <2>4
  <2> HIDE DEF s, A
  <2>6. QED
    BY <1>7, <1>9, <2>2, <2>5, MappedStutter DEF s
<1>12. CASE pendingCommand # Idle
  <2> DEFINE x == pendingCommand.cmd.id
             w == IdsOf(commandQueue)
             n == Len(commandQueue)
             I == {i \in DOMAIN commandQueue : commandQueue[i].handle # h}
  <2>1. /\ s = <<x>> \o w /\ s # <<>> /\ Len(s) = n + 1 /\ s \in Seq(Ids) /\ s[1] = x
        /\ x \in Ids /\ \A i \in 1 .. n : s[i + 1] = commandQueue[i].id
    BY <1>1, <1>12, ServedProperties DEF CommandsOrdered
  <2>2. /\ w \in Seq(Ids) /\ Len(w) = n /\ n \in Nat /\ DOMAIN commandQueue = 1 .. n
        /\ \A i \in 1 .. n : w[i] = commandQueue[i].id
    BY <1>1, IdsOfProperties
  <2>3. I \in SUBSET (1 .. n)
    BY <2>2
  <2>4. \A i \in 1 .. n : commandQueue[i].id \in A <=> commandQueue[i].handle = h
    <3>1. TAKE i \in 1 .. n
    <3>2. commandQueue[i] \in Unanswered
      BY <2>2 DEF Unanswered
    <3>3. ASSUME commandQueue[i].id \in A
          PROVE  commandQueue[i].handle = h
      <4>1. PICK c \in Unanswered : c.id = commandQueue[i].id /\ c.handle = h
        BY <3>3
      <4>2. c # pendingCommand.cmd
        BY <1>1, <2>2, <4>1 DEF CommandsOrdered
      <4>3. PICK j \in DOMAIN commandQueue : c = commandQueue[j]
        BY <4>2 DEF Unanswered
      <4>4. i = j
        BY <1>1, <2>2, <4>1, <4>3 DEF CommandsOrdered
      <4>5. QED
        BY <4>1, <4>3, <4>4
    <3>4. QED
      BY <3>2, <3>3
  <2>5. {i \in DOMAIN s : i = 1 \/ s[i] \notin A} = Behind(I)
    <3>1. DOMAIN s = 1 .. n + 1
      BY <2>1, LenProperties
    <3> HIDE DEF A, s
    <3>2. ASSUME NEW i \in DOMAIN s, i # 1
          PROVE  s[i] \notin A <=> i - 1 \in I
      <4>1. i - 1 \in 1 .. n /\ i = (i - 1) + 1
        BY <2>2, <3>1, <3>2
      <4>2. s[i] = commandQueue[i - 1].id
        BY <2>1, <4>1
      <4>3. QED
        BY <2>2, <2>4, <4>1, <4>2
    <3> HIDE DEF I
    <3>3. ASSUME NEW i \in DOMAIN s
          PROVE  (i = 1 \/ s[i] \notin A) <=> i \in Behind(I)
      <4>1. i \in Nat
        BY <2>2, <3>1
      <4>2. \A j \in I : j \in Nat /\ (i = j + 1 => j = i - 1)
        BY <2>2, <2>3, <4>1
      <4>3. i = (i - 1) + 1
        BY <4>1
      <4>4. i \in Behind(I) <=> i = 1 \/ i - 1 \in I
        BY <4>2, <4>3 DEF Behind
      <4>5. QED
        BY <3>2, <4>4
    <3>4. Behind(I) \subseteq DOMAIN s
      BY <2>2, <2>3, <3>1 DEF Behind
    <3>5. QED
      BY <3>3, <3>4
  <2>6. Survivors(h) = Pick(commandQueue, I)
    BY DEF Survivors
  <2>7. IdsOf(Survivors(h)) = Pick(w, I)
    <3> DEFINE m == Cardinality(I)
    <3> HIDE DEF I, w
    <3>1. m \in Nat /\ \A k \in 1 .. m : Nth(I, k) \in I
      BY <1>1, <2>3, PickProperties
    <3>2. Pick(commandQueue, I) = [k \in 1 .. m |-> commandQueue[Nth(I, k)]]
      BY DEF Pick
    <3>3. Pick(w, I) = [k \in 1 .. m |-> w[Nth(I, k)]]
      BY DEF Pick
    <3> HIDE DEF m
    <3>4. IdsOf(Pick(commandQueue, I)) = [k \in 1 .. m |-> commandQueue[Nth(I, k)].id]
      BY <3>2 DEF IdsOf
    <3>5. \A k \in 1 .. m : w[Nth(I, k)] = commandQueue[Nth(I, k)].id
      BY <2>2, <2>3, <3>1
    <3>6. QED
      BY <2>6, <3>3, <3>4, <3>5
  <2>8. Served(pendingCommand', commandQueue') = <<x>> \o Pick(w, I)
    BY <1>4, <1>10, <1>12, <2>7 DEF Served
  <2>9. Pick(s, Behind(I)) = <<x>> \o Pick(w, I)
    <3> HIDE DEF I, w, x, s, n
    <3>1. I \in SUBSET (1 .. Len(w))
      BY <2>2, <2>3
    <3>2. QED
      BY <2>1, <2>2, <3>1, PickBehindHead
  <2>10. A \subseteq Requests!Elements(s)
    <3>1. \A c \in Unanswered : c = pendingCommand.cmd \/ \E i \in DOMAIN commandQueue : c = commandQueue[i]
      BY DEF Unanswered
    <3>2. /\ x \in Requests!Elements(s)
          /\ \A i \in DOMAIN commandQueue : commandQueue[i].id \in Requests!Elements(s)
      BY <1>1, <1>12, ServedNow
    <3> HIDE DEF s
    <3>3. QED
      BY <3>1, <3>2
  <2>11. GivenUp' = GivenUp \cup (A \cap Requests!Elements(s))
    BY <1>8, <2>10
  <2> HIDE DEF s, A, I, w, x, n
  <2>12. Served(pendingCommand', commandQueue') = Pick(s, {i \in DOMAIN s : i = 1 \/ s[i] \notin A})
    BY <2>5, <2>8, <2>9
  <2>13. QED
    BY <1>6, <1>7, <1>9, <2>1, <2>11, <2>12, MappedAbandon DEF s
<1>13. QED
  BY <1>11, <1>12

\* Every step is a step of SerialRequests or leaves its state alone.
LEMMA RequestsStep ==
  ASSUME IInv, IInv', [Next]_vars
  PROVE  Requests!Next \/ UNCHANGED Requests!vars
<1> USE DEF hostVars, controllerVars, historyVars
<1>1. /\ TypeOK /\ Types /\ CommandsOrdered /\ Types' /\ CommandsOrdered'
      /\ outcome \in [Ids -> {"new", "waiting", "started", "answered", "gone"}]
      /\ eventCallback \in [Handle -> [Procedure -> Ids \cup {None}]]
  BY DEF IInv, Types, TypeOK
<1> HIDE DEF Command, Event, NoCommand, Pending, IInv
<1>2. UNCHANGED <<outcome, responseTo>> => GivenUp' = GivenUp /\ Answered' = Answered
  BY DEF GivenUp, Answered
<1>3. ASSUME NEW c \in Ids, NEW opcode \in Opcode, NEW h \in Handle \cup {"none"},
             Issue(c, opcode, h)
      PROVE  Requests!Next
  <2> DEFINE cmd == [id |-> c, opcode |-> opcode, handle |-> h]
  <2>1. cmd \in Command /\ cmd.id = c
    BY DEF Command
  <2>2. /\ SendCommand(cmd) /\ outcome[c] = "new" /\ outcome' = [outcome EXCEPT ![c] = "waiting"]
        /\ Running /\ UNCHANGED <<responseTo, crashed>>
    BY <1>3 DEF Issue, IsNext
  <2> HIDE DEF cmd
  <2>3. QED
    BY <1>1, <2>1, <2>2, SubmitStep
<1>4. CASE HandleProcedureComplete
  <2> DEFINE h == Head(hciEvents).handle
             p == Head(hciEvents).opcode
             c == eventCallback[h][p]
  <2>1. h \in Handle /\ p \in Procedure
    BY <1>1, <1>4, ReceiveProperties, EventProperties DEF HandleProcedureComplete
  <2>2. /\ UNCHANGED <<pendingCommand, commandQueue, responseTo, crashed>>
        /\ \/ UNCHANGED outcome
           \/ c # None /\ outcome' = [outcome EXCEPT ![c] = "answered"]
    BY <1>4 DEF HandleProcedureComplete
  <2> HIDE DEF h, p
  <2>3. c # None => c \in Ids /\ responseTo[c] # None
    BY <1>1, <2>1 DEF CommandsOrdered
  <2>4. GivenUp' = GivenUp /\ Answered' = Answered
    BY <1>1, <2>2, <2>3 DEF GivenUp, Answered
  <2>5. QED
    BY <2>2, <2>4, MappedStutter
<1>5. CASE HandleLeConnectionComplete
  <2> DEFINE h == Head(hciEvents).handle
  <2>1. h \in Handle /\ responseTo' = responseTo /\ Running
    BY <1>1, <1>5, ReceiveProperties, EventProperties DEF HandleLeConnectionComplete, Receive
  <2>2. \/ UNCHANGED <<pendingCommand, commandQueue, outcome>>
           /\ (crashed' = crashed \/ crashed' = "alreadyConnected")
        \/ crashed' = crashed /\ \E c \in Ids :
             /\ outcome[c] = "new"
             /\ SendCommand([id |-> c, opcode |-> "disconnect", handle |-> h])
             /\ outcome' = [outcome EXCEPT ![c] = "waiting"]
    BY <1>5 DEF HandleLeConnectionComplete, IsNext
  <2> HIDE DEF h
  <2>3. ASSUME NEW c \in Ids, outcome[c] = "new", crashed' = crashed,
               SendCommand([id |-> c, opcode |-> "disconnect", handle |-> h]),
               outcome' = [outcome EXCEPT ![c] = "waiting"]
        PROVE  Requests!Next
    <3> DEFINE cmd == [id |-> c, opcode |-> "disconnect", handle |-> h]
    <3>1. cmd \in Command /\ cmd.id = c
      BY <2>1 DEF Command, Opcode, HandleOpcode
    <3>2. SendCommand(cmd)
      BY <2>3
    <3> HIDE DEF cmd
    <3>3. QED
      BY <1>1, <2>1, <2>3, <3>1, <3>2, SubmitStep
  <2>4. CASE /\ UNCHANGED <<pendingCommand, commandQueue, outcome>>
             /\ crashed' = crashed \/ crashed' = "alreadyConnected"
    <3>1. crashed = "no"
      BY <2>1 DEF Running
    <3>2. UNCHANGED <<pendingCommand, commandQueue, outcome, responseTo>>
      BY <2>1, <2>4
    <3>3. QED
      BY <1>2, <2>4, <3>1, <3>2, MappedStutter
  <2>5. QED
    BY <2>2, <2>3, <2>4
<1>6. CASE HandleHardwareError
  <2>1. /\ pendingCommand' = Idle /\ commandQueue' = <<>> /\ crashed' = "hardwareError"
        /\ UNCHANGED <<outcome, responseTo>> /\ crashed = "no"
    BY <1>6 DEF HandleHardwareError, Receive, Running
  <2>2. Served(pendingCommand', commandQueue') = <<>>
    BY <1>1, <2>1, ServedProperties DEF Types, TypeOK
  <2>3. GivenUp' = GivenUp /\ Answered' = Answered
    BY <2>1 DEF GivenUp, Answered
  <2>4. QED
    BY <2>1, <2>2, <2>3, MappedCollapse
<1>7. CASE UNCHANGED <<pendingCommand, commandQueue, outcome, responseTo, crashed>>
  BY <1>2, <1>7, MappedStutter
<1>8. CASE HandleCommandResponse \/ HandleDisconnectionComplete
  BY <1>8, FinishStep, AbandonStep
<1>9. \/ UNCHANGED <<pendingCommand, commandQueue, outcome, responseTo, crashed>>
      \/ HandleCommandResponse \/ HandleProcedureComplete \/ HandleLeConnectionComplete
      \/ HandleDisconnectionComplete \/ HandleHardwareError
      \/ \E c \in Ids, opcode \in Opcode, h \in Handle \cup {"none"} : Issue(c, opcode, h)
  BY DEF Next, HostStep, ControllerWorks, Stop, HandleForeignResponse, Respond, RespondForeign,
         CompleteProcedure, LinkUp, LinkDown, Malfunction, vars
<1>10. QED
  BY <1>3, <1>4, <1>5, <1>6, <1>7, <1>8, <1>9

\* HciCommandQueue implements SerialRequests: commands get their responses one at a time in the
\* order of the calls, each at most once, and a command that was given up because its connection
\* was terminated gets none.
THEOREM AdapterServesInOrder == Spec => ServesInOrder
<1>1. Init => Requests!Init
  <2>1. SUFFICES ASSUME Init
                 PROVE  Requests!Init
    OBVIOUS
  <2>2. Served(pendingCommand, commandQueue) = <<>>
    <3>1. pendingCommand \in Pending /\ commandQueue \in Seq(Command)
          /\ pendingCommand = Idle /\ commandQueue = <<>>
      BY <2>1 DEF Init, Idle, Pending
    <3>2. QED
      BY <3>1, ServedProperties
  <2>3. GivenUp = {} /\ Answered = {} /\ crashed = "no"
    BY <2>1 DEF Init, GivenUp, Answered
  <2>4. QED
    BY <2>2, <2>3 DEF Requests!Init, Served, IdsOf, GivenUp, Answered
<1>2. IInv /\ IInv' /\ [Next]_vars => [Requests!Next]_(Requests!vars)
  BY RequestsStep
<1>3. QED
  BY <1>1, <1>2, CommandInvariant, PTL DEF Spec, ServesInOrder, Requests!Spec
=============================================================================
