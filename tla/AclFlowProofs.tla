--------------------------- MODULE AclFlowProofs ---------------------------
(***************************************************************************)
(* Proofs about AclFlow: its types, the accounting of the controller's     *)
(* buffers and the absence of lost wake-ups, for any set of handles, any   *)
(* number of buffers and packets, and a controller that may report more    *)
(* completed packets than it completed.                                    *)
(***************************************************************************)
EXTENDS AclFlow, FiniteSetTheorems, FunctionTheorems, SequenceTheorems, TLAPS

-----------------------------------------------------------------------------
(* Sequences and sets of slots. *)

\* Removing the last activation of a stack leaves the others where they are.
LEMMA PopProperties ==
  ASSUME NEW S, NEW s \in Seq(S), s # <<>>
  PROVE  /\ SubSeq(s, 1, Len(s) - 1) \in Seq(S)
         /\ Len(SubSeq(s, 1, Len(s) - 1)) = Len(s) - 1
         /\ \A i \in 1 .. Len(s) - 1 : SubSeq(s, 1, Len(s) - 1)[i] = s[i]
<1>1. Len(s) \in Nat \ {0} /\ \A i \in 1 .. Len(s) : s[i] \in S
  BY EmptySeq, ElementOfSeq
<1>2. 1 \in Int /\ Len(s) - 1 \in Int /\ \A i \in 1 .. Len(s) - 1 : s[i] \in S
  BY <1>1
<1> DEFINE t == SubSeq(s, 1, Len(s) - 1)
           m == Len(s) - 1
<1>3. m \in Nat /\ \A i \in 1 .. m : s[i] \in S
  BY <1>1, <1>2
<1>4. /\ t \in Seq(S)
      /\ Len(t) = IF 1 <= m THEN m - 1 + 1 ELSE 0
      /\ \A i \in 1 .. m - 1 + 1 : t[i] = s[1 + i - 1]
  <2>1. 1 \in Int /\ m \in Int
    BY <1>3
  <2> HIDE DEF m
  <2>2. SubSeq(s, 1, m) \in Seq(S)
        /\ Len(SubSeq(s, 1, m)) = (IF 1 <= m THEN m - 1 + 1 ELSE 0)
        /\ \A i \in 1 .. m - 1 + 1 : SubSeq(s, 1, m)[i] = s[1 + i - 1]
    BY <1>3, <2>1, SubSeqProperties
  <2>3. QED
    BY <2>2 DEF m
<1> HIDE DEF t, m
<1>5. m - 1 + 1 = m /\ Len(t) = m
  BY <1>3, <1>4
<1>6. \A i \in 1 .. m : 1 + i - 1 = i
  BY <1>3
<1>7. t \in Seq(S) /\ Len(t) = m /\ \A i \in 1 .. m : t[i] = s[i]
  BY <1>4, <1>5, <1>6
<1>8. QED
  BY <1>7 DEF t, m

\* Appending an entry to one queue adds one slot.
LEMMA SlotsAppend ==
  ASSUME NEW S, NEW q \in [Handle -> Seq(S)], NEW h \in Handle, NEW e \in S
  PROVE  /\ Slots([q EXCEPT ![h] = Append(@, e)]) = Slots(q) \cup {<<h, Len(q[h]) + 1>>}
         /\ <<h, Len(q[h]) + 1>> \notin Slots(q)
<1> DEFINE r == [q EXCEPT ![h] = Append(@, e)]
<1>1. \A g \in Handle : Len(q[g]) \in Nat
  BY LenProperties
<1>2. \A g \in Handle : Len(r[g]) = IF g = h THEN Len(q[h]) + 1 ELSE Len(q[g])
  OBVIOUS
<1> HIDE DEF r
<1>3. Slots(r) = Slots(q) \cup {<<h, Len(q[h]) + 1>>}
  BY <1>1, <1>2 DEF Slots
<1>4. <<h, Len(q[h]) + 1>> \notin Slots(q)
  BY <1>1 DEF Slots
<1>5. QED
  BY <1>3, <1>4 DEF r

\* Clearing one queue removes as many slots as it had entries.
LEMMA SlotsClear ==
  ASSUME NEW S, NEW q \in [Handle -> Seq(S)], NEW h \in Handle, IsFiniteSet(Slots(q))
  PROVE  /\ IsFiniteSet(Slots([q EXCEPT ![h] = <<>>]))
         /\ Cardinality(Slots([q EXCEPT ![h] = <<>>])) = Cardinality(Slots(q)) - Len(q[h])
<1> DEFINE r == [q EXCEPT ![h] = <<>>]
           U == {h} \X (1 .. Len(q[h]))
<1>1. \A g \in Handle : Len(q[g]) \in Nat
  BY LenProperties
<1>2. \A g \in Handle : Len(r[g]) = IF g = h THEN 0 ELSE Len(q[g])
  OBVIOUS
<1> HIDE DEF r
<1>3. Slots(r) = Slots(q) \ U
  BY <1>1, <1>2 DEF Slots
<1>4. Slots(q) \cap U = U
  BY DEF Slots
<1>5. IsFiniteSet({h}) /\ Cardinality({h}) = 1
  BY FS_Singleton
<1>6. IsFiniteSet(1 .. Len(q[h])) /\ Cardinality(1 .. Len(q[h])) = Len(q[h])
  <2> DEFINE m == Len(q[h])
  <2>1. m \in Nat
    BY <1>1
  <2> HIDE DEF m
  <2>2. IsFiniteSet(1 .. m) /\ Cardinality(1 .. m) = (IF 1 > m THEN 0 ELSE m - 1 + 1)
    BY <2>1, FS_Interval
  <2>3. Cardinality(1 .. m) = m
    BY <2>1, <2>2
  <2>4. QED
    BY <2>2, <2>3 DEF m
<1>7. Cardinality(U) = Len(q[h])
  <2>1. Cardinality(U) = Cardinality({h}) * Cardinality(1 .. Len(q[h]))
    BY <1>5, <1>6, FS_Product
  <2>2. QED
    BY <1>1, <1>5, <1>6, <2>1
<1>8. IsFiniteSet(Slots(r)) /\ Cardinality(Slots(r)) = Cardinality(Slots(q)) - Cardinality(U)
  <2> HIDE DEF U
  <2>1. /\ IsFiniteSet(Slots(q) \ U)
        /\ Cardinality(Slots(q) \ U) = Cardinality(Slots(q)) - Cardinality(Slots(q) \cap U)
    BY FS_Difference, Zenon
  <2>2. QED
    BY <1>3, <1>4, <2>1
<1>9. QED
  BY <1>7, <1>8 DEF r

\* One pair for each packet counted by n.
CountSlots(n) == UNION {{h} \X (1 .. n[h]) : h \in Handle}

\* Splicing n[h] entries off the front of every queue h removes one slot for each.
LEMMA SlotsSplice ==
  ASSUME NEW S, NEW q \in [Handle -> Seq(S)], IsFiniteSet(Slots(q)),
         NEW n \in [Handle -> Nat], \A h \in Handle : n[h] <= Len(q[h]),
         NEW r \in [Handle -> Seq(S)], \A h \in Handle : Len(r[h]) = Len(q[h]) - n[h]
  PROVE  /\ IsFiniteSet(Slots(r))
         /\ IsFiniteSet(CountSlots(n))
         /\ Cardinality(Slots(q)) = Cardinality(Slots(r)) + Cardinality(CountSlots(n))
<1> DEFINE U == UNION {{h} \X (1 .. n[h]) : h \in Handle}
           V == Slots(q) \ U
           f == [v \in V |-> <<v[1], v[2] - n[v[1]]>>]
<1>1. \A h \in Handle : Len(q[h]) \in Nat /\ Len(r[h]) \in Nat
  BY LenProperties
<1>2. \A x : x \in V <=> \E h \in Handle, i \in Nat : n[h] < i /\ i <= Len(q[h]) /\ x = <<h, i>>
  BY <1>1 DEF Slots
<1>3. \A x : x \in Slots(r) <=>
        \E h \in Handle, i \in Nat : 1 <= i /\ i <= Len(q[h]) - n[h] /\ x = <<h, i>>
  BY <1>1 DEF Slots
<1>4. f \in [V -> Slots(r)]
  <2>1. ASSUME NEW v \in V
        PROVE  <<v[1], v[2] - n[v[1]]>> \in Slots(r)
    <3>1. PICK h \in Handle, i \in Nat : n[h] < i /\ i <= Len(q[h]) /\ v = <<h, i>>
      BY <1>2
    <3>2. i - n[h] \in Nat /\ 1 <= i - n[h] /\ i - n[h] <= Len(q[h]) - n[h]
      BY <1>1, <3>1
    <3>3. QED
      BY <1>3, <3>1, <3>2
  <2>2. QED
    BY <2>1
<1>5. ASSUME NEW v \in V, NEW w \in V, f[v] = f[w]
      PROVE  v = w
  <2>1. PICK h \in Handle, i \in Nat : n[h] < i /\ i <= Len(q[h]) /\ v = <<h, i>>
    BY <1>2
  <2>2. PICK g \in Handle, j \in Nat : n[g] < j /\ j <= Len(q[g]) /\ w = <<g, j>>
    BY <1>2
  <2>3. f[v] = <<h, i - n[h]>> /\ f[w] = <<g, j - n[g]>>
    BY <2>1, <2>2
  <2>4. h = g /\ i - n[h] = j - n[g]
    BY <1>5, <2>3
  <2>5. QED
    BY <1>1, <2>1, <2>2, <2>4
<1>6. ASSUME NEW x \in Slots(r)
      PROVE  \E v \in V : f[v] = x
  <2>1. PICK h \in Handle, i \in Nat : 1 <= i /\ i <= Len(q[h]) - n[h] /\ x = <<h, i>>
    BY <1>3
  <2>2. i + n[h] \in Nat /\ n[h] < i + n[h] /\ i + n[h] <= Len(q[h])
    BY <1>1, <2>1
  <2>3. <<h, i + n[h]>> \in V
    BY <1>2, <2>2
  <2>4. f[<<h, i + n[h]>>] = <<h, (i + n[h]) - n[h]>>
    BY <2>3
  <2>5. (i + n[h]) - n[h] = i
    BY <1>1, <2>1
  <2>6. QED
    BY <2>1, <2>3, <2>4, <2>5
<1> HIDE DEF V, f
<1>7. f \in Injection(V, Slots(r)) /\ f \in Surjection(V, Slots(r))
  BY <1>4, <1>5, <1>6 DEF Injection, Surjection, IsInjective
<1>8. ExistsBijection(V, Slots(r))
  BY <1>7 DEF ExistsBijection, Bijection
<1>9. U \subseteq Slots(q)
  BY <1>1 DEF Slots
<1> HIDE DEF U
<1>10. IsFiniteSet(U) /\ Slots(q) \cap U = U
  BY <1>9, FS_Subset
<1>11. IsFiniteSet(V) /\ Cardinality(V) = Cardinality(Slots(q)) - Cardinality(U)
  <2>1. /\ IsFiniteSet(Slots(q) \ U)
        /\ Cardinality(Slots(q) \ U) = Cardinality(Slots(q)) - Cardinality(Slots(q) \cap U)
    BY FS_Difference, Zenon
  <2>2. QED
    BY <1>10, <2>1 DEF V
<1>12. IsFiniteSet(Slots(r)) /\ Cardinality(Slots(r)) = Cardinality(V)
  BY <1>8, <1>11, FS_Bijection
<1>13. Cardinality(U) \in Nat /\ Cardinality(Slots(q)) \in Nat
  BY <1>10, FS_CardinalityType
<1>14. QED
  BY <1>10, <1>11, <1>12, <1>13 DEF U, CountSlots

-----------------------------------------------------------------------------
(* Types. *)

\* TypeOK but for the upper bound on numFreeBuffers, which needs the accounting.
Shape ==
  /\ isStopped \in BOOLEAN
  /\ activeConnections \in SUBSET Handle
  /\ numFreeBuffers \in Nat
  /\ outgoingL2CAPBuffer \in [Handle -> Seq(Fragment)]
  /\ outgoingL2CAPPacketsInController \in [Handle -> Seq(Sdus \cup {NoCallback})]
  /\ callStack \in Seq(Frame)
  /\ links \in SUBSET Handle
  /\ controllerPackets \in [Handle -> Seq(Fragment)]
  /\ hciEvents \in Seq(Event)
  /\ linksMade \in 0 .. MaxLinks
  /\ sduState \in [Sdus -> {"new", "queued", "sent", "complete", "gone"}]
  /\ sduHandle \in [Sdus -> Handle \cup {"none"}]
  /\ delivered \in SUBSET Sdus

\* Shape is TypeOK without the bounds of the counter.
LEMMA TypeGivesShape == TypeOK => Shape
BY DEF TypeOK, Shape

\* An event that is received is a well-formed event, and the rest stay in order.
LEMMA ReceiveProperties ==
  ASSUME hciEvents \in Seq(Event), NEW type, Receive(type)
  PROVE  /\ Head(hciEvents) \in Event
         /\ hciEvents' \in Seq(Event)
         /\ type \in {"connected", "disconnected"} => Head(hciEvents).handle \in Handle
         /\ type = "completed" => Head(hciEvents).count \in [Handle -> Nat]
<1>1. Head(hciEvents) \in Event /\ Tail(hciEvents) \in Seq(Event)
  BY HeadTailProperties DEF Receive
<1>2. Head(hciEvents).type = type /\ hciEvents' = Tail(hciEvents)
  BY DEF Receive
<1>3. type \in {"connected", "disconnected"} => Head(hciEvents).handle \in Handle
  BY <1>1, <1>2 DEF Event
<1>4. type = "completed" => Head(hciEvents).count \in [Handle -> Nat]
  BY <1>1, <1>2 DEF Event
<1>5. QED
  BY <1>1, <1>2, <1>3, <1>4

\* The host never takes more packets of a handle as completed than it waits for.
LEMMA NumCompletedBounded ==
  ASSUME Shape, NEW count \in [Handle -> Nat], NEW h \in Handle
  PROVE  /\ NumCompleted(h, count) \in Nat
         /\ NumCompleted(h, count) <= Len(outgoingL2CAPPacketsInController[h])
<1>1. Len(outgoingL2CAPPacketsInController[h]) \in Nat
  BY LenProperties DEF Shape
<1>2. QED
  BY <1>1 DEF NumCompleted

\* Splicing the completed packets off leaves sequences that are as much shorter.
LEMMA SpliceProperties ==
  ASSUME Shape, NEW count \in [Handle -> Nat], NEW h \in Handle
  PROVE  LET q == outgoingL2CAPPacketsInController[h]
             r == SubSeq(q, NumCompleted(h, count) + 1, Len(q))
         IN  r \in Seq(Sdus \cup {NoCallback}) /\ Len(r) = Len(q) - NumCompleted(h, count)
<1> DEFINE q == outgoingL2CAPPacketsInController[h]
           m == NumCompleted(h, count)
           l == Len(q)
           S == Sdus \cup {NoCallback}
<1>1. q \in Seq(S) /\ l \in Nat /\ m \in Nat /\ m <= l
  BY NumCompletedBounded, LenProperties DEF Shape
<1>2. \A i \in 1 .. l : q[i] \in S
  BY <1>1, ElementOfSeq
<1> HIDE DEF q, m, l, S
<1>3. m + 1 \in Int /\ l \in Int /\ \A i \in m + 1 .. l : q[i] \in S
  BY <1>1, <1>2
<1>4. /\ SubSeq(q, m + 1, l) \in Seq(S)
      /\ Len(SubSeq(q, m + 1, l)) = IF m + 1 <= l THEN l - (m + 1) + 1 ELSE 0
  BY <1>3, SubSeqProperties
<1>5. (IF m + 1 <= l THEN l - (m + 1) + 1 ELSE 0) = l - m
  BY <1>1
<1>6. QED
  BY <1>4, <1>5 DEF q, m, l, S

\* sendData queues well-formed fragments.
LEMMA FragmentsType ==
  ASSUME NEW s \in Sdus, NEW n \in 1 .. MaxFragments
  PROVE  Fragments(s, n) \in Seq(Fragment)
<1>1. n \in Nat
  BY AclAssumption
<1>2. Fragments(s, n) \in [1 .. n -> Fragment]
  BY <1>1 DEF Fragments, Fragment
<1>3. QED
  BY <1>1, <1>2, SeqDef

\* What a Number Of Completed Packets event adds to the free buffers is what the
\* splicing takes off the fragments in the controller.
LEMMA CompletionBalance ==
  ASSUME Shape, IsFiniteSet(Slots(outgoingL2CAPPacketsInController)),
         HandleNumberOfCompletePackets
  PROVE  /\ IsFiniteSet(Slots(outgoingL2CAPPacketsInController'))
         /\ numFreeBuffers' \in Nat
         /\ numFreeBuffers' + Cardinality(Slots(outgoingL2CAPPacketsInController')) =
              numFreeBuffers + Cardinality(Slots(outgoingL2CAPPacketsInController))
<1> DEFINE q == outgoingL2CAPPacketsInController
           r == outgoingL2CAPPacketsInController'
           count == Head(hciEvents).count
           n == [h \in Handle |-> NumCompleted(h, count)]
           S == Sdus \cup {NoCallback}
           U == CountSlots(n)
<1>1. count \in [Handle -> Nat]
  BY ReceiveProperties DEF HandleNumberOfCompletePackets, Shape
<1>2. q \in [Handle -> Seq(S)] /\ n \in [Handle -> Nat] /\ \A h \in Handle : n[h] <= Len(q[h])
  BY <1>1, NumCompletedBounded DEF Shape
<1>3. r = [h \in Handle |-> SubSeq(q[h], NumCompleted(h, count) + 1, Len(q[h]))]
  BY DEF HandleNumberOfCompletePackets
<1>4. r \in [Handle -> Seq(S)] /\ \A h \in Handle : Len(r[h]) = Len(q[h]) - n[h]
  BY <1>1, <1>3, SpliceProperties
<1>5. SlotsFreed(count) = U
  BY DEF SlotsFreed, CountSlots
<1>6. numFreeBuffers' = numFreeBuffers + Cardinality(SlotsFreed(count))
  BY DEF HandleNumberOfCompletePackets
<1> HIDE DEF q, r, n, S, count
<1>7. IsFiniteSet(Slots(q))
  BY DEF q
<1>8. IsFiniteSet(Slots(r)) /\ IsFiniteSet(U) /\ Cardinality(Slots(q)) = Cardinality(Slots(r)) + Cardinality(U)
  <2>1. q \in [Handle -> Seq(S)] /\ n \in [Handle -> Nat] /\ r \in [Handle -> Seq(S)]
    BY <1>2, <1>4
  <2>2. \A h \in Handle : n[h] <= Len(q[h])
    BY <1>2
  <2>3. \A h \in Handle : Len(r[h]) = Len(q[h]) - n[h]
    BY <1>4
  <2>4. QED
    BY <1>7, <2>1, <2>2, <2>3, SlotsSplice
<1>9. Cardinality(Slots(q)) \in Nat /\ Cardinality(Slots(r)) \in Nat /\ Cardinality(U) \in Nat
  BY <1>7, <1>8, FS_CardinalityType
<1>10. numFreeBuffers \in Nat
  BY DEF Shape
<1>11. numFreeBuffers' = numFreeBuffers + Cardinality(U)
  BY <1>5, <1>6
<1> HIDE DEF U
<1>12. numFreeBuffers' \in Nat /\ numFreeBuffers' + Cardinality(Slots(r)) = numFreeBuffers + Cardinality(Slots(q))
  BY <1>8, <1>9, <1>10, <1>11
<1>13. QED
  BY <1>8, <1>12 DEF q, r

\* Every step of the system keeps the shape of the state.
LEMMA ShapeStep ==
  ASSUME Shape, IsFiniteSet(Slots(outgoingL2CAPPacketsInController)), [Next]_vars
  PROVE  Shape'
<1> USE DEF hostVars, controllerVars, historyVars
<1>1. CASE CallbackReturns
  BY <1>1, PopProperties DEF CallbackReturns, Pop, Shape
<1>2. ASSUME NEW h \in Handle, LoopSends(h)
      PROVE  Shape'
  <2> DEFINE item == Head(outgoingL2CAPBuffer[h])
  <2>1. outgoingL2CAPBuffer[h] \in Seq(Fragment) /\ outgoingL2CAPBuffer[h] # <<>>
    BY <1>2 DEF LoopSends, Candidates, Shape
  <2>2. item \in Fragment /\ Tail(outgoingL2CAPBuffer[h]) \in Seq(Fragment)
    BY <2>1, HeadTailProperties
  <2>3. item.sdu \in Sdus /\ item.isLast \in BOOLEAN
    BY <2>2 DEF Fragment
  <2>4. numFreeBuffers' \in Nat /\ outgoingL2CAPBuffer' \in [Handle -> Seq(Fragment)]
    BY <1>2, <2>2 DEF LoopSends, Shape
  <2>5. outgoingL2CAPPacketsInController' \in [Handle -> Seq(Sdus \cup {NoCallback})]
    BY <1>2, <2>3 DEF LoopSends, Shape
  <2>6. controllerPackets' \in [Handle -> Seq(Fragment)]
    BY <1>2, <2>2 DEF LoopSends, Shape
  <2>7. callStack' \in Seq(Frame)
    BY <1>2 DEF LoopSends, Shape, Frame
  <2>8. sduState' \in [Sdus -> {"new", "queued", "sent", "complete", "gone"}]
    BY <1>2 DEF LoopSends, Shape
  <2>9. QED
    BY <1>2, <2>4, <2>5, <2>6, <2>7, <2>8 DEF LoopSends, Shape
<1>3. CASE LoopEnds
  BY <1>3, PopProperties DEF LoopEnds, InLoop, Pop, Shape
<1>4. CASE HandleLeConnectionComplete
  <2>1. Head(hciEvents).handle \in Handle /\ hciEvents' \in Seq(Event)
    BY <1>4, ReceiveProperties DEF HandleLeConnectionComplete, Shape
  <2>2. <<"callback">> \in Seq(Frame)
    BY DEF Frame
  <2>3. QED
    BY <1>4, <2>1, <2>2 DEF HandleLeConnectionComplete, Shape
<1>5. CASE HandleNumberOfCompletePackets
  <2> DEFINE count == Head(hciEvents).count
  <2>1. count \in [Handle -> Nat] /\ hciEvents' \in Seq(Event)
    BY <1>5, ReceiveProperties DEF HandleNumberOfCompletePackets, Shape
  <2>2. outgoingL2CAPPacketsInController' \in [Handle -> Seq(Sdus \cup {NoCallback})]
    BY <1>5, <2>1, SpliceProperties DEF HandleNumberOfCompletePackets
  <2>3. <<"any">> \in Seq(Frame) /\ <<"any", "callback">> \in Seq(Frame)
    BY DEF Frame
  <2>4. callStack' \in Seq(Frame)
    BY <1>5, <2>3 DEF HandleNumberOfCompletePackets, AfterCompletion
  <2>5. sduState' \in [Sdus -> {"new", "queued", "sent", "complete", "gone"}]
    BY <1>5 DEF HandleNumberOfCompletePackets, Shape
  <2>6. numFreeBuffers' \in Nat
    BY <1>5, CompletionBalance
  <2>7. QED
    BY <1>5, <2>1, <2>2, <2>4, <2>5, <2>6 DEF HandleNumberOfCompletePackets, Shape
<1>6. CASE HandleDisconnectionComplete
  <2>1. Head(hciEvents).handle \in Handle /\ hciEvents' \in Seq(Event)
    BY <1>6, ReceiveProperties DEF HandleDisconnectionComplete, Shape
  <2>2. callStack' \in Seq(Frame)
    BY <1>6 DEF HandleDisconnectionComplete, AfterDisconnection, Frame
  <2>3. BuffersReturned(Head(hciEvents).handle) \in Nat
    BY <2>1, LenProperties DEF BuffersReturned, Shape
  <2>4. sduState' \in [Sdus -> {"new", "queued", "sent", "complete", "gone"}]
    BY <1>6 DEF HandleDisconnectionComplete, Shape
  <2>5. QED
    BY <1>6, <2>1, <2>2, <2>3, <2>4 DEF HandleDisconnectionComplete, Shape
<1>7. ASSUME NEW h \in Handle, LinkUp(h)
      PROVE  Shape'
  <2>1. linksMade' \in 0 .. MaxLinks
    BY <1>7, AclAssumption DEF LinkUp, Shape
  <2>2. [type |-> "connected", handle |-> h] \in Event
    BY DEF Event
  <2>3. QED
    BY <1>7, <2>1, <2>2 DEF LinkUp, Shape
<1>8. ASSUME NEW h \in Handle, LinkDown(h)
      PROVE  Shape'
  <2>1. [type |-> "disconnected", handle |-> h] \in Event
    BY DEF Event
  <2>2. QED
    BY <1>8, <2>1 DEF LinkDown, Shape
<1>9. ASSUME NEW n \in [Handle -> 0 .. NumPackets], CompletePackets(n)
      PROVE  Shape'
  <2>1. ASSUME NEW h \in Handle
        PROVE  SubSeq(controllerPackets[h], n[h] + 1, Len(controllerPackets[h])) \in Seq(Fragment)
    <3>1. controllerPackets[h] \in Seq(Fragment) /\ n[h] \in Nat
      BY AclAssumption DEF Shape
    <3>2. /\ Len(controllerPackets[h]) \in Int /\ n[h] + 1 \in Int
          /\ \A i \in n[h] + 1 .. Len(controllerPackets[h]) : controllerPackets[h][i] \in Fragment
      BY <3>1, LenProperties, ElementOfSeq
    <3>3. QED
      BY <3>2, SubSeqProperties
  <2>2. controllerPackets' \in [Handle -> Seq(Fragment)]
    BY <1>9, <2>1 DEF CompletePackets
  <2>3. PICK extra \in 0 .. MaxOverreport :
          hciEvents' = Append(hciEvents, [type |-> "completed",
                                          count |-> [h \in Handle |-> n[h] + extra]])
    BY <1>9 DEF CompletePackets
  <2>4. [h \in Handle |-> n[h] + extra] \in [Handle -> Nat]
    BY AclAssumption
  <2>5. hciEvents' \in Seq(Event)
    BY <2>3, <2>4 DEF Event, Shape
  <2>6. delivered' \in SUBSET Sdus
    BY <1>9 DEF CompletePackets, Shape
  <2>7. QED
    BY <1>9, <2>2, <2>5, <2>6 DEF CompletePackets, Shape
<1>10. ASSUME NEW h \in Handle, NEW s \in Sdus, NEW n \in 1 .. MaxFragments, SendData(h, s, n)
       PROVE  Shape'
  <2>1. Fragments(s, n) \in Seq(Fragment)
    BY FragmentsType
  <2>2. outgoingL2CAPBuffer[h] \o Fragments(s, n) \in Seq(Fragment)
    BY <2>1, ConcatProperties DEF Shape
  <2>3. outgoingL2CAPBuffer' \in [Handle -> Seq(Fragment)]
    BY <1>10, <2>2 DEF SendData, Enqueue, Shape
  <2>4. callStack' \in Seq(Frame)
    BY <1>10 DEF SendData, Shape, Frame
  <2>5. QED
    BY <1>10, <2>3, <2>4 DEF SendData, Shape
<1>11. CASE Stop
  BY <1>11 DEF Stop, Shape
<1>12. CASE UNCHANGED vars
  BY <1>12 DEF vars, Shape
<1>13. QED
  BY <1>1, <1>2, <1>3, <1>4, <1>5, <1>6, <1>7, <1>8, <1>9, <1>10, <1>11, <1>12
     DEF Next, HostStep, Controller, Application

-----------------------------------------------------------------------------
(* Buffers. *)

\* Only three kinds of step touch the buffers; each moves them between free and used.
LEMMA AccountingStep ==
  ASSUME Shape, IsFiniteSet(Slots(outgoingL2CAPPacketsInController)),
         BufferAccounting, DeadHandlesAreEmpty, [Next]_vars
  PROVE  /\ IsFiniteSet(Slots(outgoingL2CAPPacketsInController'))
         /\ BufferAccounting'
<1> DEFINE q == outgoingL2CAPPacketsInController
           S == Sdus \cup {NoCallback}
<1>1. q \in [Handle -> Seq(S)] /\ numFreeBuffers \in Nat /\ NumPackets \in Nat
  BY AclAssumption DEF Shape
<1>2. Cardinality(Slots(q)) \in Nat
  BY FS_CardinalityType
<1>3. ASSUME NEW h \in Handle, LoopSends(h)
      PROVE  IsFiniteSet(Slots(q')) /\ BufferAccounting'
  <2> DEFINE item == Head(outgoingL2CAPBuffer[h])
             e == IF item.isLast THEN item.sdu ELSE NoCallback
  <2>1. outgoingL2CAPBuffer[h] \in Seq(Fragment) /\ outgoingL2CAPBuffer[h] # <<>>
    BY <1>3 DEF LoopSends, Candidates, Shape
  <2>2. item \in Fragment
    BY <2>1, HeadTailProperties
  <2>3. e \in S
    BY <2>2 DEF Fragment
  <2>4. q' = [q EXCEPT ![h] = Append(@, e)] /\ numFreeBuffers' = numFreeBuffers - 1
    BY <1>3 DEF LoopSends
  <2> HIDE DEF e, S, q
  <2>5. /\ Slots([q EXCEPT ![h] = Append(@, e)]) = Slots(q) \cup {<<h, Len(q[h]) + 1>>}
        /\ <<h, Len(q[h]) + 1>> \notin Slots(q)
    BY <1>1, <2>3, SlotsAppend, Zenon
  <2>6. IsFiniteSet(Slots(q'))  /\ Cardinality(Slots(q')) = Cardinality(Slots(q)) + 1
    BY <2>4, <2>5, FS_AddElement DEF q
  <2>7. BufferAccounting'
    BY <1>1, <1>2, <2>4, <2>6 DEF BufferAccounting, q
  <2>8. QED
    BY <2>6, <2>7
<1>4. CASE HandleNumberOfCompletePackets
  BY <1>4, CompletionBalance DEF BufferAccounting
<1>5. ASSUME NEW h \in Handle, q' = [q EXCEPT ![h] = <<>>],
             numFreeBuffers' = numFreeBuffers + Len(q[h])
      PROVE  IsFiniteSet(Slots(q')) /\ BufferAccounting'
  <2>1. Len(q[h]) \in Nat
    BY <1>1, LenProperties
  <2> HIDE DEF q, S
  <2>2. IsFiniteSet(Slots(q')) /\ Cardinality(Slots(q')) = Cardinality(Slots(q)) - Len(q[h])
    BY <1>1, <1>5, SlotsClear DEF q
  <2>3. BufferAccounting'
    BY <1>1, <1>2, <1>5, <2>1, <2>2 DEF BufferAccounting, q
  <2>4. QED
    BY <2>2, <2>3
<1>6. CASE HandleDisconnectionComplete
  <2>1. Head(hciEvents).handle \in Handle
    BY <1>6, ReceiveProperties DEF HandleDisconnectionComplete, Shape
  <2>2. QED
    BY <1>5, <1>6, <2>1 DEF HandleDisconnectionComplete, BuffersReturned
<1>7. CASE HandleLeConnectionComplete
  <2>1. outgoingL2CAPPacketsInController[Head(hciEvents).handle] = <<>>
    <3>1. Head(hciEvents).handle \in Handle \ activeConnections
      BY <1>7, ReceiveProperties DEF HandleLeConnectionComplete, Shape
    <3>2. QED
      BY <3>1 DEF DeadHandlesAreEmpty
  <2>2. UNCHANGED <<numFreeBuffers, outgoingL2CAPPacketsInController>>
    BY <1>1, <1>7, <2>1 DEF HandleLeConnectionComplete
  <2>3. QED
    BY <2>2 DEF BufferAccounting, Slots
<1>8. ASSUME UNCHANGED <<numFreeBuffers, outgoingL2CAPPacketsInController>>
      PROVE  IsFiniteSet(Slots(q')) /\ BufferAccounting'
  BY <1>8 DEF BufferAccounting, Slots
<1>9. QED
  BY <1>3, <1>4, <1>6, <1>7, <1>8
     DEF Next, HostStep, Controller, Application, CallbackReturns, LoopEnds, LinkUp,
         LinkDown, CompletePackets, SendData, Stop, vars, hostVars, controllerVars, historyVars

-----------------------------------------------------------------------------
(* Dead handles and wake-ups. *)

\* Only the end of a connection can leave something behind, and it clears it.
LEMMA DeadHandlesStep ==
  ASSUME Shape, DeadHandlesAreEmpty, [Next]_vars
  PROVE  DeadHandlesAreEmpty'
<1> USE DEF hostVars, controllerVars, historyVars
<1>1. Len(callStack) \in Nat /\ callStack \in Seq(Frame)
  BY LenProperties DEF Shape
<1>2. CASE CallbackReturns
  BY <1>2, <1>1, PopProperties DEF CallbackReturns, Pop, DeadHandlesAreEmpty
<1>3. ASSUME NEW h \in Handle, LoopSends(h)
      PROVE  DeadHandlesAreEmpty'
  <2>1. h \in activeConnections
    <3>1. Len(callStack) \in 1 .. Len(callStack)
      BY <1>1, <1>3, EmptySeq DEF LoopSends, InLoop
    <3>2. Top \in activeConnections \cup {"any", "callback"} /\ Top # "callback"
      BY <1>3, <3>1 DEF LoopSends, InLoop, Top, DeadHandlesAreEmpty
    <3>3. QED
      BY <1>3, <3>2 DEF LoopSends, Candidates
  <2>2. \A g \in Handle \ activeConnections' :
          outgoingL2CAPBuffer'[g] = <<>> /\ outgoingL2CAPPacketsInController'[g] = <<>>
    BY <1>3, <2>1 DEF LoopSends, DeadHandlesAreEmpty, Shape
  <2>3. \A i \in 1 .. Len(callStack') :
          callStack'[i] \in activeConnections' \cup {"any", "callback"}
    BY <1>1, <1>3 DEF LoopSends, DeadHandlesAreEmpty, Frame
  <2>4. QED
    BY <2>2, <2>3 DEF DeadHandlesAreEmpty
<1>4. CASE LoopEnds
  BY <1>4, <1>1, PopProperties DEF LoopEnds, InLoop, Pop, DeadHandlesAreEmpty
<1>5. CASE HandleLeConnectionComplete
  <2>1. Head(hciEvents).handle \in Handle
    BY <1>5, ReceiveProperties DEF HandleLeConnectionComplete, Shape
  <2>2. QED
    BY <1>5, <2>1 DEF HandleLeConnectionComplete, DeadHandlesAreEmpty, Shape
<1>6. CASE HandleNumberOfCompletePackets
  <2> DEFINE count == Head(hciEvents).count
  <2>1. count \in [Handle -> Nat]
    BY <1>6, ReceiveProperties DEF HandleNumberOfCompletePackets, Shape
  <2>2. ASSUME NEW g \in Handle \ activeConnections
        PROVE  outgoingL2CAPPacketsInController'[g] = <<>>
    <3>1. outgoingL2CAPPacketsInController[g] = <<>> /\ NumCompleted(g, count) = 0
      BY <2>1 DEF DeadHandlesAreEmpty, NumCompleted
    <3>2. outgoingL2CAPPacketsInController'[g] = SubSeq(<<>>, 0 + 1, Len(<<>>))
      BY <1>6, <3>1 DEF HandleNumberOfCompletePackets
    <3>3. Len(<<>>) = 0
      OBVIOUS
    <3>4. SubSeq(<<>>, 0 + 1, 0) = <<>>
      BY SubSeqEmpty
    <3>5. QED
      BY <3>2, <3>3, <3>4
  <2>3. \A i \in 1 .. Len(callStack') : callStack'[i] \in {"any", "callback"}
    BY <1>6 DEF HandleNumberOfCompletePackets, AfterCompletion
  <2>4. QED
    BY <1>6, <2>2, <2>3 DEF HandleNumberOfCompletePackets, DeadHandlesAreEmpty
<1>7. CASE HandleDisconnectionComplete
  <2>1. Head(hciEvents).handle \in Handle
    BY <1>7, ReceiveProperties DEF HandleDisconnectionComplete, Shape
  <2>2. \A i \in 1 .. Len(callStack') : callStack'[i] \in {"any", "callback"}
    BY <1>7 DEF HandleDisconnectionComplete, AfterDisconnection
  <2>3. QED
    BY <1>7, <2>1, <2>2 DEF HandleDisconnectionComplete, DeadHandlesAreEmpty, Shape
<1>8. ASSUME NEW h \in Handle, NEW s \in Sdus, NEW n \in 1 .. MaxFragments, SendData(h, s, n)
      PROVE  DeadHandlesAreEmpty'
  <2>1. h \in activeConnections
    BY <1>8 DEF SendData
  <2>2. \A i \in 1 .. Len(callStack') :
          callStack'[i] \in activeConnections' \cup {"any", "callback"}
    BY <1>1, <1>8, <2>1 DEF SendData, DeadHandlesAreEmpty, Frame
  <2>3. QED
    BY <1>8, <2>1, <2>2 DEF SendData, DeadHandlesAreEmpty, Shape
<1>9. ASSUME UNCHANGED <<activeConnections, outgoingL2CAPBuffer,
                         outgoingL2CAPPacketsInController, callStack>>
      PROVE  DeadHandlesAreEmpty'
  BY <1>9 DEF DeadHandlesAreEmpty
<1>10. QED
  BY <1>2, <1>3, <1>4, <1>5, <1>6, <1>7, <1>8, <1>9
     DEF Next, HostStep, Controller, Application, LinkUp, LinkDown, CompletePackets, Stop, vars

\* Data that waits although a buffer is free has a loop on the stack that serves it:
\* a loop starts with every event that may free a buffer and with every sendData,
\* and ends only when it has nothing left to serve.
LEMMA WakeupStep ==
  ASSUME Shape, DeadHandlesAreEmpty, WakeupPending, [Next]_vars
  PROVE  WakeupPending'
<1> USE DEF hostVars, controllerVars, historyVars
<1>1. Len(callStack) \in Nat /\ callStack \in Seq(Frame) /\ numFreeBuffers \in Nat
  BY LenProperties DEF Shape
<1>2. "callback" \notin Handle /\ "any" \notin Handle
  BY AclAssumption
<1>3. CASE CallbackReturns
  <2>1. \A i \in 1 .. Len(callStack) :
          callStack[i] # "callback" => i \in 1 .. Len(callStack') /\ callStack'[i] = callStack[i]
    BY <1>1, <1>3, PopProperties DEF CallbackReturns, Top, Pop
  <2>2. SUFFICES ASSUME numFreeBuffers # 0, ~isStopped, NEW g \in activeConnections,
                        outgoingL2CAPBuffer[g] # <<>>
                 PROVE  \E i \in 1 .. Len(callStack') : callStack'[i] \in {g, "any"}
    BY <1>3 DEF CallbackReturns, WakeupPending
  <2>3. PICK i \in 1 .. Len(callStack) : callStack[i] \in {g, "any"}
    BY <2>2 DEF WakeupPending
  <2>4. callStack[i] # "callback"
    BY <1>2, <2>3 DEF Shape
  <2>5. QED
    BY <2>1, <2>3, <2>4
<1>4. ASSUME NEW h \in Handle, LoopSends(h)
      PROVE  WakeupPending'
  <2>1. \A i \in 1 .. Len(callStack) : i \in 1 .. Len(callStack') /\ callStack'[i] = callStack[i]
    BY <1>1, <1>4 DEF LoopSends, Frame
  <2>2. \A g \in activeConnections :
          outgoingL2CAPBuffer'[g] # <<>> => outgoingL2CAPBuffer[g] # <<>>
    BY <1>4 DEF LoopSends, Candidates, Shape
  <2>3. QED
    BY <1>4, <2>1, <2>2 DEF LoopSends, WakeupPending
<1>5. CASE LoopEnds
  <2>1. SUFFICES ASSUME numFreeBuffers # 0, ~isStopped, NEW g \in activeConnections,
                        outgoingL2CAPBuffer[g] # <<>>
                 PROVE  \E i \in 1 .. Len(callStack') : callStack'[i] \in {g, "any"}
    BY <1>5 DEF LoopEnds, WakeupPending
  <2>2. Candidates(Top) = {}
    BY <1>5, <2>1 DEF LoopEnds
  <2>3. Top # "any" /\ Top # g
    BY <2>1, <2>2 DEF Candidates, Shape
  <2>4. PICK i \in 1 .. Len(callStack) : callStack[i] \in {g, "any"}
    BY <2>1 DEF WakeupPending
  <2>5. i # Len(callStack)
    BY <2>3, <2>4 DEF Top
  <2>6. i \in 1 .. Len(callStack') /\ callStack'[i] = callStack[i]
    BY <1>1, <1>5, <2>5, PopProperties DEF LoopEnds, InLoop, Pop
  <2>7. QED
    BY <2>4, <2>6
<1>6. CASE HandleLeConnectionComplete
  <2>1. callStack = <<>> /\ Head(hciEvents).handle \in Handle \ activeConnections
    BY <1>6, ReceiveProperties DEF HandleLeConnectionComplete, Receive, Shape
  <2>2. numFreeBuffers # 0 /\ ~isStopped =>
          \A g \in activeConnections : outgoingL2CAPBuffer[g] = <<>>
    BY <2>1 DEF WakeupPending
  <2>3. QED
    BY <1>6, <2>1, <2>2 DEF HandleLeConnectionComplete, WakeupPending, Shape
<1>7. CASE HandleNumberOfCompletePackets
  <2>1. 1 \in 1 .. Len(callStack') /\ callStack'[1] = "any"
    BY <1>7 DEF HandleNumberOfCompletePackets, AfterCompletion
  <2>2. QED
    BY <2>1 DEF WakeupPending
<1>8. CASE HandleDisconnectionComplete
  <2>1. 1 \in 1 .. Len(callStack') /\ callStack'[1] = "any"
    BY <1>8 DEF HandleDisconnectionComplete, AfterDisconnection
  <2>2. QED
    BY <2>1 DEF WakeupPending
<1>9. ASSUME NEW h \in Handle, NEW s \in Sdus, NEW n \in 1 .. MaxFragments, SendData(h, s, n)
      PROVE  WakeupPending'
  <2>1. \A i \in 1 .. Len(callStack) : i \in 1 .. Len(callStack') /\ callStack'[i] = callStack[i]
    BY <1>1, <1>9 DEF SendData, Frame
  <2>2. Len(callStack) + 1 \in 1 .. Len(callStack') /\ callStack'[Len(callStack) + 1] = h
    BY <1>1, <1>9 DEF SendData, Frame
  <2>3. \A g \in Handle \ {h} : outgoingL2CAPBuffer'[g] = outgoingL2CAPBuffer[g]
    BY <1>9 DEF SendData, Shape
  <2>4. QED
    BY <1>9, <2>1, <2>2, <2>3 DEF SendData, WakeupPending, Shape
<1>10. CASE Stop
  BY <1>10 DEF Stop, WakeupPending
<1>11. ASSUME UNCHANGED <<isStopped, activeConnections, numFreeBuffers,
                          outgoingL2CAPBuffer, callStack>>
       PROVE  WakeupPending'
  BY <1>11 DEF WakeupPending
<1>12. QED
  BY <1>3, <1>4, <1>5, <1>6, <1>7, <1>8, <1>9, <1>10, <1>11
     DEF Next, HostStep, Controller, Application, LinkUp, LinkDown, CompletePackets, vars

-----------------------------------------------------------------------------
(* The theorems. *)

\* The state after initialisation, without connections, satisfies the invariant.
LEMMA InitIInv == Init => IInv
<1> SUFFICES ASSUME Init PROVE IInv
  OBVIOUS
<1>1. TypeOK
  <2>1. \A S : <<>> \in Seq(S)
    BY EmptySeq
  <2>2. callStack \in Seq(Frame) /\ hciEvents \in Seq(Event)
    BY <2>1 DEF Init
  <2>3. /\ outgoingL2CAPBuffer \in [Handle -> Seq(Fragment)]
        /\ controllerPackets \in [Handle -> Seq(Fragment)]
        /\ outgoingL2CAPPacketsInController \in [Handle -> Seq(Sdus \cup {NoCallback})]
    BY <2>1 DEF Init
  <2>4. numFreeBuffers \in 0 .. NumPackets /\ linksMade \in 0 .. MaxLinks
    BY AclAssumption DEF Init
  <2>5. QED
    BY <2>2, <2>3, <2>4 DEF Init, TypeOK
<1>2. Slots(outgoingL2CAPPacketsInController) = {}
  BY DEF Init, Slots
<1>3. IsFiniteSet(Slots(outgoingL2CAPPacketsInController)) /\ BufferAccounting
  <2>1. /\ IsFiniteSet(Slots(outgoingL2CAPPacketsInController))
        /\ Cardinality(Slots(outgoingL2CAPPacketsInController)) = 0
    BY <1>2, FS_EmptySet, Zenon
  <2>2. QED
    BY <2>1, AclAssumption DEF Init, BufferAccounting
<1>4. WakeupPending /\ DeadHandlesAreEmpty
  BY DEF Init, WakeupPending, DeadHandlesAreEmpty
<1>5. QED
  BY <1>1, <1>3, <1>4 DEF IInv

\* Every step of the host, the application and the controller keeps the invariant.
LEMMA StepIInv == IInv /\ [Next]_vars => IInv'
<1> SUFFICES ASSUME IInv, [Next]_vars PROVE IInv'
  OBVIOUS
<1>1. Shape /\ IsFiniteSet(Slots(outgoingL2CAPPacketsInController))
  BY TypeGivesShape DEF IInv
<1>2. Shape'
  BY <1>1, ShapeStep
<1>3. IsFiniteSet(Slots(outgoingL2CAPPacketsInController))' /\ BufferAccounting'
  BY <1>1, AccountingStep DEF IInv
<1>4. WakeupPending' /\ DeadHandlesAreEmpty'
  BY <1>1, DeadHandlesStep, WakeupStep DEF IInv
<1>5. numFreeBuffers' \in 0 .. NumPackets
  <2>1. Cardinality(Slots(outgoingL2CAPPacketsInController')) \in Nat
    BY <1>3, FS_CardinalityType
  <2>2. QED
    BY <1>2, <1>3, <2>1, AclAssumption DEF BufferAccounting, Shape
<1>6. TypeOK'
  BY <1>2, <1>5 DEF TypeOK, Shape
<1>7. QED
  BY <1>3, <1>4, <1>6 DEF IInv

\* The inductive invariant holds in every reachable state.
THEOREM AclInvariant == Spec => []IInv
BY InitIInv, StepIInv, PTL DEF Spec

\* Type correctness: in particular the adapter's counter of free buffers stays
\* between 0 and what the controller announced.
THEOREM AclTypeCorrect == Spec => []TypeOK
<1>1. IInv => TypeOK
  BY DEF IInv
<1>2. QED
  BY <1>1, AclInvariant, PTL

\* No controller buffer is lost or invented (triggerSendPackets,
\* handleNumberOfCompletePackets and handleDisconnectionComplete balance).
THEOREM AclBufferAccounting == Spec => []BufferAccounting
<1>1. IInv => BufferAccounting
  BY DEF IInv
<1>2. QED
  BY <1>1, AclInvariant, PTL

\* No lost wake-up: at the event loop, data waits only while every buffer is taken.
THEOREM AclNoIdleBuffers == Spec => []NoIdleBuffers
<1>1. IInv => NoIdleBuffers
  BY DEF IInv, WakeupPending, NoIdleBuffers
<1>2. QED
  BY <1>1, AclInvariant, PTL


-----------------------------------------------------------------------------
(* What is on its way between host and controller. *)

\* How many packets of h an event reports.
Reports(h, e) == IF e.type = "completed" THEN e.count[h] ELSE 0

\* The events from the i-th on report together g[i] packets of h; k packets are reported in
\* all the events under way.
Weights(h, ev, g) ==
  /\ g \in [1 .. Len(ev) + 1 -> Nat]
  /\ g[Len(ev) + 1] = 0
  /\ \A i \in 1 .. Len(ev) : g[i] = Reports(h, ev[i]) + g[i + 1]
Pending(h, ev, k) == \E g : Weights(h, ev, g) /\ g[1] = k

IsAbout(e, type, h) == e.type = type /\ e.handle = h

\* Events about connections: of each handle at most one "connected" and one "disconnected" is
\* under way, in that order; nothing is reported of a handle after its disconnection and
\* before its connection, nor does the controller hold anything of one then.
LinkEvents(h, ev, linked, active) ==
  /\ \A i, j \in 1 .. Len(ev) : \A type \in {"connected", "disconnected"} :
       IsAbout(ev[i], type, h) /\ IsAbout(ev[j], type, h) => i = j
  /\ \A i \in 1 .. Len(ev) : IsAbout(ev[i], "connected", h) => ~active
  /\ \A i \in 1 .. Len(ev) : IsAbout(ev[i], "disconnected", h) =>
       /\ ~linked
       /\ ~active => \E j \in 1 .. i - 1 : IsAbout(ev[j], "connected", h)
       /\ \A j \in i + 1 .. Len(ev) : Reports(h, ev[j]) = 0
  /\ ~active => \A i \in 1 .. Len(ev) : Reports(h, ev[i]) = 0
  /\ linked /\ ~active => \E i \in 1 .. Len(ev) : IsAbout(ev[i], "connected", h)

LinksInv ==
  \A h \in Handle :
    /\ LinkEvents(h, hciEvents, h \in links, h \in activeConnections)
    /\ h \notin links \cap activeConnections => controllerPackets[h] = <<>>

CallbackOf(item) == IF item.isLast THEN item.sdu ELSE NoCallback

\* The host waits for the k packets that are reported in events under way, all of which were
\* delivered, and behind them, as long as the link is there, for those in the controller.
WaitsFor(waiting, held, k, linked, done) ==
  /\ k <= Len(waiting)
  /\ \A i \in 1 .. k : waiting[i] # NoCallback => waiting[i] \in done
  /\ linked => /\ Len(waiting) = k + Len(held)
               /\ \A i \in 1 .. Len(held) : waiting[k + i] = CallbackOf(held[i])

HostWaits(h) ==
  \E k \in Nat :
    /\ Pending(h, hciEvents, k)
    /\ h \in activeConnections =>
         WaitsFor(outgoingL2CAPPacketsInController[h], controllerPackets[h], k, h \in links,
                  delivered)

WaitsInv == (\A h \in Handle : HostWaits(h)) /\ CompletionIsTruthful

\* What is on the way to the peer is whole SDUs, one after the other as they were handed in.
Whole(p) ==
  /\ \A i \in 1 .. Len(p) - 1 :
       IF p[i].isLast THEN p[i + 1].isFirst /\ p[i].sdu < p[i + 1].sdu
                      ELSE ~p[i + 1].isFirst /\ p[i].sdu = p[i + 1].sdu
  /\ p # <<>> => p[Len(p)].isLast

\* Every one of its packets was handed in, and so was every one with a callback to call.
HandedIn(p, state) == \A i \in 1 .. Len(p) : state[p[i].sdu] # "new"
CalledFor(w, state) == \A i \in 1 .. Len(w) : w[i] # NoCallback => state[w[i]] # "new"

\* Packets are handed in by their numbers.
InTurn(state) == \A s, t \in Sdus : s < t /\ state[s] = "new" => state[t] = "new"

Pipeline(h) == controllerPackets[h] \o outgoingL2CAPBuffer[h]

OrderInv ==
  /\ \A h \in links \cap activeConnections :
       Whole(Pipeline(h)) /\ HandedIn(Pipeline(h), sduState)
  /\ \A h \in Handle : /\ HandedIn(outgoingL2CAPBuffer[h], sduState)
                       /\ CalledFor(outgoingL2CAPPacketsInController[h], sduState)
  /\ InTurn(sduState)

FlowInv == IInv /\ LinksInv /\ WaitsInv /\ OrderInv


\* The rest of the events, and the events with one more.
LEMMA TailElements ==
  ASSUME NEW ev \in Seq(Event), ev # <<>>
  PROVE  /\ Tail(ev) \in Seq(Event) /\ Len(ev) \in Nat \ {0} /\ Len(Tail(ev)) = Len(ev) - 1
         /\ Head(ev) = ev[1] /\ Head(ev) \in Event
         /\ \A i \in 1 .. Len(Tail(ev)) : Tail(ev)[i] = ev[i + 1]
BY HeadTailProperties, EmptySeq

LEMMA AppendElements ==
  ASSUME NEW ev \in Seq(Event), NEW e \in Event
  PROVE  /\ Append(ev, e) \in Seq(Event) /\ Len(ev) \in Nat
         /\ Len(Append(ev, e)) = Len(ev) + 1 /\ Append(ev, e)[Len(ev) + 1] = e
         /\ \A i \in 1 .. Len(ev) : Append(ev, e)[i] = ev[i]
BY AppendProperties

\* Receiving an event that is not about the connection of h.
LEMMA LinkEventsTail ==
  ASSUME NEW h, NEW linked \in BOOLEAN, NEW active \in BOOLEAN,
         NEW ev \in Seq(Event), ev # <<>>, LinkEvents(h, ev, linked, active),
         ~IsAbout(Head(ev), "connected", h), ~IsAbout(Head(ev), "disconnected", h)
  PROVE  LinkEvents(h, Tail(ev), linked, active)
<1> DEFINE t == Tail(ev)
<1>1. /\ Len(ev) \in Nat \ {0} /\ Len(t) = Len(ev) - 1 /\ Head(ev) = ev[1]
      /\ \A i \in 1 .. Len(t) : t[i] = ev[i + 1]
  BY TailElements
<1> HIDE DEF t
<1>2. \A i \in 1 .. Len(t) : i + 1 \in 1 .. Len(ev)
  BY <1>1
<1>3. \A i, j \in 1 .. Len(t) : \A type \in {"connected", "disconnected"} :
        IsAbout(t[i], type, h) /\ IsAbout(t[j], type, h) => i = j
  <2> TAKE i, j \in 1 .. Len(t)
  <2> TAKE type \in {"connected", "disconnected"}
  <2>1. IsAbout(t[i], type, h) /\ IsAbout(t[j], type, h) => i + 1 = j + 1
    BY <1>1, <1>2 DEF LinkEvents
  <2>2. QED
    BY <2>1
<1>4. \A i \in 1 .. Len(t) : IsAbout(t[i], "connected", h) => ~active
  BY <1>1, <1>2 DEF LinkEvents
<1>5. ASSUME NEW i \in 1 .. Len(t), IsAbout(t[i], "disconnected", h)
      PROVE  /\ ~linked
             /\ ~active => \E j \in 1 .. i - 1 : IsAbout(t[j], "connected", h)
             /\ \A j \in i + 1 .. Len(t) : Reports(h, t[j]) = 0
  <2>1. IsAbout(ev[i + 1], "disconnected", h) /\ i + 1 \in 1 .. Len(ev)
    BY <1>1, <1>2, <1>5
  <2>2. /\ ~linked
        /\ ~active => \E j \in 1 .. (i + 1) - 1 : IsAbout(ev[j], "connected", h)
        /\ \A j \in (i + 1) + 1 .. Len(ev) : Reports(h, ev[j]) = 0
    BY <2>1 DEF LinkEvents
  <2>3. ASSUME ~active
        PROVE  \E j \in 1 .. i - 1 : IsAbout(t[j], "connected", h)
    <3>1. PICK j \in 1 .. i : IsAbout(ev[j], "connected", h)
      BY <2>2, <2>3
    <3>2. j # 1
      BY <1>1, <3>1
    <3>3. j - 1 \in 1 .. i - 1 /\ j - 1 \in 1 .. Len(t) /\ (j - 1) + 1 = j
      BY <1>1, <3>2
    <3>4. IsAbout(t[j - 1], "connected", h)
      BY <1>1, <3>1, <3>3
    <3>5. QED
      BY <3>3, <3>4
  <2>4. \A j \in i + 1 .. Len(t) : j \in 1 .. Len(t) /\ j + 1 \in (i + 1) + 1 .. Len(ev)
    BY <1>1
  <2>5. QED
    BY <1>1, <2>2, <2>3, <2>4
<1>6. ~active => \A i \in 1 .. Len(t) : Reports(h, t[i]) = 0
  BY <1>1, <1>2 DEF LinkEvents
<1>7. ASSUME linked, ~active
      PROVE  \E i \in 1 .. Len(t) : IsAbout(t[i], "connected", h)
  <2>1. PICK j \in 1 .. Len(ev) : IsAbout(ev[j], "connected", h)
    BY <1>7 DEF LinkEvents
  <2>2. j # 1
    BY <1>1, <2>1
  <2>3. j - 1 \in 1 .. Len(t) /\ (j - 1) + 1 = j
    BY <1>1, <2>2
  <2>4. QED
    BY <1>1, <2>1, <2>3
<1>8. QED
  BY <1>3, <1>4, <1>5, <1>6, <1>7 DEF LinkEvents, t

\* Receiving the event that h is connected.
LEMMA LinkEventsConnected ==
  ASSUME NEW h, NEW linked \in BOOLEAN, NEW active \in BOOLEAN,
         NEW ev \in Seq(Event), ev # <<>>, LinkEvents(h, ev, linked, active),
         IsAbout(Head(ev), "connected", h)
  PROVE  LinkEvents(h, Tail(ev), linked, TRUE) /\ ~active
<1> DEFINE t == Tail(ev)
<1>1. /\ Len(ev) \in Nat \ {0} /\ Len(t) = Len(ev) - 1 /\ Head(ev) = ev[1]
      /\ \A i \in 1 .. Len(t) : t[i] = ev[i + 1]
  BY TailElements
<1> HIDE DEF t
<1>2. 1 \in 1 .. Len(ev) /\ IsAbout(ev[1], "connected", h)
  BY <1>1
<1>3. ~active
  BY <1>2 DEF LinkEvents
<1>4. \A i \in 1 .. Len(t) : i + 1 \in 1 .. Len(ev) /\ i + 1 # 1
  BY <1>1
<1>5. \A i \in 1 .. Len(t) : ~IsAbout(t[i], "connected", h)
  BY <1>1, <1>2, <1>4 DEF LinkEvents
<1>6. \A i, j \in 1 .. Len(t) :
        IsAbout(t[i], "disconnected", h) /\ IsAbout(t[j], "disconnected", h) => i = j
  <2> TAKE i, j \in 1 .. Len(t)
  <2>1. IsAbout(t[i], "disconnected", h) /\ IsAbout(t[j], "disconnected", h) => i + 1 = j + 1
    BY <1>1, <1>4 DEF LinkEvents
  <2>2. QED
    BY <2>1
<1>7. \A i \in 1 .. Len(t) : IsAbout(t[i], "disconnected", h) => ~linked
  BY <1>1, <1>4 DEF LinkEvents
<1>8. \A i \in 1 .. Len(t) : Reports(h, t[i]) = 0
  BY <1>1, <1>3, <1>4 DEF LinkEvents
<1>9. \A i \in 1 .. Len(t) : \A j \in i + 1 .. Len(t) : j \in 1 .. Len(t)
  BY <1>1
<1>10. QED
  BY <1>3, <1>5, <1>6, <1>7, <1>8, <1>9 DEF LinkEvents, t

\* Receiving the event that h is disconnected.
LEMMA LinkEventsDisconnected ==
  ASSUME NEW h, NEW linked \in BOOLEAN, NEW active \in BOOLEAN,
         NEW ev \in Seq(Event), ev # <<>>, LinkEvents(h, ev, linked, active),
         IsAbout(Head(ev), "disconnected", h)
  PROVE  LinkEvents(h, Tail(ev), linked, FALSE) /\ active /\ ~linked
<1> DEFINE t == Tail(ev)
<1>1. /\ Len(ev) \in Nat \ {0} /\ Len(t) = Len(ev) - 1 /\ Head(ev) = ev[1]
      /\ \A i \in 1 .. Len(t) : t[i] = ev[i + 1]
  BY TailElements
<1> HIDE DEF t
<1>2. 1 \in 1 .. Len(ev) /\ IsAbout(ev[1], "disconnected", h)
  BY <1>1
<1>3. /\ ~linked
      /\ ~active => \E j \in 1 .. 1 - 1 : IsAbout(ev[j], "connected", h)
      /\ \A j \in 1 + 1 .. Len(ev) : Reports(h, ev[j]) = 0
  BY <1>2 DEF LinkEvents
<1>4. active
  BY <1>3
<1>5. \A i \in 1 .. Len(t) : i + 1 \in 1 .. Len(ev) /\ i + 1 # 1 /\ i + 1 \in 1 + 1 .. Len(ev)
  BY <1>1
<1>6. \A i \in 1 .. Len(t) : ~IsAbout(t[i], "disconnected", h)
  BY <1>1, <1>2, <1>5 DEF LinkEvents
<1>7. \A i \in 1 .. Len(t) : ~IsAbout(t[i], "connected", h)
  BY <1>1, <1>4, <1>5 DEF LinkEvents
<1>8. \A i \in 1 .. Len(t) : Reports(h, t[i]) = 0
  BY <1>1, <1>3, <1>5
<1>9. QED
  BY <1>3, <1>4, <1>6, <1>7, <1>8 DEF LinkEvents, t


\* A further event that is not about the connection of h, and reports packets of h only while
\* h is connected on both sides.
LEMMA LinkEventsAppend ==
  ASSUME NEW h, NEW linked \in BOOLEAN, NEW active \in BOOLEAN,
         NEW ev \in Seq(Event), NEW e \in Event, LinkEvents(h, ev, linked, active),
         ~IsAbout(e, "connected", h), ~IsAbout(e, "disconnected", h),
         Reports(h, e) = 0 \/ (linked /\ active)
  PROVE  LinkEvents(h, Append(ev, e), linked, active)
<1> DEFINE t == Append(ev, e)
<1>1. /\ Len(ev) \in Nat /\ Len(t) = Len(ev) + 1 /\ t[Len(ev) + 1] = e
      /\ \A i \in 1 .. Len(ev) : t[i] = ev[i]
  BY AppendElements
<1> HIDE DEF t
<1>2. \A i \in 1 .. Len(t) : i \in 1 .. Len(ev) \/ i = Len(ev) + 1
  BY <1>1
<1>3. \A i \in 1 .. Len(t) : \A type \in {"connected", "disconnected"} :
        IsAbout(t[i], type, h) => i \in 1 .. Len(ev) /\ t[i] = ev[i]
  BY <1>1, <1>2
<1>4. \A i, j \in 1 .. Len(t) : \A type \in {"connected", "disconnected"} :
        IsAbout(t[i], type, h) /\ IsAbout(t[j], type, h) => i = j
  BY <1>3 DEF LinkEvents
<1>5. \A i \in 1 .. Len(t) : IsAbout(t[i], "connected", h) => ~active
  BY <1>3 DEF LinkEvents
<1>6. ASSUME NEW i \in 1 .. Len(t), IsAbout(t[i], "disconnected", h)
      PROVE  /\ ~linked
             /\ ~active => \E j \in 1 .. i - 1 : IsAbout(t[j], "connected", h)
             /\ \A j \in i + 1 .. Len(t) : Reports(h, t[j]) = 0
  <2>1. IsAbout(ev[i], "disconnected", h) /\ i \in 1 .. Len(ev)
    BY <1>3, <1>6
  <2>2. /\ ~linked
        /\ ~active => \E j \in 1 .. i - 1 : IsAbout(ev[j], "connected", h)
        /\ \A j \in i + 1 .. Len(ev) : Reports(h, ev[j]) = 0
    BY <2>1 DEF LinkEvents
  <2>3. \A j \in 1 .. i - 1 : j \in 1 .. Len(ev)
    BY <1>1, <2>1
  <2>4. \A j \in i + 1 .. Len(t) : j \in i + 1 .. Len(ev) \/ j = Len(ev) + 1
    BY <1>1, <2>1
  <2>5. \A j \in i + 1 .. Len(ev) : j \in 1 .. Len(ev)
    BY <1>1, <2>1
  <2>6. QED
    BY <1>1, <2>2, <2>3, <2>4, <2>5
<1>7. ~active => \A i \in 1 .. Len(t) : Reports(h, t[i]) = 0
  BY <1>1, <1>2 DEF LinkEvents
<1>8. ASSUME linked, ~active
      PROVE  \E i \in 1 .. Len(t) : IsAbout(t[i], "connected", h)
  <2>1. PICK j \in 1 .. Len(ev) : IsAbout(ev[j], "connected", h)
    BY <1>8 DEF LinkEvents
  <2>2. j \in 1 .. Len(t)
    BY <1>1
  <2>3. QED
    BY <1>1, <2>1, <2>2
<1>9. QED
  BY <1>4, <1>5, <1>6, <1>7, <1>8 DEF LinkEvents, t

\* The link of h comes up, when the host has no connection h and no event is about h.
LEMMA LinkEventsUp ==
  ASSUME NEW h, NEW ev \in Seq(Event), NEW e \in Event, LinkEvents(h, ev, FALSE, FALSE),
         \A i \in 1 .. Len(ev) : \A type \in {"connected", "disconnected"} :
           ~IsAbout(ev[i], type, h),
         IsAbout(e, "connected", h)
  PROVE  LinkEvents(h, Append(ev, e), TRUE, FALSE)
<1> DEFINE t == Append(ev, e)
<1>1. /\ Len(ev) \in Nat /\ Len(t) = Len(ev) + 1 /\ t[Len(ev) + 1] = e
      /\ \A i \in 1 .. Len(ev) : t[i] = ev[i]
  BY AppendElements
<1> HIDE DEF t
<1>2. \A i \in 1 .. Len(t) : i \in 1 .. Len(ev) \/ i = Len(ev) + 1
  BY <1>1
<1>3. \A i \in 1 .. Len(t) : IsAbout(t[i], "connected", h) => i = Len(ev) + 1
  BY <1>1, <1>2
<1>4. ~IsAbout(e, "disconnected", h) /\ Reports(h, e) = 0
  BY DEF IsAbout, Reports
<1>5. \A i \in 1 .. Len(t) : ~IsAbout(t[i], "disconnected", h)
  BY <1>1, <1>2, <1>4
<1>6. \A i \in 1 .. Len(t) : Reports(h, t[i]) = 0
  BY <1>1, <1>2, <1>4 DEF LinkEvents
<1>7. Len(ev) + 1 \in 1 .. Len(t)
  BY <1>1
<1>8. QED
  BY <1>1, <1>3, <1>5, <1>6, <1>7 DEF LinkEvents, t

\* The link of h goes down.
LEMMA LinkEventsDown ==
  ASSUME NEW h, NEW active \in BOOLEAN, NEW ev \in Seq(Event), NEW e \in Event,
         LinkEvents(h, ev, TRUE, active), IsAbout(e, "disconnected", h)
  PROVE  LinkEvents(h, Append(ev, e), FALSE, active)
<1> DEFINE t == Append(ev, e)
<1>1. /\ Len(ev) \in Nat /\ Len(t) = Len(ev) + 1 /\ t[Len(ev) + 1] = e
      /\ \A i \in 1 .. Len(ev) : t[i] = ev[i]
  BY AppendElements
<1> HIDE DEF t
<1>2. \A i \in 1 .. Len(t) : i \in 1 .. Len(ev) \/ i = Len(ev) + 1
  BY <1>1
<1>3. ~IsAbout(e, "connected", h) /\ Reports(h, e) = 0
  BY DEF IsAbout, Reports
<1>4. \A i \in 1 .. Len(t) : IsAbout(t[i], "connected", h) => i \in 1 .. Len(ev) /\ t[i] = ev[i]
  BY <1>1, <1>2, <1>3
<1>5. \A i \in 1 .. Len(t) : IsAbout(t[i], "disconnected", h) => i = Len(ev) + 1
  BY <1>1, <1>2 DEF LinkEvents
<1>6. \A i, j \in 1 .. Len(t) : \A type \in {"connected", "disconnected"} :
        IsAbout(t[i], type, h) /\ IsAbout(t[j], type, h) => i = j
  BY <1>4, <1>5 DEF LinkEvents
<1>7. \A i \in 1 .. Len(t) : IsAbout(t[i], "connected", h) => ~active
  BY <1>4 DEF LinkEvents
<1>8. ~active => \A i \in 1 .. Len(t) : Reports(h, t[i]) = 0
  BY <1>1, <1>2, <1>3 DEF LinkEvents
<1>9. ~active => \E j \in 1 .. Len(ev) : IsAbout(t[j], "connected", h)
  BY <1>1 DEF LinkEvents
<1>10. \A i \in 1 .. Len(t) : IsAbout(t[i], "disconnected", h) =>
         /\ ~active => \E j \in 1 .. i - 1 : IsAbout(t[j], "connected", h)
         /\ \A j \in i + 1 .. Len(t) : Reports(h, t[j]) = 0
  <2>1. (Len(ev) + 1) - 1 = Len(ev) /\ ((Len(ev) + 1) + 1) .. Len(t) = {}
    BY <1>1
  <2>2. QED
    BY <1>5, <1>9, <2>1
<1>11. QED
  BY <1>6, <1>7, <1>8, <1>10 DEF LinkEvents, t


-----------------------------------------------------------------------------
(* Links come and go as the events under way say. *)

\* A controller that reports what it completed, no more. (A name for the assumption.)
CountsRight == MaxOverreport = 0

LinkAgrees(h) == LinkEvents(h, hciEvents, h \in links, h \in activeConnections)

\* What such a controller reports.
LEMMA CompletionEvent ==
  ASSUME CountsRight, NEW n \in [Handle -> 0 .. NumPackets], CompletePackets(n)
  PROVE  /\ UNCHANGED <<links, activeConnections>>
         /\ hciEvents' = Append(hciEvents, [type |-> "completed", count |-> n])
         /\ [type |-> "completed", count |-> n] \in Event
<1>1. UNCHANGED <<links, activeConnections>>
  BY DEF CompletePackets, hostVars
<1>2. PICK extra \in 0 .. MaxOverreport :
        hciEvents' = Append(hciEvents,
                       [type |-> "completed", count |-> [h \in Handle |-> n[h] + extra]])
  BY DEF CompletePackets
<1>3. extra = 0
  BY DEF CountsRight
<1>4. \A h \in Handle : n[h] \in Nat /\ n[h] + 0 = n[h]
  BY AclAssumption
<1>5. [h \in Handle |-> n[h] + extra] = n
  BY <1>3, <1>4
<1>6. [type |-> "completed", count |-> n] \in Event
  BY <1>4 DEF Event
<1>7. QED
  BY <1>1, <1>2, <1>5, <1>6

\* A step that leaves links, connections and events alone leaves them in agreement.
LEMMA LinksAlone ==
  ASSUME NEW h, LinkAgrees(h), UNCHANGED <<links, activeConnections, hciEvents>>
  PROVE  LinkAgrees(h)'
BY DEF LinkAgrees

\* Every step keeps the agreement of links, connections and the events under way.
LEMMA LinkAgreesStep ==
  ASSUME Shape, CountsRight, LinksInv, [Next]_vars, NEW h \in Handle
  PROVE  LinkAgrees(h)'
<1> USE DEF hostVars, controllerVars, historyVars
<1>1. LinkAgrees(h) /\ hciEvents \in Seq(Event)
  BY DEF LinksInv, LinkAgrees, Shape
<1>2. ASSUME UNCHANGED <<links, activeConnections, hciEvents>>
      PROVE  LinkAgrees(h)'
  BY <1>1, <1>2, LinksAlone
<1> DEFINE linked == h \in links
           active == h \in activeConnections
<1>3. linked \in BOOLEAN /\ active \in BOOLEAN /\ LinkEvents(h, hciEvents, linked, active)
  BY <1>1 DEF LinkAgrees
<1>4. CASE HandleLeConnectionComplete
  <2> DEFINE g == Head(hciEvents).handle
  <2>1. /\ hciEvents # <<>> /\ Head(hciEvents).type = "connected" /\ hciEvents' = Tail(hciEvents)
        /\ activeConnections' = activeConnections \cup {g} /\ links' = links
    BY <1>4 DEF HandleLeConnectionComplete, Receive
  <2>2. CASE g = h
    <3>1. IsAbout(Head(hciEvents), "connected", h)
      BY <2>1, <2>2 DEF IsAbout
    <3>2. LinkEvents(h, Tail(hciEvents), linked, TRUE)
      <4> HIDE DEF linked, active
      <4>1. QED
        BY <1>1, <1>3, <2>1, <3>1, LinkEventsConnected, Zenon
    <3>3. (h \in activeConnections') = TRUE
      BY <2>1, <2>2
    <3>4. QED
      BY <2>1, <3>2, <3>3 DEF LinkAgrees
  <2>3. CASE g # h
    <3>1. ~IsAbout(Head(hciEvents), "connected", h) /\ ~IsAbout(Head(hciEvents), "disconnected", h)
      BY <2>1, <2>3 DEF IsAbout
    <3>2. LinkEvents(h, Tail(hciEvents), linked, active)
      <4> HIDE DEF linked, active
      <4>1. QED
        BY <1>1, <1>3, <2>1, <3>1, LinkEventsTail, Zenon
    <3>3. (h \in activeConnections') = active
      BY <2>1, <2>3
    <3>4. QED
      BY <2>1, <3>2, <3>3 DEF LinkAgrees
  <2>4. QED
    BY <2>2, <2>3
<1>5. CASE HandleDisconnectionComplete
  <2> DEFINE g == Head(hciEvents).handle
  <2>1. /\ hciEvents # <<>> /\ Head(hciEvents).type = "disconnected" /\ hciEvents' = Tail(hciEvents)
        /\ activeConnections' = activeConnections \ {g} /\ links' = links
    BY <1>5 DEF HandleDisconnectionComplete, Receive
  <2>2. CASE g = h
    <3>1. IsAbout(Head(hciEvents), "disconnected", h)
      BY <2>1, <2>2 DEF IsAbout
    <3>2. LinkEvents(h, Tail(hciEvents), linked, FALSE)
      <4> HIDE DEF linked, active
      <4>1. QED
        BY <1>1, <1>3, <2>1, <3>1, LinkEventsDisconnected, Zenon
    <3>3. (h \in activeConnections') = FALSE
      BY <2>1, <2>2
    <3>4. QED
      BY <2>1, <3>2, <3>3 DEF LinkAgrees
  <2>3. CASE g # h
    <3>1. ~IsAbout(Head(hciEvents), "connected", h) /\ ~IsAbout(Head(hciEvents), "disconnected", h)
      BY <2>1, <2>3 DEF IsAbout
    <3>2. LinkEvents(h, Tail(hciEvents), linked, active)
      <4> HIDE DEF linked, active
      <4>1. QED
        BY <1>1, <1>3, <2>1, <3>1, LinkEventsTail, Zenon
    <3>3. (h \in activeConnections') = active
      BY <2>1, <2>3
    <3>4. QED
      BY <2>1, <3>2, <3>3 DEF LinkAgrees
  <2>4. QED
    BY <2>2, <2>3
<1>6. CASE HandleNumberOfCompletePackets
  <2>1. /\ hciEvents # <<>> /\ Head(hciEvents).type = "completed" /\ hciEvents' = Tail(hciEvents)
        /\ UNCHANGED <<activeConnections, links>>
    BY <1>6 DEF HandleNumberOfCompletePackets, Receive
  <2>2. ~IsAbout(Head(hciEvents), "connected", h) /\ ~IsAbout(Head(hciEvents), "disconnected", h)
    BY <2>1 DEF IsAbout
  <2>3. LinkEvents(h, Tail(hciEvents), linked, active)
    <3> HIDE DEF linked, active
    <3>1. QED
      BY <1>1, <1>3, <2>1, <2>2, LinkEventsTail, Zenon
  <2>4. QED
    BY <2>1, <2>3 DEF LinkAgrees
<1>7. ASSUME NEW g \in Handle, LinkUp(g)
      PROVE  LinkAgrees(h)'
  <2> DEFINE e == [type |-> "connected", handle |-> g]
  <2>1. /\ links' = links \cup {g} /\ UNCHANGED activeConnections
        /\ hciEvents' = Append(hciEvents, e) /\ HandleIsFree(g)
    BY <1>7 DEF LinkUp
  <2>2. e \in Event
    BY DEF Event
  <2>3. CASE g = h
    <3>1. IsAbout(e, "connected", h)
      BY <2>3 DEF IsAbout
    <3>2. linked = FALSE /\ active = FALSE /\ LinkEvents(h, hciEvents, FALSE, FALSE)
      <4>1. linked = FALSE /\ active = FALSE
        BY <2>1, <2>3 DEF HandleIsFree
      <4>2. QED
        BY <1>3, <4>1
    <3>3. \A i \in 1 .. Len(hciEvents) : \A type \in {"connected", "disconnected"} :
            ~IsAbout(hciEvents[i], type, h)
      BY <1>1, <2>1, <2>3 DEF HandleIsFree, IsAbout
    <3>4. LinkEvents(h, Append(hciEvents, e), TRUE, FALSE)
      <4> HIDE DEF e
      <4>1. QED
        BY <1>1, <2>2, <3>1, <3>2, <3>3, LinkEventsUp, Zenon
    <3>5. (h \in links') = TRUE
      BY <2>1, <2>3
    <3>6. QED
      BY <2>1, <3>2, <3>4, <3>5 DEF LinkAgrees
  <2>4. CASE g # h
    <3>1. /\ ~IsAbout(e, "connected", h) /\ ~IsAbout(e, "disconnected", h)
          /\ Reports(h, e) = 0
      BY <2>4 DEF IsAbout, Reports
    <3>2. LinkEvents(h, Append(hciEvents, e), linked, active)
      <4> HIDE DEF linked, active, e
      <4>1. QED
        BY <1>1, <1>3, <2>2, <3>1, LinkEventsAppend, Zenon
    <3>3. (h \in links') = linked
      BY <2>1, <2>4
    <3>4. QED
      BY <2>1, <3>2, <3>3 DEF LinkAgrees
  <2>5. QED
    BY <2>3, <2>4
<1>8. ASSUME NEW g \in Handle, LinkDown(g)
      PROVE  LinkAgrees(h)'
  <2> DEFINE e == [type |-> "disconnected", handle |-> g]
  <2>1. /\ links' = links \ {g} /\ UNCHANGED activeConnections /\ g \in links
        /\ hciEvents' = Append(hciEvents, e)
    BY <1>8 DEF LinkDown
  <2>2. e \in Event
    BY DEF Event
  <2>3. CASE g = h
    <3>1. IsAbout(e, "disconnected", h)
      BY <2>3 DEF IsAbout
    <3>2. LinkEvents(h, hciEvents, TRUE, active)
      <4>1. linked = TRUE
        BY <2>1, <2>3
      <4>2. QED
        BY <1>3, <4>1
    <3>3. LinkEvents(h, Append(hciEvents, e), FALSE, active)
      <4> HIDE DEF e, active
      <4>1. QED
        BY <1>1, <1>3, <2>2, <3>1, <3>2, LinkEventsDown, Zenon
    <3>4. (h \in links') = FALSE
      BY <2>1, <2>3
    <3>5. QED
      BY <2>1, <3>3, <3>4 DEF LinkAgrees
  <2>4. CASE g # h
    <3>1. /\ ~IsAbout(e, "connected", h) /\ ~IsAbout(e, "disconnected", h)
          /\ Reports(h, e) = 0
      BY <2>4 DEF IsAbout, Reports
    <3>2. LinkEvents(h, Append(hciEvents, e), linked, active)
      <4> HIDE DEF linked, active, e
      <4>1. QED
        BY <1>1, <1>3, <2>2, <3>1, LinkEventsAppend, Zenon
    <3>3. (h \in links') = linked
      BY <2>1, <2>4
    <3>4. QED
      BY <2>1, <3>2, <3>3 DEF LinkAgrees
  <2>5. QED
    BY <2>3, <2>4
<1>9. ASSUME NEW n \in [Handle -> 0 .. NumPackets], CompletePackets(n)
      PROVE  LinkAgrees(h)'
  <2> DEFINE e == [type |-> "completed", count |-> n]
  <2>1. /\ UNCHANGED <<links, activeConnections>> /\ hciEvents' = Append(hciEvents, e)
        /\ e \in Event
    BY <1>9, CompletionEvent
  <2>2. ~IsAbout(e, "connected", h) /\ ~IsAbout(e, "disconnected", h)
    BY DEF IsAbout
  <2>3. Reports(h, e) = 0 \/ (linked /\ active)
    <3>1. Reports(h, e) = n[h] /\ n[h] \in Nat /\ n[h] <= Len(controllerPackets[h])
      BY <1>9 DEF CompletePackets, Reports
    <3>2. h \notin links \cap activeConnections => Len(controllerPackets[h]) = 0
      BY DEF LinksInv
    <3>3. QED
      BY <3>1, <3>2
  <2>4. LinkEvents(h, Append(hciEvents, e), linked, active)
    <3> HIDE DEF linked, active, e
    <3>1. QED
      BY <1>1, <1>3, <2>1, <2>2, <2>3, LinkEventsAppend, Zenon
  <2>5. QED
    BY <2>1, <2>4 DEF LinkAgrees
<1>10. QED
  BY <1>2, <1>4, <1>5, <1>6, <1>7, <1>8, <1>9
     DEF Next, HostStep, Controller, Application, CallbackReturns, LoopSends, LoopEnds,
         SendData, Stop, vars


\* A loop serves connections the host has.
LEMMA LoopServesActive ==
  ASSUME Shape, DeadHandlesAreEmpty, NEW h \in Handle, LoopSends(h)
  PROVE  h \in activeConnections
<1>1. Len(callStack) \in Nat /\ callStack \in Seq(Frame)
  BY LenProperties DEF Shape
<1>2. Len(callStack) \in 1 .. Len(callStack)
  BY <1>1, EmptySeq DEF LoopSends, InLoop
<1>3. Top \in activeConnections \cup {"any", "callback"} /\ Top # "callback"
  BY <1>2 DEF LoopSends, InLoop, Top, DeadHandlesAreEmpty
<1>4. QED
  BY <1>3 DEF LoopSends, Candidates

\* What is left of a sequence after its first n elements.
LEMMA SubSeqFrom ==
  ASSUME NEW S, NEW s \in Seq(S), NEW n \in Nat, n <= Len(s)
  PROVE  /\ SubSeq(s, n + 1, Len(s)) \in Seq(S)
         /\ Len(SubSeq(s, n + 1, Len(s))) = Len(s) - n
         /\ \A i \in 1 .. Len(s) - n : SubSeq(s, n + 1, Len(s))[i] = s[n + i]
<1> DEFINE l == Len(s)
           t == SubSeq(s, n + 1, l)
<1>1. l \in Nat /\ \A i \in 1 .. l : s[i] \in S
  BY LenProperties, ElementOfSeq
<1>2. n + 1 \in Int /\ l \in Int /\ n <= l /\ \A i \in n + 1 .. l : s[i] \in S
  BY <1>1
<1> HIDE DEF l
<1>3. /\ t \in Seq(S)
      /\ Len(t) = IF n + 1 <= l THEN l - (n + 1) + 1 ELSE 0
      /\ \A i \in 1 .. l - (n + 1) + 1 : t[i] = s[n + 1 + i - 1]
  BY <1>2, SubSeqProperties
<1> HIDE DEF t
<1>4. (IF n + 1 <= l THEN l - (n + 1) + 1 ELSE 0) = l - n /\ l - (n + 1) + 1 = l - n
  BY <1>1, <1>2
<1>5. \A i \in 1 .. l - n : n + 1 + i - 1 = n + i
  BY <1>1
<1>6. Len(t) = l - n /\ \A i \in 1 .. l - n : t[i] = s[n + i]
  BY <1>3, <1>4, <1>5
<1>7. QED
  BY <1>3, <1>6 DEF t, l

\* The controller holds nothing of a handle that is not connected on both sides.
LEMMA HeldStep ==
  ASSUME Shape, CountsRight, DeadHandlesAreEmpty, LinksInv, [Next]_vars, NEW h \in Handle,
         h \notin links' \cap activeConnections'
  PROVE  controllerPackets'[h] = <<>>
<1> USE DEF hostVars, controllerVars, historyVars
<1>1. h \notin links \cap activeConnections => controllerPackets[h] = <<>>
  BY DEF LinksInv
<1>2. controllerPackets \in [Handle -> Seq(Fragment)]
  BY DEF Shape
<1>3. ASSUME UNCHANGED <<links, activeConnections, controllerPackets>>
      PROVE  controllerPackets'[h] = <<>>
  BY <1>1, <1>3
<1>4. ASSUME NEW g \in Handle, LoopSends(g)
      PROVE  controllerPackets'[h] = <<>>
  <2>1. h \notin links \cap activeConnections
    BY <1>4 DEF LoopSends
  <2>2. g = h => h \notin links
    BY <1>4, <2>1, LoopServesActive
  <2>3. QED
    BY <1>1, <1>2, <1>4, <2>1, <2>2 DEF LoopSends
<1>5. CASE HandleLeConnectionComplete
  BY <1>1, <1>5 DEF HandleLeConnectionComplete
<1>6. CASE HandleDisconnectionComplete
  <2> DEFINE g == Head(hciEvents).handle
  <2>1. /\ hciEvents # <<>> /\ Head(hciEvents).type = "disconnected"
        /\ activeConnections' = activeConnections \ {g} /\ links' = links
        /\ controllerPackets' = controllerPackets
    BY <1>6 DEF HandleDisconnectionComplete, Receive
  <2>2. CASE g = h
    <3> DEFINE linked == h \in links
               active == h \in activeConnections
    <3>1. /\ LinkEvents(h, hciEvents, linked, active) /\ linked \in BOOLEAN
          /\ active \in BOOLEAN /\ hciEvents \in Seq(Event)
      BY DEF LinksInv, Shape
    <3>2. IsAbout(Head(hciEvents), "disconnected", h)
      BY <2>1, <2>2 DEF IsAbout
    <3>3. ~linked
      <4> HIDE DEF linked, active
      <4>1. QED
        BY <2>1, <3>1, <3>2, LinkEventsDisconnected, Zenon
    <3>4. QED
      BY <1>1, <2>1, <3>3
  <2>3. QED
    BY <1>1, <2>1, <2>2
<1>7. ASSUME NEW g \in Handle, LinkUp(g)
      PROVE  controllerPackets'[h] = <<>>
  BY <1>1, <1>7 DEF LinkUp
<1>8. ASSUME NEW g \in Handle, LinkDown(g)
      PROVE  controllerPackets'[h] = <<>>
  BY <1>1, <1>2, <1>8 DEF LinkDown
<1>9. ASSUME NEW n \in [Handle -> 0 .. NumPackets], CompletePackets(n)
      PROVE  controllerPackets'[h] = <<>>
  <2>1. controllerPackets[h] = <<>>
    BY <1>1, <1>9 DEF CompletePackets
  <2>2. n[h] = 0
    BY <1>9, <2>1, AclAssumption DEF CompletePackets
  <2>3. controllerPackets'[h] = SubSeq(<<>>, 0 + 1, Len(<<>>))
    BY <1>9, <2>1, <2>2 DEF CompletePackets
  <2>4. Len(<<>>) = 0 /\ SubSeq(<<>>, 0 + 1, 0) = <<>>
    BY SubSeqEmpty
  <2>5. QED
    BY <2>3, <2>4
<1>10. QED
  BY <1>3, <1>4, <1>5, <1>6, <1>7, <1>8, <1>9
     DEF Next, HostStep, Controller, Application, CallbackReturns, LoopEnds, SendData, Stop,
         HandleNumberOfCompletePackets, vars

\* Every step keeps LinksInv.
LEMMA LinksStep ==
  ASSUME Shape, CountsRight, DeadHandlesAreEmpty, LinksInv, [Next]_vars
  PROVE  LinksInv'
<1>1. \A h \in Handle : LinkAgrees(h)'
  BY LinkAgreesStep
<1>2. \A h \in Handle : h \notin links' \cap activeConnections' => controllerPackets'[h] = <<>>
  BY HeldStep
<1>3. QED
  BY <1>1, <1>2 DEF LinksInv, LinkAgrees

-----------------------------------------------------------------------------
(* What is reported in the events under way. *)

\* An event reports a number of packets.
LEMMA ReportsType ==
  ASSUME NEW h \in Handle, NEW e \in Event
  PROVE  Reports(h, e) \in Nat
BY DEF Event, Reports

\* The first event reports part of what is pending, the others the rest.
LEMMA PendingTail ==
  ASSUME NEW h \in Handle, NEW ev \in Seq(Event), ev # <<>>, NEW k, Pending(h, ev, k)
  PROVE  \E j \in Nat : Pending(h, Tail(ev), j) /\ k = Reports(h, Head(ev)) + j
<1> DEFINE t == Tail(ev)
<1>1. /\ Len(ev) \in Nat \ {0} /\ Len(t) = Len(ev) - 1 /\ Head(ev) = ev[1]
      /\ \A i \in 1 .. Len(t) : t[i] = ev[i + 1]
  BY TailElements
<1>2. PICK g : Weights(h, ev, g) /\ g[1] = k
  BY DEF Pending
<1>3. /\ g \in [1 .. Len(ev) + 1 -> Nat] /\ g[Len(ev) + 1] = 0
      /\ \A i \in 1 .. Len(ev) : g[i] = Reports(h, ev[i]) + g[i + 1]
  BY <1>2 DEF Weights
<1> HIDE DEF t
<1> DEFINE f == [i \in 1 .. Len(t) + 1 |-> g[i + 1]]
<1>4. \A i \in 1 .. Len(t) + 1 : i + 1 \in 1 .. Len(ev) + 1
  BY <1>1
<1>5. \A i \in 1 .. Len(t) : i + 1 \in 1 .. Len(ev) /\ i \in 1 .. Len(t) + 1 /\ i + 1 \in 1 .. Len(t) + 1
  BY <1>1
<1>6. f \in [1 .. Len(t) + 1 -> Nat]
  BY <1>3, <1>4
<1>7. f[Len(t) + 1] = 0
  BY <1>1, <1>3
<1>8. \A i \in 1 .. Len(t) : f[i] = Reports(h, t[i]) + f[i + 1]
  BY <1>1, <1>3, <1>5
<1>9. f[1] = g[2] /\ g[2] \in Nat /\ k = Reports(h, Head(ev)) + g[2]
  BY <1>1, <1>2, <1>3
<1> HIDE DEF f
<1>10. Weights(h, t, f)
  BY <1>6, <1>7, <1>8 DEF Weights
<1>11. Pending(h, t, g[2])
  BY <1>9, <1>10 DEF Pending
<1>12. QED
  BY <1>9, <1>11 DEF t

\* A further event adds what it reports.
LEMMA PendingAppend ==
  ASSUME NEW h \in Handle, NEW ev \in Seq(Event), NEW e \in Event, NEW k, Pending(h, ev, k)
  PROVE  Pending(h, Append(ev, e), k + Reports(h, e))
<1> DEFINE t == Append(ev, e)
           r == Reports(h, e)
<1>1. /\ Len(ev) \in Nat /\ Len(t) = Len(ev) + 1 /\ t[Len(ev) + 1] = e
      /\ \A i \in 1 .. Len(ev) : t[i] = ev[i]
  BY AppendElements
<1>2. PICK g : Weights(h, ev, g) /\ g[1] = k
  BY DEF Pending
<1>3. /\ g \in [1 .. Len(ev) + 1 -> Nat] /\ g[Len(ev) + 1] = 0
      /\ \A i \in 1 .. Len(ev) : g[i] = Reports(h, ev[i]) + g[i + 1]
  BY <1>2 DEF Weights
<1>4. r \in Nat /\ Reports(h, t[Len(ev) + 1]) = r
  BY <1>1, ReportsType
<1>5. \A i \in 1 .. Len(ev) : Reports(h, ev[i]) \in Nat /\ Reports(h, t[i]) = Reports(h, ev[i])
  BY <1>1, ReportsType, ElementOfSeq
<1> HIDE DEF t, r
<1> DEFINE f == [i \in 1 .. Len(t) + 1 |-> IF i <= Len(ev) + 1 THEN g[i] + r ELSE 0]
<1>6. f \in [1 .. Len(t) + 1 -> Nat]
  BY <1>1, <1>3, <1>4
<1>7. f[Len(t) + 1] = 0
  BY <1>1
<1>8. ASSUME NEW i \in 1 .. Len(t)
      PROVE  f[i] = Reports(h, t[i]) + f[i + 1]
  <2>1. CASE i \in 1 .. Len(ev)
    <3>1. /\ i \in 1 .. Len(t) + 1 /\ i + 1 \in 1 .. Len(t) + 1
          /\ i <= Len(ev) + 1 /\ i + 1 <= Len(ev) + 1
          /\ i \in 1 .. Len(ev) + 1 /\ i + 1 \in 1 .. Len(ev) + 1
      BY <1>1, <2>1
    <3>2. f[i] = g[i] + r /\ f[i + 1] = g[i + 1] + r
      BY <3>1
    <3> HIDE DEF f
    <3>3. g[i] \in Nat /\ g[i + 1] \in Nat
      BY <1>3, <3>1
    <3>4. g[i] = Reports(h, t[i]) + g[i + 1] /\ Reports(h, t[i]) \in Nat
      BY <1>3, <1>5, <2>1
    <3>5. QED
      BY <1>4, <3>2, <3>3, <3>4
  <2>2. CASE i = Len(ev) + 1
    <3>1. f[i] = 0 + r /\ f[i + 1] = 0 /\ Reports(h, t[i]) = r
      BY <1>1, <1>3, <1>4, <2>2
    <3>2. QED
      BY <1>4, <3>1
  <2>3. QED
    BY <1>1, <2>1, <2>2
<1>9. f[1] = k + r
  BY <1>1, <1>2
<1> HIDE DEF f
<1>10. Weights(h, t, f)
  BY <1>6, <1>7, <1>8 DEF Weights
<1>11. QED
  BY <1>9, <1>10 DEF Pending, t, r

\* Events that report nothing.
LEMMA PendingNone ==
  ASSUME NEW h \in Handle, NEW ev \in Seq(Event), \A i \in 1 .. Len(ev) : Reports(h, ev[i]) = 0
  PROVE  Pending(h, ev, 0)
<1> DEFINE f == [i \in 1 .. Len(ev) + 1 |-> 0]
<1>1. Len(ev) \in Nat
  BY LenProperties
<1>2. f \in [1 .. Len(ev) + 1 -> Nat] /\ f[Len(ev) + 1] = 0 /\ f[1] = 0
  BY <1>1
<1>3. \A i \in 1 .. Len(ev) : f[i] = Reports(h, ev[i]) + f[i + 1]
  BY <1>1
<1> HIDE DEF f
<1>4. Weights(h, ev, f)
  BY <1>2, <1>3 DEF Weights
<1>5. QED
  BY <1>2, <1>4 DEF Pending


-----------------------------------------------------------------------------
(* What the host waits for. *)

Callbacks == Sdus \cup {NoCallback}

\* The callback of a fragment is that of its packet, or none.
LEMMA CallbackType ==
  ASSUME NEW item \in Fragment
  PROVE  CallbackOf(item) \in Callbacks
BY DEF CallbackOf, Callbacks, Fragment

\* Writing a fragment: the host waits for it, and the controller holds it if the link is there.
LEMMA WaitsSent ==
  ASSUME NEW w \in Seq(Callbacks), NEW held \in Seq(Fragment), NEW k \in Nat,
         NEW linked \in BOOLEAN, NEW done, WaitsFor(w, held, k, linked, done),
         NEW item \in Fragment, NEW held2,
         held2 = IF linked THEN Append(held, item) ELSE held
  PROVE  WaitsFor(Append(w, CallbackOf(item)), held2, k, linked, done)
<1> DEFINE c == CallbackOf(item)
           v == Append(w, c)
<1>1. c \in Callbacks
  BY CallbackType
<1> HIDE DEF c
<1>2. /\ Len(w) \in Nat /\ Len(v) = Len(w) + 1 /\ v[Len(w) + 1] = c
      /\ \A i \in 1 .. Len(w) : v[i] = w[i]
  BY <1>1, AppendProperties
<1> HIDE DEF v
<1>3. k <= Len(w) /\ \A i \in 1 .. k : w[i] # NoCallback => w[i] \in done
  BY DEF WaitsFor
<1>4. k <= Len(v) /\ \A i \in 1 .. k : v[i] # NoCallback => v[i] \in done
  BY <1>2, <1>3
<1>5. ASSUME linked
      PROVE  /\ Len(v) = k + Len(held2)
             /\ \A i \in 1 .. Len(held2) : v[k + i] = CallbackOf(held2[i])
  <2>1. /\ Len(w) = k + Len(held)
        /\ \A i \in 1 .. Len(held) : w[k + i] = CallbackOf(held[i])
    BY <1>5 DEF WaitsFor
  <2>2. held2 = Append(held, item)
    BY <1>5
  <2>3. /\ Len(held) \in Nat /\ Len(held2) = Len(held) + 1 /\ held2[Len(held) + 1] = item
        /\ \A i \in 1 .. Len(held) : held2[i] = held[i]
    BY <2>2, AppendProperties
  <2>4. \A i \in 1 .. Len(held) : v[k + i] = CallbackOf(held2[i])
    BY <1>2, <2>1, <2>3
  <2>5. v[k + (Len(held) + 1)] = CallbackOf(held2[Len(held) + 1])
    <3>1. k + (Len(held) + 1) = Len(w) + 1
      BY <2>1, <2>3
    <3>2. QED
      BY <1>2, <2>3, <3>1 DEF c
  <2>6. Len(v) = k + Len(held2)
    BY <1>2, <2>1, <2>3
  <2>7. \A i \in 1 .. Len(held2) : i \in 1 .. Len(held) \/ i = Len(held) + 1
    BY <2>3
  <2>8. QED
    BY <2>4, <2>5, <2>6, <2>7
<1>6. QED
  BY <1>4, <1>5 DEF WaitsFor, v, c

\* Transmitted packets leave the controller and are reported.
LEMMA WaitsAcked ==
  ASSUME NEW w \in Seq(Callbacks), NEW held \in Seq(Fragment), NEW k \in Nat,
         NEW done, WaitsFor(w, held, k, TRUE, done), NEW n \in Nat, n <= Len(held),
         NEW done2, done \subseteq done2,
         \A i \in 1 .. n : held[i].isLast => held[i].sdu \in done2
  PROVE  WaitsFor(w, SubSeq(held, n + 1, Len(held)), k + n, TRUE, done2)
<1> DEFINE rest == SubSeq(held, n + 1, Len(held))
<1>1. /\ Len(rest) = Len(held) - n /\ Len(held) \in Nat
      /\ \A i \in 1 .. Len(held) - n : rest[i] = held[n + i]
  BY SubSeqFrom, LenProperties
<1> HIDE DEF rest
<1>2. /\ Len(w) = k + Len(held) /\ \A i \in 1 .. k : w[i] # NoCallback => w[i] \in done
      /\ \A i \in 1 .. Len(held) : w[k + i] = CallbackOf(held[i])
  BY DEF WaitsFor
<1>3. k + n <= Len(w) /\ Len(w) = k + n + Len(rest)
  BY <1>1, <1>2
<1>4. ASSUME NEW i \in 1 .. k + n, w[i] # NoCallback
      PROVE  w[i] \in done2
  <2>1. CASE i \in 1 .. k
    BY <1>2, <1>4, <2>1
  <2>2. CASE i \notin 1 .. k
    <3>1. i - k \in 1 .. n /\ i - k \in 1 .. Len(held) /\ k + (i - k) = i
      BY <1>1, <2>2
    <3>2. w[i] = CallbackOf(held[i - k])
      BY <1>2, <3>1
    <3>3. QED
      BY <1>4, <3>1, <3>2 DEF CallbackOf
  <2>3. QED
    BY <2>1, <2>2
<1>5. ASSUME NEW i \in 1 .. Len(rest)
      PROVE  w[k + n + i] = CallbackOf(rest[i])
  <2>1. n + i \in 1 .. Len(held) /\ k + n + i = k + (n + i) /\ rest[i] = held[n + i]
    BY <1>1
  <2>2. QED
    BY <1>2, <2>1
<1>6. QED
  BY <1>3, <1>4, <1>5 DEF WaitsFor, rest

\* Packets that are reported are waited for no longer.
LEMMA WaitsReported ==
  ASSUME NEW w \in Seq(Callbacks), NEW held \in Seq(Fragment), NEW k \in Nat,
         NEW linked \in BOOLEAN, NEW done, WaitsFor(w, held, k, linked, done),
         NEW n \in Nat, NEW j \in Nat, k = n + j
  PROVE  /\ n <= Len(w)
         /\ WaitsFor(SubSeq(w, n + 1, Len(w)), held, j, linked, done)
         /\ \A i \in 1 .. n : w[i] # NoCallback => w[i] \in done
<1> DEFINE rest == SubSeq(w, n + 1, Len(w))
<1>1. /\ k <= Len(w) /\ \A i \in 1 .. k : w[i] # NoCallback => w[i] \in done
      /\ linked => /\ Len(w) = k + Len(held)
                   /\ \A i \in 1 .. Len(held) : w[k + i] = CallbackOf(held[i])
  BY DEF WaitsFor
<1>2. Len(w) \in Nat /\ Len(held) \in Nat
  BY LenProperties
<1>3. n <= Len(w) /\ \A i \in 1 .. n : i \in 1 .. k
  BY <1>1, <1>2
<1>4. Len(rest) = Len(w) - n /\ \A i \in 1 .. Len(w) - n : rest[i] = w[n + i]
  BY <1>3, SubSeqFrom
<1> HIDE DEF rest
<1>5. j <= Len(rest)
  BY <1>1, <1>2, <1>4
<1>6. ASSUME NEW i \in 1 .. j, rest[i] # NoCallback
      PROVE  rest[i] \in done
  <2>1. i \in 1 .. Len(w) - n /\ n + i \in 1 .. k
    BY <1>1, <1>2
  <2>2. QED
    BY <1>1, <1>4, <1>6, <2>1
<1>7. ASSUME linked
      PROVE  /\ Len(rest) = j + Len(held)
             /\ \A i \in 1 .. Len(held) : rest[j + i] = CallbackOf(held[i])
  <2>1. Len(w) = k + Len(held)
    BY <1>1, <1>7
  <2>2. \A i \in 1 .. Len(held) : j + i \in 1 .. Len(w) - n /\ n + (j + i) = k + i
    BY <1>2, <2>1
  <2>3. QED
    BY <1>1, <1>2, <1>4, <1>7, <2>1, <2>2
<1>8. QED
  BY <1>1, <1>3, <1>5, <1>6, <1>7 DEF WaitsFor, rest


\* Of a connection the host has, it takes as many packets as completed as are reported.
LEMMA ReportsCounted ==
  ASSUME Shape, NEW h \in Handle, h \in activeConnections, HandleNumberOfCompletePackets,
         NEW k \in Nat, NEW j \in Nat, k = Reports(h, Head(hciEvents)) + j,
         k <= Len(outgoingL2CAPPacketsInController[h])
  PROVE  /\ NumCompleted(h, Head(hciEvents).count) = Reports(h, Head(hciEvents))
         /\ Reports(h, Head(hciEvents)) \in Nat
<1>1. Head(hciEvents).type = "completed" /\ Head(hciEvents).count \in [Handle -> Nat]
  BY ReceiveProperties DEF HandleNumberOfCompletePackets, Receive, Shape
<1>2. /\ Reports(h, Head(hciEvents)) = Head(hciEvents).count[h]
      /\ Head(hciEvents).count[h] \in Nat
  BY <1>1 DEF Reports
<1>3. Len(outgoingL2CAPPacketsInController[h]) \in Nat
  BY LenProperties DEF Shape
<1>4. ~(Head(hciEvents).count[h] > Len(outgoingL2CAPPacketsInController[h]))
  BY <1>2, <1>3
<1>5. QED
  BY <1>2, <1>4 DEF NumCompleted

\* Every step of the host keeps what it waits for, packet by packet.
LEMMA HostWaitsStep ==
  ASSUME Shape, CountsRight, DeadHandlesAreEmpty, LinksInv, [Next]_vars,
         NEW h \in Handle, HostWaits(h)
  PROVE  HostWaits(h)'
<1> USE DEF hostVars, controllerVars, historyVars
<1> DEFINE w == outgoingL2CAPPacketsInController[h]
           held == controllerPackets[h]
           linked == h \in links
<1>1. PICK k \in Nat :
        /\ Pending(h, hciEvents, k)
        /\ h \in activeConnections => WaitsFor(w, held, k, linked, delivered)
  BY DEF HostWaits
<1>2. /\ hciEvents \in Seq(Event) /\ w \in Seq(Callbacks) /\ held \in Seq(Fragment)
      /\ linked \in BOOLEAN
      /\ outgoingL2CAPPacketsInController \in [Handle -> Seq(Callbacks)]
      /\ controllerPackets \in [Handle -> Seq(Fragment)]
  BY DEF Shape, Callbacks
<1>3. LinkEvents(h, hciEvents, linked, h \in activeConnections)
  BY DEF LinksInv
<1>4. h \notin links \cap activeConnections => held = <<>>
  BY DEF LinksInv
<1>6. ASSUME UNCHANGED <<hciEvents, activeConnections, outgoingL2CAPPacketsInController,
                         controllerPackets, links, delivered>>
      PROVE  HostWaits(h)'
  BY <1>6 DEF HostWaits
<1>7. ASSUME NEW g \in Handle, LoopSends(g)
      PROVE  HostWaits(h)'
  <2>1. UNCHANGED <<hciEvents, activeConnections, links, delivered>>
    BY <1>7 DEF LoopSends
  <2>2. CASE g # h
    <3>1. outgoingL2CAPPacketsInController'[h] = w /\ controllerPackets'[h] = held
      BY <1>2, <1>7, <2>2 DEF LoopSends
    <3>2. QED
      BY <2>1, <3>1 DEF HostWaits
  <2>3. CASE g = h
    <3> DEFINE item == Head(outgoingL2CAPBuffer[h])
    <3>1. item \in Fragment
      <4>1. outgoingL2CAPBuffer[h] \in Seq(Fragment) /\ outgoingL2CAPBuffer[h] # <<>>
        BY <1>7, <2>3 DEF LoopSends, Candidates, Shape
      <4>2. QED
        BY <4>1, HeadTailProperties
    <3>2. h \in activeConnections
      BY <1>7, <2>3, LoopServesActive
    <3>3. outgoingL2CAPPacketsInController'[h] = Append(w, CallbackOf(item))
      BY <1>2, <1>7, <2>3 DEF LoopSends, CallbackOf
    <3>4. controllerPackets'[h] = IF linked THEN Append(held, item) ELSE held
      BY <1>2, <1>7, <2>3 DEF LoopSends
    <3>5. WaitsFor(w, held, k, linked, delivered)
      BY <1>1, <3>2
    <3> DEFINE held2 == IF linked THEN Append(held, item) ELSE held
    <3>6. held2 = IF linked THEN Append(held, item) ELSE held
      OBVIOUS
    <3>7. controllerPackets'[h] = held2
      BY <3>4
    <3> HIDE DEF held2, item, w, held, linked
    <3>8. WaitsFor(Append(w, CallbackOf(item)), held2, k, linked, delivered)
      BY <1>2, <3>1, <3>5, <3>6, WaitsSent
    <3>9. QED
      BY <1>1, <2>1, <3>3, <3>7, <3>8 DEF HostWaits, linked
  <2>4. QED
    BY <2>2, <2>3
<1>8. CASE HandleLeConnectionComplete
  <2> DEFINE g == Head(hciEvents).handle
  <2>1. /\ hciEvents # <<>> /\ Head(hciEvents).type = "connected" /\ hciEvents' = Tail(hciEvents)
        /\ activeConnections' = activeConnections \cup {g}
        /\ UNCHANGED <<links, controllerPackets, delivered>>
        /\ outgoingL2CAPPacketsInController' =
             [outgoingL2CAPPacketsInController EXCEPT ![g] = <<>>]
    BY <1>8 DEF HandleLeConnectionComplete, Receive
  <2>2. PICK j \in Nat : Pending(h, Tail(hciEvents), j) /\ k = Reports(h, Head(hciEvents)) + j
    BY <1>1, <1>2, <2>1, PendingTail
  <2>3. CASE g = h
    <3>1. IsAbout(Head(hciEvents), "connected", h)
      BY <2>1, <2>3 DEF IsAbout
    <3> DEFINE active == h \in activeConnections
    <3>2. LinkEvents(h, hciEvents, linked, active) /\ active \in BOOLEAN
      BY <1>3
    <3>3. ~active
      <4> HIDE DEF active, linked
      <4>1. QED
        BY <1>2, <2>1, <3>1, <3>2, LinkEventsConnected, Zenon
    <3>4. \A i \in 1 .. Len(Tail(hciEvents)) : Reports(h, Tail(hciEvents)[i]) = 0
      <4>1. /\ Len(Tail(hciEvents)) = Len(hciEvents) - 1 /\ Len(hciEvents) \in Nat \ {0}
            /\ \A i \in 1 .. Len(Tail(hciEvents)) : Tail(hciEvents)[i] = hciEvents[i + 1]
        BY <1>2, <2>1, TailElements
      <4>2. \A i \in 1 .. Len(hciEvents) : Reports(h, hciEvents[i]) = 0
        BY <3>2, <3>3 DEF LinkEvents
      <4>3. \A i \in 1 .. Len(Tail(hciEvents)) : i + 1 \in 1 .. Len(hciEvents)
        BY <4>1
      <4>4. QED
        BY <4>1, <4>2, <4>3
    <3>5. Pending(h, hciEvents', 0)
      <4>1. Tail(hciEvents) \in Seq(Event)
        BY <1>2, <2>1, TailElements
      <4>2. QED
        BY <2>1, <3>4, <4>1, PendingNone
    <3>6. outgoingL2CAPPacketsInController'[h] = <<>> /\ controllerPackets'[h] = <<>>
      BY <1>2, <1>4, <2>1, <2>3, <3>3
    <3>7. WaitsFor(<<>>, <<>>, 0, h \in links', delivered')
      BY DEF WaitsFor
    <3>8. QED
      BY <3>5, <3>6, <3>7 DEF HostWaits
  <2>4. CASE g # h
    <3>1. Reports(h, Head(hciEvents)) = 0
      BY <2>1 DEF Reports
    <3>2. outgoingL2CAPPacketsInController'[h] = w
      BY <1>2, <2>1, <2>4
    <3>3. Pending(h, hciEvents', k)
      BY <2>1, <2>2, <3>1
    <3>4. (h \in activeConnections') = (h \in activeConnections)
      BY <2>1, <2>4
    <3>5. QED
      BY <1>1, <2>1, <3>2, <3>3, <3>4 DEF HostWaits
  <2>5. QED
    BY <2>3, <2>4
<1>9. CASE HandleDisconnectionComplete
  <2> DEFINE g == Head(hciEvents).handle
  <2>1. /\ hciEvents # <<>> /\ Head(hciEvents).type = "disconnected" /\ hciEvents' = Tail(hciEvents)
        /\ activeConnections' = activeConnections \ {g}
        /\ UNCHANGED <<links, controllerPackets, delivered>>
        /\ outgoingL2CAPPacketsInController' =
             [outgoingL2CAPPacketsInController EXCEPT ![g] = <<>>]
    BY <1>9 DEF HandleDisconnectionComplete, Receive
  <2>2. PICK j \in Nat : Pending(h, Tail(hciEvents), j) /\ k = Reports(h, Head(hciEvents)) + j
    BY <1>1, <1>2, <2>1, PendingTail
  <2>3. CASE g = h
    <3>1. h \notin activeConnections'
      BY <2>1, <2>3
    <3>2. QED
      BY <2>1, <2>2, <3>1 DEF HostWaits
  <2>4. CASE g # h
    <3>1. Reports(h, Head(hciEvents)) = 0
      BY <2>1 DEF Reports
    <3>2. outgoingL2CAPPacketsInController'[h] = w
      BY <1>2, <2>1, <2>4
    <3>3. Pending(h, hciEvents', k)
      BY <2>1, <2>2, <3>1
    <3>4. (h \in activeConnections') = (h \in activeConnections)
      BY <2>1, <2>4
    <3>5. QED
      BY <1>1, <2>1, <3>2, <3>3, <3>4 DEF HostWaits
  <2>5. QED
    BY <2>3, <2>4
<1>10. CASE HandleNumberOfCompletePackets
  <2> DEFINE count == Head(hciEvents).count
             n == NumCompleted(h, count)
  <2>1. /\ hciEvents # <<>> /\ Head(hciEvents).type = "completed" /\ hciEvents' = Tail(hciEvents)
        /\ UNCHANGED <<activeConnections, links, controllerPackets, delivered>>
        /\ outgoingL2CAPPacketsInController'[h] = SubSeq(w, n + 1, Len(w))
    BY <1>10 DEF HandleNumberOfCompletePackets, Receive
  <2>2. PICK j \in Nat : Pending(h, Tail(hciEvents), j) /\ k = Reports(h, Head(hciEvents)) + j
    BY <1>1, <1>2, <2>1, PendingTail
  <2>3. CASE h \notin activeConnections
    BY <2>1, <2>2, <2>3 DEF HostWaits
  <2>4. CASE h \in activeConnections
    <3>1. WaitsFor(w, held, k, linked, delivered)
      BY <1>1, <2>4
    <3>2. n = Reports(h, Head(hciEvents)) /\ n \in Nat
      <4>1. k <= Len(w)
        BY <3>1 DEF WaitsFor
      <4>2. QED
        BY <1>10, <2>2, <2>4, <4>1, ReportsCounted
    <3> HIDE DEF n, w, held, linked
    <3>3. WaitsFor(SubSeq(w, n + 1, Len(w)), held, j, linked, delivered)
      <4>1. k = n + j
        BY <2>2, <3>2
      <4>2. QED
        BY <1>2, <3>1, <3>2, <4>1, WaitsReported
    <3>4. QED
      BY <2>1, <2>2, <3>3 DEF HostWaits, held, linked
  <2>5. QED
    BY <2>3, <2>4
<1>11. ASSUME NEW g \in Handle, LinkUp(g)
       PROVE  HostWaits(h)'
  <2> DEFINE e == [type |-> "connected", handle |-> g]
  <2>1. /\ hciEvents' = Append(hciEvents, e) /\ links' = links \cup {g} /\ HandleIsFree(g)
        /\ UNCHANGED <<activeConnections, outgoingL2CAPPacketsInController, controllerPackets,
                       delivered>>
    BY <1>11 DEF LinkUp
  <2>2. e \in Event /\ Reports(h, e) = 0
    BY DEF Event, Reports
  <2>3. Pending(h, hciEvents', k)
    <3> HIDE DEF e
    <3>1. Pending(h, Append(hciEvents, e), k + Reports(h, e))
      BY <1>1, <1>2, <2>2, PendingAppend
    <3>2. k + Reports(h, e) = k
      BY <2>2
    <3>3. QED
      BY <2>1, <3>1, <3>2
  <2>4. h \in activeConnections => (h \in links') = linked
    BY <2>1 DEF HandleIsFree
  <2>5. QED
    BY <1>1, <2>1, <2>3, <2>4 DEF HostWaits
<1>12. ASSUME NEW g \in Handle, LinkDown(g)
       PROVE  HostWaits(h)'
  <2> DEFINE e == [type |-> "disconnected", handle |-> g]
  <2>1. /\ hciEvents' = Append(hciEvents, e) /\ links' = links \ {g}
        /\ controllerPackets' = [controllerPackets EXCEPT ![g] = <<>>]
        /\ UNCHANGED <<activeConnections, outgoingL2CAPPacketsInController, delivered>>
    BY <1>12 DEF LinkDown
  <2>2. e \in Event /\ Reports(h, e) = 0
    BY DEF Event, Reports
  <2>3. Pending(h, hciEvents', k)
    <3> HIDE DEF e
    <3>1. Pending(h, Append(hciEvents, e), k + Reports(h, e))
      BY <1>1, <1>2, <2>2, PendingAppend
    <3>2. k + Reports(h, e) = k
      BY <2>2
    <3>3. QED
      BY <2>1, <3>1, <3>2
  <2>4. CASE g # h
    <3>1. controllerPackets'[h] = held /\ (h \in links') = linked
      BY <1>2, <2>1, <2>4
    <3>2. QED
      BY <1>1, <2>1, <2>3, <3>1 DEF HostWaits
  <2>5. CASE g = h
    <3>1. (h \in links') = FALSE
      BY <2>1, <2>5
    <3>2. ASSUME h \in activeConnections
          PROVE  WaitsFor(w, controllerPackets'[h], k, FALSE, delivered)
      BY <1>1, <3>2 DEF WaitsFor
    <3>3. QED
      BY <2>1, <2>3, <3>1, <3>2 DEF HostWaits
  <2>6. QED
    BY <2>4, <2>5
<1>13. ASSUME NEW n \in [Handle -> 0 .. NumPackets], CompletePackets(n)
       PROVE  HostWaits(h)'
  <2> DEFINE e == [type |-> "completed", count |-> n]
             rest == SubSeq(held, n[h] + 1, Len(held))
  <2>1. /\ UNCHANGED <<links, activeConnections, outgoingL2CAPPacketsInController>>
        /\ hciEvents' = Append(hciEvents, e) /\ e \in Event
        /\ controllerPackets'[h] = rest /\ n[h] <= Len(held)
    BY <1>13, CompletionEvent DEF CompletePackets
  <2>2. Reports(h, e) = n[h] /\ n[h] \in Nat
    BY AclAssumption DEF Reports
  <2>3. Pending(h, hciEvents', k + n[h])
    <3> HIDE DEF e
    <3>1. Pending(h, Append(hciEvents, e), k + Reports(h, e))
      BY <1>1, <1>2, <2>1, PendingAppend
    <3>2. QED
      BY <2>1, <2>2, <3>1
  <2>4. ASSUME h \in activeConnections
        PROVE  WaitsFor(w, rest, k + n[h], linked, delivered')
    <3>1. WaitsFor(w, held, k, linked, delivered)
      BY <1>1, <2>4
    <3>2. delivered \subseteq delivered'
      BY <1>13 DEF CompletePackets
    <3>3. CASE linked
      <4>1. \A i \in 1 .. n[h] : held[i].isLast => held[i].sdu \in delivered'
        <5>1. ASSUME NEW i \in 1 .. n[h], held[i].isLast
              PROVE  held[i].sdu \in delivered'
          <6>1. held[i] \in Fragment
            <7>1. i \in 1 .. Len(held)
              BY <1>2, <2>1, <2>2, LenProperties
            <7>2. QED
              BY <1>2, <7>1, ElementOfSeq
          <6>2. held[i].sdu \in Sdus
            BY <6>1 DEF Fragment
          <6>3. QED
            BY <1>13, <5>1, <6>2 DEF CompletePackets
        <5>2. QED
          BY <5>1
      <4>2. linked = TRUE
        BY <3>3
      <4>3. WaitsFor(w, held, k, TRUE, delivered)
        BY <3>1, <4>2
      <4> DEFINE m == n[h]
      <4>4. m \in Nat /\ m <= Len(held) /\ \A i \in 1 .. m : held[i].isLast => held[i].sdu \in delivered'
        BY <2>1, <2>2, <4>1
      <4> HIDE DEF m, w, held, linked
      <4>5. WaitsFor(w, SubSeq(held, m + 1, Len(held)), k + m, TRUE, delivered')
        BY <1>2, <3>2, <4>3, <4>4, WaitsAcked
      <4>6. QED
        BY <4>2, <4>5 DEF m
    <3>4. CASE ~linked
      <4>1. held = <<>>
        BY <1>4, <3>4
      <4>2. n[h] = 0
        BY <2>1, <2>2, <4>1
      <4>3. QED
        BY <3>1, <3>2, <3>4, <4>2 DEF WaitsFor
    <3>5. QED
      BY <3>3, <3>4
  <2>5. k + n[h] \in Nat
    BY <2>2
  <2>6. QED
    BY <2>1, <2>3, <2>4, <2>5 DEF HostWaits
<1>14. QED
  BY <1>6, <1>7, <1>8, <1>9, <1>10, <1>11, <1>12, <1>13
     DEF Next, HostStep, Controller, Application, CallbackReturns, LoopEnds, SendData, Stop, vars


\* No step takes back that a packet was completed before its last fragment was delivered.
LEMMA CompletionStep ==
  ASSUME Shape, WaitsInv, [Next]_vars
  PROVE  CompletionIsTruthful'
<1> USE DEF hostVars, controllerVars, historyVars
<1>1. \A s \in Sdus : sduState[s] = "complete" => s \in delivered
  BY DEF WaitsInv, CompletionIsTruthful
<1>2. sduState \in [Sdus -> {"new", "queued", "sent", "complete", "gone"}]
  BY DEF Shape
<1>3. ASSUME delivered' = delivered,
             \A s \in Sdus : sduState'[s] = "complete" => sduState[s] = "complete"
      PROVE  CompletionIsTruthful'
  BY <1>1, <1>3 DEF CompletionIsTruthful
<1>4. ASSUME NEW h \in Handle, LoopSends(h)
      PROVE  CompletionIsTruthful'
  <2>1. delivered' = delivered
    BY <1>4 DEF LoopSends
  <2>2. \A s \in Sdus : sduState'[s] = "complete" => sduState[s] = "complete"
    BY <1>2, <1>4 DEF LoopSends
  <2>3. QED
    BY <1>3, <2>1, <2>2
<1>5. CASE HandleDisconnectionComplete
  <2>1. delivered' = delivered
    BY <1>5 DEF HandleDisconnectionComplete
  <2>2. \A s \in Sdus : sduState'[s] = "complete" => sduState[s] = "complete"
    BY <1>2, <1>5 DEF HandleDisconnectionComplete
  <2>3. QED
    BY <1>3, <2>1, <2>2
<1>6. ASSUME NEW h \in Handle, NEW s \in Sdus, NEW n \in 1 .. MaxFragments, SendData(h, s, n)
      PROVE  CompletionIsTruthful'
  <2>1. delivered' = delivered
    BY <1>6 DEF SendData
  <2>2. \A t \in Sdus : sduState'[t] = "complete" => sduState[t] = "complete"
    BY <1>2, <1>6 DEF SendData
  <2>3. QED
    BY <1>3, <2>1, <2>2
<1>7. ASSUME NEW n \in [Handle -> 0 .. NumPackets], CompletePackets(n)
      PROVE  CompletionIsTruthful'
  BY <1>1, <1>7 DEF CompletePackets, CompletionIsTruthful
<1>8. CASE HandleNumberOfCompletePackets
  <2> DEFINE count == Head(hciEvents).count
             completed == UNION {CallbacksOf(h, NumCompleted(h, count)) : h \in Handle}
  <2>1. /\ sduState' = [s \in Sdus |-> IF s \in completed THEN "complete" ELSE sduState[s]]
        /\ delivered' = delivered /\ hciEvents # <<>>
    BY <1>8 DEF HandleNumberOfCompletePackets, Receive
  <2>2. ASSUME NEW s \in Sdus, s \in completed
        PROVE  s \in delivered
    <3>1. PICK h \in Handle : s \in CallbacksOf(h, NumCompleted(h, count))
      BY <2>2
    <3> DEFINE w == outgoingL2CAPPacketsInController[h]
               n == NumCompleted(h, count)
    <3>2. PICK i \in 1 .. n : s = w[i] /\ s # NoCallback
      BY <3>1 DEF CallbacksOf
    <3>3. h \in activeConnections
      BY <3>2 DEF NumCompleted
    <3>4. PICK k \in Nat : /\ Pending(h, hciEvents, k)
                           /\ WaitsFor(w, controllerPackets[h], k, h \in links, delivered)
      BY <3>3 DEF WaitsInv, HostWaits
    <3>5. PICK j \in Nat : k = Reports(h, Head(hciEvents)) + j
      <4>1. hciEvents \in Seq(Event)
        BY DEF Shape
      <4>2. QED
        BY <2>1, <3>4, <4>1, PendingTail
    <3>6. k <= Len(w) /\ \A m \in 1 .. k : w[m] # NoCallback => w[m] \in delivered
      BY <3>4 DEF WaitsFor
    <3>7. n = Reports(h, Head(hciEvents)) /\ n \in Nat
      BY <1>8, <3>3, <3>5, <3>6, ReportsCounted
    <3> HIDE DEF n, w
    <3>8. i \in 1 .. k
      BY <3>2, <3>5, <3>7
    <3>9. QED
      BY <3>2, <3>6, <3>8
  <2> HIDE DEF completed
  <2>3. ASSUME NEW s \in Sdus, sduState'[s] = "complete"
        PROVE  s \in delivered'
    <3>1. s \in completed \/ sduState[s] = "complete"
      BY <2>1, <2>3
    <3>2. QED
      BY <1>1, <2>1, <2>2, <3>1
  <2>4. QED
    BY <2>3 DEF CompletionIsTruthful
<1>9. ASSUME UNCHANGED <<sduState, delivered>>
      PROVE  CompletionIsTruthful'
  BY <1>9 DEF WaitsInv, CompletionIsTruthful
<1>10. QED
  BY <1>4, <1>5, <1>6, <1>7, <1>8, <1>9
     DEF Next, HostStep, Controller, Application, CallbackReturns, LoopEnds, Stop,
         HandleLeConnectionComplete, LinkUp, LinkDown, vars

\* Every step keeps WaitsInv.
LEMMA WaitsStep ==
  ASSUME Shape, CountsRight, DeadHandlesAreEmpty, LinksInv, WaitsInv, [Next]_vars
  PROVE  WaitsInv'
<1>1. \A h \in Handle : HostWaits(h)'
  BY HostWaitsStep DEF WaitsInv
<1>2. CompletionIsTruthful'
  BY CompletionStep
<1>3. QED
  BY <1>1, <1>2 DEF WaitsInv


-----------------------------------------------------------------------------
(* What is on the way to the peer. *)

\* Writing a fragment moves it from the buffer to the controller: the pipeline is the same.
LEMMA PipelineSent ==
  ASSUME NEW c \in Seq(Fragment), NEW b \in Seq(Fragment), b # <<>>
  PROVE  Append(c, Head(b)) \o Tail(b) = c \o b
<1> DEFINE d == Append(c, Head(b))
           t == Tail(b)
<1>1. /\ Head(b) \in Fragment /\ Head(b) = b[1] /\ t \in Seq(Fragment) /\ Len(b) \in Nat \ {0}
      /\ Len(t) = Len(b) - 1 /\ \A i \in 1 .. Len(t) : t[i] = b[i + 1]
  BY HeadTailProperties, EmptySeq
<1>2. /\ d \in Seq(Fragment) /\ Len(c) \in Nat /\ Len(d) = Len(c) + 1 /\ d[Len(c) + 1] = b[1]
      /\ \A i \in 1 .. Len(c) : d[i] = c[i]
  BY <1>1, AppendProperties
<1> HIDE DEF d, t
<1>3. /\ d \o t \in Seq(Fragment) /\ Len(d \o t) = Len(d) + Len(t)
      /\ \A i \in 1 .. Len(d) + Len(t) :
           (d \o t)[i] = IF i <= Len(d) THEN d[i] ELSE t[i - Len(d)]
  BY <1>1, <1>2, ConcatProperties
<1>4. /\ c \o b \in Seq(Fragment) /\ Len(c \o b) = Len(c) + Len(b)
      /\ \A i \in 1 .. Len(c) + Len(b) :
           (c \o b)[i] = IF i <= Len(c) THEN c[i] ELSE b[i - Len(c)]
  BY ConcatProperties
<1>5. Len(d \o t) = Len(c \o b) /\ Len(d) + Len(t) = Len(c) + Len(b)
  BY <1>1, <1>2, <1>3, <1>4
<1>6. ASSUME NEW i \in 1 .. Len(c) + Len(b)
      PROVE  (d \o t)[i] = (c \o b)[i]
  <2>1. CASE i \in 1 .. Len(c)
    <3>1. (d \o t)[i] = d[i] /\ (c \o b)[i] = c[i]
      BY <1>2, <1>3, <1>4, <1>5, <2>1
    <3>2. QED
      BY <1>2, <2>1, <3>1
  <2>2. CASE i = Len(c) + 1
    <3>1. (d \o t)[i] = d[i] /\ (c \o b)[i] = b[i - Len(c)] /\ i - Len(c) = 1
      BY <1>2, <1>3, <1>4, <1>5, <2>2
    <3>2. QED
      BY <1>2, <2>2, <3>1
  <2>3. CASE i > Len(c) + 1
    <3>1. /\ (d \o t)[i] = t[i - Len(d)] /\ (c \o b)[i] = b[i - Len(c)]
          /\ i - Len(d) \in 1 .. Len(t) /\ (i - Len(d)) + 1 = i - Len(c)
      BY <1>1, <1>2, <1>3, <1>4, <1>5, <2>3
    <3>2. QED
      BY <1>1, <3>1
  <2>4. QED
    BY <1>1, <1>2, <2>1, <2>2, <2>3
<1>7. QED
  BY <1>3, <1>4, <1>5, <1>6, SeqEqual DEF d, t

\* What is left of whole packets when their first fragments are gone.
LEMMA WholeRest ==
  ASSUME NEW p \in Seq(Fragment), NEW q \in Seq(Fragment), NEW n \in Nat, n <= Len(p),
         Len(q) = Len(p) - n, \A i \in 1 .. Len(q) : q[i] = p[n + i], Whole(p),
         NEW state, HandedIn(p, state)
  PROVE  Whole(q) /\ HandedIn(q, state)
<1>1. Len(p) \in Nat /\ Len(q) \in Nat /\ (q # <<>> => Len(q) # 0)
  BY LenProperties, EmptySeq
<1>2. ASSUME NEW i \in 1 .. Len(q) - 1
      PROVE  IF q[i].isLast THEN q[i + 1].isFirst /\ q[i].sdu < q[i + 1].sdu
                            ELSE ~q[i + 1].isFirst /\ q[i].sdu = q[i + 1].sdu
  <2>1. n + i \in 1 .. Len(p) - 1 /\ i \in 1 .. Len(q) /\ i + 1 \in 1 .. Len(q)
        /\ n + (i + 1) = (n + i) + 1
    BY <1>1
  <2>2. q[i] = p[n + i] /\ q[i + 1] = p[(n + i) + 1]
    BY <2>1
  <2>3. QED
    BY <2>1, <2>2 DEF Whole
<1>3. ASSUME q # <<>>
      PROVE  q[Len(q)].isLast
  <2>1. Len(q) \in 1 .. Len(q) /\ n + Len(q) = Len(p) /\ Len(p) # 0
    BY <1>1, <1>3
  <2>2. q[Len(q)] = p[Len(p)]
    BY <2>1
  <2>3. p # <<>>
    BY <2>1
  <2>4. QED
    BY <2>2, <2>3 DEF Whole
<1>4. \A i \in 1 .. Len(q) : n + i \in 1 .. Len(p)
  BY <1>1
<1>5. HandedIn(q, state)
  BY <1>4 DEF HandedIn
<1>6. QED
  BY <1>2, <1>3, <1>5 DEF Whole

\* The fragments of a packet: the first is marked, and so is the last.
LEMMA FragmentElements ==
  ASSUME NEW s \in Sdus, NEW n \in 1 .. MaxFragments
  PROVE  /\ n \in Nat \ {0} /\ Fragments(s, n) \in Seq(Fragment) /\ Len(Fragments(s, n)) = n
         /\ \A i \in 1 .. n :
              /\ Fragments(s, n)[i].sdu = s
              /\ i = 1 => Fragments(s, n)[i].isFirst
              /\ i # 1 => ~Fragments(s, n)[i].isFirst
              /\ i = n => Fragments(s, n)[i].isLast
              /\ i # n => ~Fragments(s, n)[i].isLast
<1>1. n \in Nat \ {0}
  BY AclAssumption
<1>2. Fragments(s, n) \in Seq(Fragment)
  BY FragmentsType
<1>3. Len(Fragments(s, n)) = n
  <2>1. DOMAIN Fragments(s, n) = 1 .. n
    BY DEF Fragments
  <2>2. DOMAIN Fragments(s, n) = 1 .. Len(Fragments(s, n)) /\ Len(Fragments(s, n)) \in Nat
    BY <1>2, LenProperties
  <2>3. QED
    BY <1>1, <2>1, <2>2
<1>4. ASSUME NEW i \in 1 .. n
      PROVE  /\ Fragments(s, n)[i].sdu = s
             /\ i = 1 => Fragments(s, n)[i].isFirst
             /\ i # 1 => ~Fragments(s, n)[i].isFirst
             /\ i = n => Fragments(s, n)[i].isLast
             /\ i # n => ~Fragments(s, n)[i].isLast
  <2> DEFINE a == i = 1
             b == i = n
             x == Fragments(s, n)[i]
  <2>1. x = [sdu |-> s, isFirst |-> a, isLast |-> b] /\ a \in BOOLEAN /\ b \in BOOLEAN
    BY DEF Fragments
  <2> HIDE DEF a, b, x
  <2>2. x.sdu = s /\ x.isFirst = a /\ x.isLast = b
    BY <2>1
  <2>3. x.sdu = s /\ (a => x.isFirst) /\ (~a => ~x.isFirst) /\ (b => x.isLast) /\ (~b => ~x.isLast)
    BY <2>1, <2>2
  <2>4. QED
    BY <2>3, Zenon DEF a, b, x
<1>5. QED
  BY <1>1, <1>2, <1>3, <1>4

\* Every packet in a queue is one of the packets there are, and was handed in if all were.
LEMMA HandedInElement ==
  ASSUME NEW p \in Seq(Fragment), NEW state, HandedIn(p, state), NEW i \in 1 .. Len(p)
  PROVE  p[i].sdu \in Sdus /\ state[p[i].sdu] # "new"
<1>1. p[i] \in Fragment
  BY ElementOfSeq
<1>2. p[i].sdu \in Sdus
  BY <1>1 DEF Fragment
<1>3. QED
  BY <1>2 DEF HandedIn

\* A packet that is handed in is whole, and comes after those handed in before.
LEMMA WholeSent ==
  ASSUME NEW p \in Seq(Fragment), NEW s \in Sdus, NEW n \in 1 .. MaxFragments,
         NEW state \in [Sdus -> {"new", "queued", "sent", "complete", "gone"}],
         state[s] = "new", InTurn(state), Whole(p), HandedIn(p, state)
  PROVE  Whole(p \o Fragments(s, n))
<1> DEFINE f == Fragments(s, n)
           q == p \o f
<1>1. /\ n \in Nat \ {0} /\ f \in Seq(Fragment) /\ Len(f) = n
      /\ \A i \in 1 .. n :
           /\ f[i].sdu = s
           /\ i = 1 => f[i].isFirst
           /\ i # 1 => ~f[i].isFirst
           /\ i = n => f[i].isLast
           /\ i # n => ~f[i].isLast
  BY FragmentElements
<1> HIDE DEF f
<1>2. /\ q \in Seq(Fragment) /\ Len(q) = Len(p) + n
      /\ \A i \in 1 .. Len(p) + n : q[i] = IF i <= Len(p) THEN p[i] ELSE f[i - Len(p)]
  <2>1. f \in Seq(Fragment) /\ Len(f) = n
    BY <1>1
  <2>2. QED
    BY <2>1, ConcatProperties
<1> HIDE DEF q
<1>3. Len(p) \in Nat /\ (Len(p) # 0 => p # <<>>)
  BY LenProperties, EmptySeq
<1>4. \A i \in 1 .. Len(p) : q[i] = p[i]
  BY <1>1, <1>2, <1>3
<1>5. ASSUME NEW i \in 1 .. n
      PROVE  /\ q[Len(p) + i].sdu = s
             /\ i = 1 => q[Len(p) + i].isFirst
             /\ i # 1 => ~q[Len(p) + i].isFirst
             /\ i = n => q[Len(p) + i].isLast
             /\ i # n => ~q[Len(p) + i].isLast
  <2>1. Len(p) + i \in 1 .. Len(p) + n /\ ~(Len(p) + i <= Len(p)) /\ Len(p) + i - Len(p) = i
    BY <1>1, <1>3
  <2>2. q[Len(p) + i] = f[i]
    BY <1>2, <2>1
  <2>3. QED
    BY <1>1, <2>2, Zenon
<1>6. ASSUME NEW i \in 1 .. Len(p)
      PROVE  p[i].sdu < s
  <2>1. p[i].sdu \in Sdus /\ state[p[i].sdu] # "new"
    BY HandedInElement
  <2>2. ~(s < p[i].sdu) /\ s # p[i].sdu
    BY <2>1 DEF InTurn
  <2>3. s \in Nat /\ p[i].sdu \in Nat
    BY <2>1 DEF Sdus
  <2>4. QED
    BY <2>2, <2>3
<1>7. ASSUME NEW i \in 1 .. Len(q) - 1
      PROVE  IF q[i].isLast THEN q[i + 1].isFirst /\ q[i].sdu < q[i + 1].sdu
                            ELSE ~q[i + 1].isFirst /\ q[i].sdu = q[i + 1].sdu
  <2>1. CASE i < Len(p)
    <3>1. i \in 1 .. Len(p) /\ i + 1 \in 1 .. Len(p) /\ i \in 1 .. Len(p) - 1
      BY <1>3, <2>1
    <3>2. q[i] = p[i] /\ q[i + 1] = p[i + 1]
      BY <1>4, <3>1
    <3>3. QED
      BY <3>1, <3>2 DEF Whole
  <2>2. CASE i = Len(p)
    <3>1. i \in 1 .. Len(p) /\ 1 \in 1 .. n /\ p # <<>>
      BY <1>1, <1>3, <2>2
    <3>2. q[i] = p[i] /\ p[i].isLast /\ p[i].sdu < s
      BY <1>4, <1>6, <2>2, <3>1 DEF Whole
    <3>3. q[i + 1].isFirst /\ q[i + 1].sdu = s
      BY <1>5, <2>2, <3>1
    <3>4. QED
      BY <3>2, <3>3
  <2>3. CASE i > Len(p)
    <3> DEFINE m == i - Len(p)
    <3>1. m \in 1 .. n /\ m + 1 \in 1 .. n /\ m # n /\ m + 1 # 1
          /\ Len(p) + m = i /\ Len(p) + (m + 1) = i + 1
      BY <1>1, <1>2, <1>3, <2>3
    <3> HIDE DEF m
    <3>2. q[i].sdu = s /\ ~q[i].isLast
      BY <1>5, <3>1
    <3>3. q[i + 1].sdu = s /\ ~q[i + 1].isFirst
      BY <1>5, <3>1
    <3>4. QED
      BY <3>2, <3>3
  <2>4. QED
    BY <1>3, <2>1, <2>2, <2>3
<1>8. q[Len(q)].isLast
  <2>1. n \in 1 .. n /\ Len(q) = Len(p) + n
    BY <1>1, <1>2
  <2>2. QED
    BY <1>5, <2>1
<1>9. QED
  BY <1>7, <1>8 DEF Whole, q, f

\* A packet that is handed in joins those that were.
LEMMA HandedInSent ==
  ASSUME NEW p \in Seq(Fragment), NEW s \in Sdus, NEW n \in 1 .. MaxFragments,
         NEW state \in [Sdus -> {"new", "queued", "sent", "complete", "gone"}],
         HandedIn(p, state)
  PROVE  HandedIn(p \o Fragments(s, n), [state EXCEPT ![s] = "queued"])
<1> DEFINE f == Fragments(s, n)
           q == p \o f
           after == [state EXCEPT ![s] = "queued"]
<1>1. /\ f \in Seq(Fragment) /\ Len(f) = n /\ n \in Nat \ {0}
      /\ \A i \in 1 .. n : f[i].sdu = s
  BY FragmentElements
<1> HIDE DEF f
<1>2. /\ q \in Seq(Fragment) /\ Len(q) = Len(p) + n
      /\ \A i \in 1 .. Len(p) + n : q[i] = IF i <= Len(p) THEN p[i] ELSE f[i - Len(p)]
  BY <1>1, ConcatProperties
<1> HIDE DEF q
<1>3. Len(p) \in Nat
  BY LenProperties
<1>4. \A t \in Sdus : state[t] # "new" \/ t = s => after[t] # "new"
  OBVIOUS
<1> HIDE DEF after
<1>5. ASSUME NEW i \in 1 .. Len(q)
      PROVE  after[q[i].sdu] # "new"
  <2>1. CASE i <= Len(p)
    <3>1. i \in 1 .. Len(p) /\ q[i] = p[i]
      BY <1>2, <1>3, <2>1
    <3>2. p[i].sdu \in Sdus /\ state[p[i].sdu] # "new"
      BY <3>1, HandedInElement
    <3>3. QED
      BY <1>4, <3>1, <3>2
  <2>2. CASE ~(i <= Len(p))
    <3>1. i - Len(p) \in 1 .. n /\ q[i] = f[i - Len(p)]
      BY <1>1, <1>2, <1>3, <2>2
    <3>2. QED
      BY <1>1, <1>4, <3>1
  <2>3. QED
    BY <2>1, <2>2
<1>6. QED
  BY <1>5 DEF HandedIn, q, after, f


-----------------------------------------------------------------------------
(* Packets are handed in, and reach the peer, in order. *)

HistoryType == [Sdus -> {"new", "queued", "sent", "complete", "gone"}]

\* A packet that was handed in stays so, and the callbacks that are called are those of
\* packets handed in: none but sendData makes a packet other than new.
LEMMA HistoryStep ==
  ASSUME Shape, OrderInv, [Next]_vars
  PROVE  /\ \A s \in Sdus : sduState[s] # "new" => sduState'[s] # "new"
         /\ \/ \A s \in Sdus : sduState'[s] = "new" <=> sduState[s] = "new"
            \/ \E h \in Handle, s \in Sdus, n \in 1 .. MaxFragments : SendData(h, s, n)
<1> USE DEF hostVars, controllerVars, historyVars
<1> DEFINE Stays == \A s \in Sdus : sduState'[s] = "new" <=> sduState[s] = "new"
<1>1. sduState \in HistoryType
  BY DEF Shape, HistoryType
<1>2. ASSUME NEW h \in Handle, LoopSends(h)
      PROVE  Stays
  <2> DEFINE item == Head(outgoingL2CAPBuffer[h])
             b == outgoingL2CAPBuffer[h]
  <2>1. b \in Seq(Fragment) /\ b # <<>> /\ HandedIn(b, sduState)
    BY <1>2 DEF LoopSends, Candidates, Shape, OrderInv
  <2>2. item = b[1] /\ 1 \in 1 .. Len(b)
    BY <2>1, EmptySeq, HeadTailProperties
  <2>3. item.sdu \in Sdus /\ sduState[item.sdu] # "new"
    <3> HIDE DEF b
    <3>1. b[1].sdu \in Sdus /\ sduState[b[1].sdu] # "new"
      BY <2>1, <2>2, HandedInElement
    <3>2. QED
      BY <2>2, <3>1
  <2>4. sduState' = IF item.isLast THEN [sduState EXCEPT ![item.sdu] = "sent"] ELSE sduState
    BY <1>2 DEF LoopSends
  <2> HIDE DEF item
  <2>5. QED
    BY <1>1, <2>3, <2>4 DEF HistoryType
<1>3. CASE HandleNumberOfCompletePackets
  <2> DEFINE count == Head(hciEvents).count
             completed == UNION {CallbacksOf(h, NumCompleted(h, count)) : h \in Handle}
  <2>1. sduState' = [s \in Sdus |-> IF s \in completed THEN "complete" ELSE sduState[s]]
    BY <1>3 DEF HandleNumberOfCompletePackets
  <2>2. ASSUME NEW s \in Sdus, s \in completed
        PROVE  sduState[s] # "new"
    <3>1. PICK h \in Handle : s \in CallbacksOf(h, NumCompleted(h, count))
      BY <2>2
    <3> DEFINE w == outgoingL2CAPPacketsInController[h]
               n == NumCompleted(h, count)
    <3>2. PICK i \in 1 .. n : s = w[i] /\ s # NoCallback
      BY <3>1 DEF CallbacksOf
    <3>3. n \in Nat /\ n <= Len(w) /\ Len(w) \in Nat
      <4>1. count \in [Handle -> Nat]
        BY <1>3, ReceiveProperties DEF HandleNumberOfCompletePackets, Shape
      <4>2. w \in Seq(Sdus \cup {NoCallback})
        BY DEF Shape
      <4>3. QED
        BY <4>1, <4>2, NumCompletedBounded, LenProperties
    <3>4. CalledFor(w, sduState)
      BY DEF OrderInv
    <3> HIDE DEF n, w
    <3>5. i \in 1 .. Len(w)
      BY <3>2, <3>3
    <3>6. QED
      BY <3>2, <3>4, <3>5 DEF CalledFor
  <2> HIDE DEF completed
  <2>3. Stays
    BY <2>1, <2>2
  <2>4. QED
    BY <2>3
<1>4. CASE HandleDisconnectionComplete
  BY <1>1, <1>4 DEF HandleDisconnectionComplete, HistoryType
<1>5. ASSUME NEW h \in Handle, NEW s \in Sdus, NEW n \in 1 .. MaxFragments, SendData(h, s, n)
      PROVE  \A t \in Sdus : sduState[t] # "new" => sduState'[t] # "new"
  BY <1>1, <1>5 DEF SendData, HistoryType
<1>6. CASE UNCHANGED sduState
  BY <1>6
<1>7. Stays \/ \E h \in Handle, s \in Sdus, n \in 1 .. MaxFragments : SendData(h, s, n)
  BY <1>2, <1>3, <1>4, <1>6
     DEF Next, HostStep, Controller, Application, CallbackReturns, LoopEnds, Stop,
         HandleLeConnectionComplete, LinkUp, LinkDown, CompletePackets, vars
<1>8. QED
  BY <1>5, <1>7

\* The packets are handed in by their numbers.
LEMMA InTurnStep ==
  ASSUME Shape, OrderInv, [Next]_vars
  PROVE  InTurn(sduState')
<1>1. InTurn(sduState) /\ sduState \in HistoryType
  BY DEF OrderInv, Shape, HistoryType
<1>2. CASE \A s \in Sdus : sduState'[s] = "new" <=> sduState[s] = "new"
  BY <1>1, <1>2 DEF InTurn
<1>3. ASSUME NEW h \in Handle, NEW s \in Sdus, NEW n \in 1 .. MaxFragments, SendData(h, s, n)
      PROVE  InTurn(sduState')
  <2>1. /\ sduState[s] = "new" /\ \A t \in 1 .. s - 1 : sduState[t] # "new"
        /\ sduState' = [sduState EXCEPT ![s] = "queued"]
    BY <1>3 DEF SendData
  <2>2. ASSUME NEW t \in Sdus, NEW u \in Sdus, t < u, sduState'[t] = "new"
        PROVE  sduState'[u] = "new"
    <3>1. t # s /\ sduState[t] = "new"
      BY <1>1, <2>1, <2>2 DEF HistoryType
    <3>2. s < t
      BY <2>1, <3>1 DEF Sdus
    <3>3. u # s /\ sduState[u] = "new"
      <4>1. s < u
        BY <2>2, <3>2 DEF Sdus
      <4>2. u # s
        BY <4>1 DEF Sdus
      <4>3. QED
        BY <1>1, <2>2, <3>1, <4>2 DEF InTurn
    <3>4. QED
      BY <1>1, <2>1, <3>3 DEF HistoryType
  <2>3. QED
    BY <2>2 DEF InTurn
<1>4. QED
  BY <1>2, <1>3, HistoryStep


\* What was handed in stays handed in.
LEMMA HandedInStays ==
  ASSUME NEW p \in Seq(Fragment), NEW state, NEW after, HandedIn(p, state),
         \A s \in Sdus : state[s] # "new" => after[s] # "new"
  PROVE  HandedIn(p, after)
<1>1. \A i \in 1 .. Len(p) : p[i].sdu \in Sdus /\ state[p[i].sdu] # "new"
  BY HandedInElement
<1>2. QED
  BY <1>1 DEF HandedIn

\* The callbacks called for packets handed in stay so.
LEMMA CalledForStays ==
  ASSUME NEW w \in Seq(Callbacks), NEW state, NEW after, CalledFor(w, state),
         \A s \in Sdus : state[s] # "new" => after[s] # "new"
  PROVE  CalledFor(w, after)
<1>1. \A i \in 1 .. Len(w) : w[i] \in Sdus \/ w[i] = NoCallback
  BY ElementOfSeq DEF Callbacks
<1>2. QED
  BY <1>1 DEF CalledFor

\* The fragments in the buffers are of packets that were handed in.
LEMMA BufferStep ==
  ASSUME Shape, OrderInv, [Next]_vars, NEW h \in Handle
  PROVE  HandedIn(outgoingL2CAPBuffer'[h], sduState')
<1> USE DEF hostVars, controllerVars, historyVars
<1> DEFINE b == outgoingL2CAPBuffer[h]
<1>1. /\ b \in Seq(Fragment) /\ HandedIn(b, sduState) /\ sduState \in HistoryType
      /\ outgoingL2CAPBuffer \in [Handle -> Seq(Fragment)]
  BY DEF Shape, OrderInv, HistoryType
<1>2. \A s \in Sdus : sduState[s] # "new" => sduState'[s] # "new"
  BY HistoryStep
<1>3. HandedIn(b, sduState')
  <2> HIDE DEF b
  <2>1. QED
    BY <1>1, <1>2, HandedInStays
<1>4. CASE outgoingL2CAPBuffer'[h] = b
  BY <1>3, <1>4
<1>5. CASE outgoingL2CAPBuffer'[h] = <<>>
  BY <1>5 DEF HandedIn
<1>6. ASSUME NEW g \in Handle, LoopSends(g)
      PROVE  HandedIn(outgoingL2CAPBuffer'[h], sduState')
  <2>1. CASE g # h
    BY <1>1, <1>4, <1>6, <2>1 DEF LoopSends
  <2>2. CASE g = h
    <3>1. b # <<>> /\ outgoingL2CAPBuffer'[h] = Tail(b)
      BY <1>1, <1>6, <2>2 DEF LoopSends, Candidates
    <3>2. /\ Len(b) \in Nat /\ Len(Tail(b)) = Len(b) - 1
          /\ \A i \in 1 .. Len(Tail(b)) : Tail(b)[i] = b[i + 1]
      BY <1>1, <3>1, HeadTailProperties, LenProperties
    <3>3. \A i \in 1 .. Len(Tail(b)) : i + 1 \in 1 .. Len(b)
      BY <3>2
    <3>4. QED
      BY <1>3, <3>1, <3>2, <3>3 DEF HandedIn
  <2>3. QED
    BY <2>1, <2>2
<1>7. CASE HandleLeConnectionComplete
  BY <1>1, <1>4, <1>5, <1>7 DEF HandleLeConnectionComplete
<1>8. CASE HandleDisconnectionComplete
  BY <1>1, <1>4, <1>5, <1>8 DEF HandleDisconnectionComplete
<1>9. ASSUME NEW g \in Handle, NEW s \in Sdus, NEW n \in 1 .. MaxFragments, SendData(g, s, n)
      PROVE  HandedIn(outgoingL2CAPBuffer'[h], sduState')
  <2>1. CASE g # h
    BY <1>1, <1>4, <1>9, <2>1 DEF SendData
  <2>2. CASE g = h
    <3>1. /\ outgoingL2CAPBuffer'[h] = b \o Fragments(s, n)
          /\ sduState' = [sduState EXCEPT ![s] = "queued"]
      BY <1>1, <1>9, <2>2 DEF SendData, Enqueue
    <3> HIDE DEF b
    <3>2. HandedIn(b \o Fragments(s, n), [sduState EXCEPT ![s] = "queued"])
      BY <1>1, HandedInSent DEF HistoryType
    <3>3. QED
      BY <3>1, <3>2
  <2>3. QED
    BY <2>1, <2>2
<1>10. CASE UNCHANGED outgoingL2CAPBuffer
  BY <1>4, <1>10
<1>11. QED
  BY <1>6, <1>7, <1>8, <1>9, <1>10
     DEF Next, HostStep, Controller, Application, CallbackReturns, LoopEnds, Stop,
         HandleNumberOfCompletePackets, LinkUp, LinkDown, CompletePackets, vars

\* The callbacks the host waits to call are those of packets that were handed in.
LEMMA CallbacksStep ==
  ASSUME Shape, OrderInv, [Next]_vars, NEW h \in Handle
  PROVE  CalledFor(outgoingL2CAPPacketsInController'[h], sduState')
<1> USE DEF hostVars, controllerVars, historyVars
<1> DEFINE w == outgoingL2CAPPacketsInController[h]
<1>1. /\ w \in Seq(Callbacks) /\ CalledFor(w, sduState)
      /\ outgoingL2CAPPacketsInController \in [Handle -> Seq(Callbacks)]
      /\ outgoingL2CAPBuffer \in [Handle -> Seq(Fragment)]
  BY DEF Shape, OrderInv, Callbacks
<1>2. \A s \in Sdus : sduState[s] # "new" => sduState'[s] # "new"
  BY HistoryStep
<1>3. CalledFor(w, sduState')
  <2> HIDE DEF w
  <2>1. QED
    BY <1>1, <1>2, CalledForStays
<1>4. CASE outgoingL2CAPPacketsInController'[h] = w
  BY <1>3, <1>4
<1>5. CASE outgoingL2CAPPacketsInController'[h] = <<>>
  BY <1>5 DEF CalledFor
<1>6. ASSUME NEW g \in Handle, LoopSends(g)
      PROVE  CalledFor(outgoingL2CAPPacketsInController'[h], sduState')
  <2>1. CASE g # h
    BY <1>1, <1>4, <1>6, <2>1 DEF LoopSends
  <2>2. CASE g = h
    <3> DEFINE b == outgoingL2CAPBuffer[h]
               item == Head(b)
               c == CallbackOf(item)
    <3>1. /\ b \in Seq(Fragment) /\ b # <<>> /\ HandedIn(b, sduState)
          /\ outgoingL2CAPPacketsInController'[h] = Append(w, c)
      BY <1>1, <1>6, <2>2 DEF LoopSends, Candidates, OrderInv, CallbackOf
    <3>2. item = b[1] /\ 1 \in 1 .. Len(b) /\ item \in Fragment
      BY <3>1, EmptySeq, HeadTailProperties
    <3>3. item.sdu \in Sdus /\ sduState[item.sdu] # "new"
      <4> HIDE DEF b
      <4>1. b[1].sdu \in Sdus /\ sduState[b[1].sdu] # "new"
        BY <3>1, <3>2, HandedInElement
      <4>2. QED
        BY <3>2, <4>1
    <3>4. c \in Callbacks /\ (c # NoCallback => sduState'[c] # "new")
      <4>1. c \in Callbacks
        BY <3>2, CallbackType
      <4>2. c # NoCallback => c = item.sdu
        BY DEF CallbackOf
      <4>3. QED
        BY <1>2, <3>3, <4>1, <4>2
    <3> HIDE DEF c, w
    <3>5. /\ Len(w) \in Nat /\ Len(Append(w, c)) = Len(w) + 1 /\ Append(w, c)[Len(w) + 1] = c
          /\ \A i \in 1 .. Len(w) : Append(w, c)[i] = w[i]
      BY <1>1, <3>4, AppendProperties
    <3>6. \A i \in 1 .. Len(w) + 1 : i \in 1 .. Len(w) \/ i = Len(w) + 1
      BY <3>5
    <3>7. QED
      BY <1>3, <3>1, <3>4, <3>5, <3>6 DEF CalledFor
  <2>3. QED
    BY <2>1, <2>2
<1>7. CASE HandleLeConnectionComplete
  BY <1>1, <1>4, <1>5, <1>7 DEF HandleLeConnectionComplete
<1>8. CASE HandleDisconnectionComplete
  BY <1>1, <1>4, <1>5, <1>8 DEF HandleDisconnectionComplete
<1>9. CASE HandleNumberOfCompletePackets
  <2> DEFINE n == NumCompleted(h, Head(hciEvents).count)
  <2>1. outgoingL2CAPPacketsInController'[h] = SubSeq(w, n + 1, Len(w))
    BY <1>9 DEF HandleNumberOfCompletePackets
  <2>2. n \in Nat /\ n <= Len(w)
    BY <1>9, ReceiveProperties, NumCompletedBounded DEF HandleNumberOfCompletePackets, Shape
  <2> DEFINE rest == SubSeq(w, n + 1, Len(w))
  <2> HIDE DEF n, w
  <2>3. Len(w) \in Nat /\ Len(rest) = Len(w) - n /\ \A i \in 1 .. Len(w) - n : rest[i] = w[n + i]
    BY <1>1, <2>2, SubSeqFrom, LenProperties
  <2> HIDE DEF rest
  <2>4. \A i \in 1 .. Len(w) - n : n + i \in 1 .. Len(w)
    BY <2>2, <2>3
  <2>5. CalledFor(rest, sduState')
    BY <1>3, <2>3, <2>4 DEF CalledFor
  <2>6. QED
    BY <2>1, <2>5 DEF rest
<1>10. CASE UNCHANGED outgoingL2CAPPacketsInController
  BY <1>4, <1>10
<1>11. QED
  BY <1>6, <1>7, <1>8, <1>9, <1>10
     DEF Next, HostStep, Controller, Application, CallbackReturns, LoopEnds, Stop,
         SendData, LinkUp, LinkDown, CompletePackets, vars


\* What is on the way on a connection stays whole and in order.
LEMMA PipelineStep ==
  ASSUME Shape, Shape', LinksInv, OrderInv, [Next]_vars, NEW h \in links' \cap activeConnections'
  PROVE  Whole(Pipeline(h)') /\ HandedIn(Pipeline(h)', sduState')
<1> USE DEF hostVars, controllerVars, historyVars
<1> DEFINE c == controllerPackets[h]
           b == outgoingL2CAPBuffer[h]
           p == c \o b
<1>1. h \in Handle
  BY DEF Shape
<1>2. /\ c \in Seq(Fragment) /\ b \in Seq(Fragment) /\ sduState \in HistoryType
      /\ controllerPackets \in [Handle -> Seq(Fragment)]
      /\ outgoingL2CAPBuffer \in [Handle -> Seq(Fragment)]
  BY <1>1 DEF Shape, HistoryType
<1>3. \A s \in Sdus : sduState[s] # "new" => sduState'[s] # "new"
  BY HistoryStep
<1>4. Pipeline(h)' = controllerPackets'[h] \o outgoingL2CAPBuffer'[h]
  BY DEF Pipeline
<1>5. p \in Seq(Fragment)
  <2> HIDE DEF c, b
  <2>1. QED
    BY <1>2, ConcatProperties
<1>6. ASSUME h \in links \cap activeConnections
      PROVE  Whole(p) /\ HandedIn(p, sduState) /\ HandedIn(p, sduState')
  <2>1. Whole(p) /\ HandedIn(p, sduState)
    BY <1>6 DEF OrderInv, Pipeline
  <2> HIDE DEF p
  <2>2. HandedIn(p, sduState')
    BY <1>3, <1>5, <2>1, HandedInStays
  <2>3. QED
    BY <2>1, <2>2
<1>7. ASSUME h \in links \cap activeConnections, Pipeline(h)' = p
      PROVE  Whole(Pipeline(h)') /\ HandedIn(Pipeline(h)', sduState')
  BY <1>6, <1>7
<1>8. ASSUME h \in links \cap activeConnections,
             UNCHANGED <<controllerPackets, outgoingL2CAPBuffer>>
      PROVE  Whole(Pipeline(h)') /\ HandedIn(Pipeline(h)', sduState')
  BY <1>4, <1>7, <1>8
<1>9. ASSUME NEW g \in Handle, LoopSends(g)
      PROVE  Whole(Pipeline(h)') /\ HandedIn(Pipeline(h)', sduState')
  <2>1. h \in links \cap activeConnections
    BY <1>9 DEF LoopSends
  <2>2. CASE g # h
    <3>1. controllerPackets'[h] = c /\ outgoingL2CAPBuffer'[h] = b
      BY <1>1, <1>2, <1>9, <2>2 DEF LoopSends
    <3>2. QED
      BY <1>4, <1>7, <2>1, <3>1
  <2>3. CASE g = h
    <3>1. /\ b # <<>> /\ outgoingL2CAPBuffer'[h] = Tail(b)
          /\ controllerPackets'[h] = Append(c, Head(b))
      BY <1>1, <1>2, <1>9, <2>1, <2>3 DEF LoopSends, Candidates
    <3>2. Append(c, Head(b)) \o Tail(b) = c \o b
      <4> HIDE DEF c, b
      <4>1. QED
        BY <1>2, <3>1, PipelineSent
    <3>3. QED
      BY <1>4, <1>7, <2>1, <3>1, <3>2
  <2>4. QED
    BY <2>2, <2>3
<1>10. CASE HandleLeConnectionComplete
  <2> DEFINE g == Head(hciEvents).handle
  <2>1. /\ UNCHANGED <<links, controllerPackets>> /\ g \notin activeConnections
        /\ activeConnections' = activeConnections \cup {g}
        /\ outgoingL2CAPBuffer' = [outgoingL2CAPBuffer EXCEPT ![g] = <<>>]
    BY <1>10 DEF HandleLeConnectionComplete
  <2>2. CASE g = h
    <3>1. controllerPackets'[h] = <<>> /\ outgoingL2CAPBuffer'[h] = <<>>
      BY <1>1, <1>2, <2>1, <2>2 DEF LinksInv
    <3>2. <<>> \in Seq(Fragment)
      BY EmptySeq
    <3>3. <<>> \o <<>> = <<>>
      BY <3>2, ConcatEmptySeq
    <3>4. Pipeline(h)' = <<>>
      BY <1>4, <3>1, <3>3
    <3>5. Len(<<>>) = 0
      OBVIOUS
    <3>6. Whole(<<>>) /\ HandedIn(<<>>, sduState')
      BY <3>5 DEF Whole, HandedIn
    <3>7. QED
      BY <3>4, <3>6
  <2>3. CASE g # h
    <3>1. outgoingL2CAPBuffer'[h] = b /\ controllerPackets'[h] = c
      BY <1>1, <1>2, <2>1, <2>3
    <3>2. h \in links \cap activeConnections
      BY <2>1, <2>3
    <3>3. QED
      BY <1>4, <1>7, <3>1, <3>2
  <2>4. QED
    BY <2>2, <2>3
<1>11. CASE HandleDisconnectionComplete
  <2> DEFINE g == Head(hciEvents).handle
  <2>1. /\ UNCHANGED <<links, controllerPackets>>
        /\ activeConnections' = activeConnections \ {g}
        /\ outgoingL2CAPBuffer' = [outgoingL2CAPBuffer EXCEPT ![g] = <<>>]
    BY <1>11 DEF HandleDisconnectionComplete
  <2>2. h # g /\ h \in links \cap activeConnections
    BY <2>1
  <2>3. outgoingL2CAPBuffer'[h] = b /\ controllerPackets'[h] = c
    BY <1>1, <1>2, <2>1, <2>2
  <2>4. QED
    BY <1>4, <1>7, <2>2, <2>3
<1>12. CASE HandleNumberOfCompletePackets
  <2>1. UNCHANGED <<links, activeConnections, controllerPackets, outgoingL2CAPBuffer>>
    BY <1>12 DEF HandleNumberOfCompletePackets
  <2>2. QED
    BY <1>8, <2>1
<1>13. ASSUME NEW g \in Handle, LinkUp(g)
       PROVE  Whole(Pipeline(h)') /\ HandedIn(Pipeline(h)', sduState')
  <2>1. /\ links' = links \cup {g} /\ g \notin activeConnections
        /\ UNCHANGED <<activeConnections, controllerPackets, outgoingL2CAPBuffer>>
    BY <1>13 DEF LinkUp, HandleIsFree
  <2>2. h \in links \cap activeConnections
    BY <2>1
  <2>3. QED
    BY <1>8, <2>1, <2>2
<1>14. ASSUME NEW g \in Handle, LinkDown(g)
       PROVE  Whole(Pipeline(h)') /\ HandedIn(Pipeline(h)', sduState')
  <2>1. /\ links' = links \ {g} /\ UNCHANGED <<activeConnections, outgoingL2CAPBuffer>>
        /\ controllerPackets' = [controllerPackets EXCEPT ![g] = <<>>]
    BY <1>14 DEF LinkDown
  <2>2. h # g /\ h \in links \cap activeConnections
    BY <2>1
  <2>3. outgoingL2CAPBuffer'[h] = b /\ controllerPackets'[h] = c
    BY <1>1, <1>2, <2>1, <2>2
  <2>4. QED
    BY <1>4, <1>7, <2>2, <2>3
<1>15. ASSUME NEW n \in [Handle -> 0 .. NumPackets], CompletePackets(n)
       PROVE  Whole(Pipeline(h)') /\ HandedIn(Pipeline(h)', sduState')
  <2> DEFINE m == n[h]
             rest == SubSeq(c, m + 1, Len(c))
             q == rest \o b
  <2>1. /\ UNCHANGED <<links, activeConnections, outgoingL2CAPBuffer>>
        /\ controllerPackets'[h] = rest /\ m <= Len(c) /\ m \in Nat
    <3>1. UNCHANGED <<links, activeConnections, outgoingL2CAPBuffer>>
      BY <1>15 DEF CompletePackets
    <3>2. controllerPackets'[h] = SubSeq(c, n[h] + 1, Len(c)) /\ n[h] <= Len(c)
      BY <1>1, <1>15 DEF CompletePackets
    <3>3. n[h] \in Nat
      BY <1>1, AclAssumption
    <3>4. QED
      BY <3>1, <3>2, <3>3
  <2>2. h \in links \cap activeConnections
    BY <2>1
  <2>3. Pipeline(h)' = q
    BY <1>4, <2>1
  <2> HIDE DEF m, c, b
  <2>4. /\ rest \in Seq(Fragment) /\ Len(rest) = Len(c) - m /\ Len(c) \in Nat
        /\ \A i \in 1 .. Len(c) - m : rest[i] = c[m + i]
    BY <1>2, <2>1, SubSeqFrom, LenProperties
  <2> HIDE DEF rest
  <2>5. /\ q \in Seq(Fragment) /\ Len(q) = Len(rest) + Len(b) /\ Len(b) \in Nat
        /\ \A i \in 1 .. Len(rest) + Len(b) :
             q[i] = IF i <= Len(rest) THEN rest[i] ELSE b[i - Len(rest)]
    BY <1>2, <2>4, ConcatProperties, LenProperties
  <2>6. /\ Len(p) = Len(c) + Len(b)
        /\ \A i \in 1 .. Len(c) + Len(b) :
             p[i] = IF i <= Len(c) THEN c[i] ELSE b[i - Len(c)]
    BY <1>2, ConcatProperties
  <2> HIDE DEF q, p
  <2>7. Len(q) = Len(p) - m /\ m <= Len(p)
    BY <2>1, <2>4, <2>5, <2>6
  <2>8. ASSUME NEW i \in 1 .. Len(q)
        PROVE  q[i] = p[m + i]
    <3>1. CASE i <= Len(rest)
      <4>1. q[i] = rest[i] /\ rest[i] = c[m + i]
        BY <2>1, <2>4, <2>5, <3>1
      <4>2. m + i \in 1 .. Len(c) + Len(b) /\ m + i <= Len(c)
        BY <2>1, <2>4, <2>5, <3>1
      <4>3. QED
        BY <2>6, <4>1, <4>2
    <3>2. CASE ~(i <= Len(rest))
      <4>1. q[i] = b[i - Len(rest)]
        BY <2>5, <3>2
      <4>2. /\ m + i \in 1 .. Len(c) + Len(b) /\ ~(m + i <= Len(c))
            /\ (m + i) - Len(c) = i - Len(rest)
        BY <2>1, <2>4, <2>5, <3>2
      <4>3. p[m + i] = b[(m + i) - Len(c)]
        BY <2>6, <4>2
      <4>4. QED
        BY <4>1, <4>2, <4>3
    <3>3. QED
      BY <3>1, <3>2
  <2>9. Whole(q) /\ HandedIn(q, sduState')
    <3>1. Whole(p) /\ HandedIn(p, sduState')
      BY <1>6, <2>2
    <3>2. QED
      BY <1>5, <2>1, <2>5, <2>7, <2>8, <3>1, WholeRest
  <2>10. QED
    BY <2>3, <2>9
<1>16. ASSUME NEW g \in Handle, NEW s \in Sdus, NEW n \in 1 .. MaxFragments, SendData(g, s, n)
       PROVE  Whole(Pipeline(h)') /\ HandedIn(Pipeline(h)', sduState')
  <2>1. /\ UNCHANGED <<links, activeConnections, controllerPackets>>
        /\ sduState' = [sduState EXCEPT ![s] = "queued"] /\ sduState[s] = "new"
    BY <1>16 DEF SendData
  <2>2. h \in links \cap activeConnections
    BY <2>1
  <2>3. CASE g # h
    <3>1. outgoingL2CAPBuffer'[h] = b /\ controllerPackets'[h] = c
      BY <1>1, <1>2, <1>16, <2>1, <2>3 DEF SendData
    <3>2. QED
      BY <1>4, <1>7, <2>2, <3>1
  <2>4. CASE g = h
    <3> DEFINE f == Fragments(s, n)
    <3>1. outgoingL2CAPBuffer'[h] = b \o f /\ controllerPackets'[h] = c
      BY <1>1, <1>2, <1>16, <2>1, <2>4 DEF SendData, Enqueue
    <3>2. f \in Seq(Fragment)
      BY FragmentsType
    <3>3. Pipeline(h)' = p \o f
      <4>1. Pipeline(h)' = c \o (b \o f)
        BY <1>4, <3>1
      <4> HIDE DEF c, b, f
      <4>2. (c \o b) \o f = c \o (b \o f)
        BY <1>2, <3>2, ConcatAssociative
      <4>3. QED
        BY <4>1, <4>2
    <3>4. Whole(p) /\ HandedIn(p, sduState) /\ InTurn(sduState)
      BY <1>6, <2>2 DEF OrderInv
    <3> HIDE DEF f, p
    <3>5. Whole(p \o Fragments(s, n))
      BY <1>2, <1>5, <2>1, <3>4, WholeSent DEF HistoryType
    <3>6. HandedIn(p \o Fragments(s, n), [sduState EXCEPT ![s] = "queued"])
      BY <1>2, <1>5, <3>4, HandedInSent DEF HistoryType
    <3>7. QED
      BY <2>1, <3>3, <3>5, <3>6 DEF f
  <2>5. QED
    BY <2>3, <2>4
<1>17. ASSUME UNCHANGED <<links, activeConnections, controllerPackets, outgoingL2CAPBuffer>>
       PROVE  Whole(Pipeline(h)') /\ HandedIn(Pipeline(h)', sduState')
  <2>1. h \in links \cap activeConnections
    BY <1>17
  <2>2. QED
    BY <1>8, <1>17, <2>1
<1>18. QED
  BY <1>9, <1>10, <1>11, <1>12, <1>13, <1>14, <1>15, <1>16, <1>17
     DEF Next, HostStep, Controller, Application, CallbackReturns, LoopEnds, Stop, vars

\* Every step keeps OrderInv.
LEMMA OrderStep ==
  ASSUME Shape, Shape', LinksInv, OrderInv, [Next]_vars
  PROVE  OrderInv'
<1>1. \A h \in links' \cap activeConnections' :
        Whole(Pipeline(h)') /\ HandedIn(Pipeline(h)', sduState')
  BY PipelineStep
<1>2. \A h \in Handle : /\ HandedIn(outgoingL2CAPBuffer'[h], sduState')
                        /\ CalledFor(outgoingL2CAPPacketsInController'[h], sduState')
  BY BufferStep, CallbacksStep
<1>3. InTurn(sduState')
  BY InTurnStep
<1>4. QED
  BY <1>1, <1>2, <1>3 DEF OrderInv


\* Nothing is under way at first.
LEMMA InitFlow == Init => LinksInv /\ WaitsInv /\ OrderInv
<1> SUFFICES ASSUME Init PROVE LinksInv /\ WaitsInv /\ OrderInv
  OBVIOUS
<1>1. /\ hciEvents = <<>> /\ links = {} /\ activeConnections = {} /\ Len(<<>>) = 0
      /\ \A h \in Handle : /\ controllerPackets[h] = <<>> /\ outgoingL2CAPBuffer[h] = <<>>
                           /\ outgoingL2CAPPacketsInController[h] = <<>>
      /\ \A s \in Sdus : sduState[s] = "new"
  BY DEF Init
<1>2. LinksInv
  BY <1>1 DEF LinksInv, LinkEvents
<1>3. WaitsInv
  <2>1. ASSUME NEW h \in Handle
        PROVE  HostWaits(h)
    <3>1. <<>> \in Seq(Event)
      BY EmptySeq
    <3>2. Pending(h, <<>>, 0)
      <4>1. \A i \in 1 .. Len(<<>>) : Reports(h, <<>>[i]) = 0
        BY <1>1
      <4>2. QED
        BY <3>1, <4>1, PendingNone
    <3>3. QED
      BY <1>1, <3>2 DEF HostWaits
  <2>2. CompletionIsTruthful
    BY <1>1 DEF CompletionIsTruthful
  <2>3. QED
    BY <2>1, <2>2 DEF WaitsInv
<1>4. OrderInv
  BY <1>1 DEF OrderInv, HandedIn, CalledFor, InTurn
<1>5. QED
  BY <1>2, <1>3, <1>4

\* What the host waits for, packet by packet, is at least what the controller holds, so that
\* the accounting of the host's buffers bounds those of the controller.
LEMMA NeverOverrun ==
  ASSUME FlowInv
  PROVE  ControllerNeverOverrun
<1> DEFINE w == outgoingL2CAPPacketsInController
<1>1. Shape /\ IsFiniteSet(Slots(w)) /\ BufferAccounting
  BY TypeGivesShape DEF FlowInv, IInv
<1>2. /\ controllerPackets \in [Handle -> Seq(Fragment)] /\ w \in [Handle -> Seq(Callbacks)]
      /\ numFreeBuffers \in Nat /\ NumPackets \in Nat
  BY <1>1, AclAssumption DEF Shape, Callbacks
<1>3. ASSUME NEW h \in Handle
      PROVE  Len(controllerPackets[h]) <= Len(w[h])
  <2>1. Len(controllerPackets[h]) \in Nat /\ Len(w[h]) \in Nat
    BY <1>2, LenProperties
  <2>2. CASE h \in links \cap activeConnections
    <3>1. PICK k \in Nat : WaitsFor(w[h], controllerPackets[h], k, h \in links, delivered)
      BY <2>2 DEF FlowInv, WaitsInv, HostWaits
    <3>2. Len(w[h]) = k + Len(controllerPackets[h])
      BY <2>2, <3>1 DEF WaitsFor
    <3>3. QED
      BY <2>1, <3>2
  <2>3. CASE h \notin links \cap activeConnections
    <3>1. Len(controllerPackets[h]) = 0
      BY <2>3 DEF FlowInv, LinksInv
    <3>2. QED
      BY <2>1, <3>1
  <2>4. QED
    BY <2>2, <2>3
<1>4. Slots(controllerPackets) \subseteq Slots(w)
  <2>1. \A h \in Handle : Len(controllerPackets[h]) \in Nat /\ Len(w[h]) \in Nat
    BY <1>2, LenProperties
  <2>2. \A h \in Handle : 1 .. Len(controllerPackets[h]) \subseteq 1 .. Len(w[h])
    BY <1>3, <2>1
  <2>3. QED
    BY <2>2 DEF Slots
<1> HIDE DEF w
<1>5. Cardinality(Slots(controllerPackets)) <= Cardinality(Slots(w))
  BY <1>1, <1>4, FS_Subset
<1>6. Cardinality(Slots(w)) \in Nat /\ Cardinality(Slots(controllerPackets)) \in Nat
  <2>1. IsFiniteSet(Slots(controllerPackets))
    BY <1>1, <1>4, FS_Subset
  <2>2. QED
    BY <1>1, <2>1, FS_CardinalityType
<1>7. numFreeBuffers + Cardinality(Slots(w)) = NumPackets
  BY <1>1 DEF BufferAccounting, w
<1>8. Cardinality(Slots(controllerPackets)) <= NumPackets
  BY <1>2, <1>5, <1>6, <1>7
<1>9. QED
  BY <1>8 DEF ControllerNeverOverrun

\* What PacketsInOrder says follows from the invariant.
LEMMA FlowGivesOrder == FlowInv => PacketsInOrder
<1> SUFFICES ASSUME FlowInv PROVE PacketsInOrder
  OBVIOUS
<1>1. ControllerNeverOverrun
  BY NeverOverrun
<1>2. FragmentsInOrder
  BY DEF FlowInv, OrderInv, Whole, Pipeline, FragmentsInOrder
<1>3. CompletionIsTruthful
  BY DEF FlowInv, WaitsInv
<1>4. QED
  BY <1>1, <1>2, <1>3 DEF PacketsInOrder

\* Every step keeps the invariant, as long as the controller counts right.
LEMMA StepFlow ==
  ASSUME CountsRight, FlowInv, [Next]_vars
  PROVE  FlowInv'
<1>1. IInv /\ LinksInv /\ WaitsInv /\ OrderInv
  BY DEF FlowInv
<1>2. Shape /\ DeadHandlesAreEmpty
  BY <1>1, TypeGivesShape DEF IInv
<1>3. IInv' /\ Shape'
  <2>1. IInv'
    BY <1>1, StepIInv
  <2>2. TypeOK' => Shape'
    BY DEF TypeOK, Shape
  <2>3. QED
    BY <2>1, <2>2 DEF IInv
<1>4. LinksInv'
  BY <1>1, <1>2, LinksStep
<1>5. WaitsInv'
  BY <1>1, <1>2, WaitsStep
<1>6. OrderInv'
  BY <1>1, <1>2, <1>3, OrderStep
<1>7. QED
  BY <1>3, <1>4, <1>5, <1>6 DEF FlowInv

\* With a controller that reports no more than it completed, it is never given more packets
\* than it has room for, the fragments of a connection reach it in the order of the calls of
\* sendData and never interleave, and a completeCallback is called only when the last
\* fragment of its packet was transmitted.
THEOREM AclPacketsInOrder ==
  ASSUME CountsRight
  PROVE  Spec => []PacketsInOrder
<1>1. Init => FlowInv
  BY InitIInv, InitFlow DEF FlowInv
<1>2. FlowInv /\ [Next]_vars => FlowInv'
  BY StepFlow
<1>3. FlowInv => PacketsInOrder
  BY FlowGivesOrder
<1>4. QED
  BY <1>1, <1>2, <1>3, PTL DEF Spec
=============================================================================
