------------------------- MODULE BondStorageProofs --------------------------
(***************************************************************************)
(* Proofs about BondStorage, for any peers, keys, capacity and budgets:    *)
(* what was stored of a bond is what is answered, before and after any     *)
(* restart, and the files of unbonded peers are among those of the cache;  *)
(* about the bounded cache of DuplicateCache; and about two parts that     *)
(* also keep what a peer or a user gave them for later: the long writes    *)
(* that PreparedWrites queues, for any values, lengths and limit, and the  *)
(* answers of the users that SmpPairing's callbacks take, for any offers.  *)
(***************************************************************************)
EXTENDS BondStorage, PreparedWrites, SmpPairing, FiniteSetTheorems, FunctionTheorems, SequenceTheorems,
        WellFoundedInduction, TLAPS

-----------------------------------------------------------------------------
(* A filtered sequence has the chosen elements in the order they had. *)

\* A later position has a higher rank.
LEMMA RankIncreases ==
  ASSUME NEW n \in Nat, NEW I \in SUBSET (1 .. n)
  PROVE  /\ IsFiniteSet(I) /\ Cardinality(I) \in Nat
         /\ \A i \in I : Rank(I, i) \in 1 .. Cardinality(I)
         /\ \A i, j \in I : i < j => Rank(I, i) < Rank(I, j)
<1>1. IsFiniteSet(1 .. n)
  BY FS_Interval
<1>2. IsFiniteSet(I)
  BY <1>1, FS_Subset
<1> DEFINE upTo(i) == {j \in I : j <= i}
<1>3. \A i \in I : /\ IsFiniteSet(upTo(i)) /\ Cardinality(upTo(i)) \in Nat
                   /\ Cardinality(upTo(i)) <= Cardinality(I)
                   /\ Cardinality(upTo(i)) # 0
  <2> TAKE i \in I
  <2>1. upTo(i) \in SUBSET I
    OBVIOUS
  <2>2. IsFiniteSet(upTo(i)) /\ Cardinality(upTo(i)) <= Cardinality(I)
    BY <1>2, <2>1, FS_Subset
  <2>3. i \in upTo(i)
    OBVIOUS
  <2>4. QED
    BY <2>2, <2>3, FS_EmptySet, FS_CardinalityType
<1>4. \A i, j \in I : i < j => Cardinality(upTo(i)) < Cardinality(upTo(j))
  <2> SUFFICES ASSUME NEW i \in I, NEW j \in I, i < j
               PROVE  Cardinality(upTo(i)) < Cardinality(upTo(j))
    OBVIOUS
  <2>1. i \in Nat /\ j \in Nat /\ \A k \in I : k \in Nat
    OBVIOUS
  <2>2. j \in upTo(j) /\ j \notin upTo(i)
    BY <2>1
  <2>3. \A k \in I : k <= i => k <= j
    BY <2>1
  <2>4. upTo(i) \in SUBSET upTo(j)
    BY <2>3
  <2>5. Cardinality(upTo(i)) <= Cardinality(upTo(j)) /\ Cardinality(upTo(i)) # Cardinality(upTo(j))
    BY <1>3, <2>2, <2>4, FS_Subset
  <2>6. QED
    BY <1>3, <2>5
<1>5. Cardinality(I) \in Nat
  BY <1>2, FS_CardinalityType
<1>6. QED
  BY <1>2, <1>3, <1>4, <1>5 DEF Rank

\* Every number up to the size of I is the rank of one element.
LEMMA NthProperties ==
  ASSUME NEW n \in Nat, NEW I \in SUBSET (1 .. n)
  PROVE  /\ \A k \in 1 .. Cardinality(I) : Nth(I, k) \in I /\ Rank(I, Nth(I, k)) = k
         /\ \A i \in I : Nth(I, Rank(I, i)) = i
         /\ \A k, l \in 1 .. Cardinality(I) : k < l <=> Nth(I, k) < Nth(I, l)
<1> DEFINE r == [i \in I |-> Rank(I, i)]
           m == Cardinality(I)
<1>1. /\ IsFiniteSet(I) /\ m \in Nat
      /\ \A i \in I : Rank(I, i) \in 1 .. m
      /\ \A i, j \in I : i < j => Rank(I, i) < Rank(I, j)
  BY RankIncreases
<1>2. \A i, j \in I : Rank(I, i) = Rank(I, j) => i = j
  <2> SUFFICES ASSUME NEW i \in I, NEW j \in I, Rank(I, i) = Rank(I, j), i # j
               PROVE  FALSE
    OBVIOUS
  <2>1. i < j \/ j < i
    OBVIOUS
  <2>2. QED
    BY <1>1, <2>1
<1>3. r \in Injection(I, 1 .. m)
  BY <1>1, <1>2 DEF Injection, IsInjective
<1>4. IsFiniteSet(1 .. m) /\ Cardinality(1 .. m) = m
  <2> HIDE DEF m
  <2>1. m \in Int /\ 1 \in Int
    BY <1>1
  <2>2. IsFiniteSet(1 .. m) /\ Cardinality(1 .. m) = IF 1 > m THEN 0 ELSE m - 1 + 1
    BY <2>1, FS_Interval
  <2>3. QED
    BY <1>1, <2>2
<1>5. r \in Surjection(I, 1 .. m)
  BY <1>1, <1>3, <1>4, FS_Injection
<1>6. \A k \in 1 .. m : \E i \in I : Rank(I, i) = k
  BY <1>5 DEF Surjection
<1>7. \A k \in 1 .. m : Nth(I, k) \in I /\ Rank(I, Nth(I, k)) = k
  BY <1>6 DEF Nth
<1>8. \A i \in I : Nth(I, Rank(I, i)) = i
  BY <1>1, <1>2, <1>7
<1>9. \A k, l \in 1 .. m : k < l <=> Nth(I, k) < Nth(I, l)
  <2> SUFFICES ASSUME NEW k \in 1 .. m, NEW l \in 1 .. m
               PROVE  k < l <=> Nth(I, k) < Nth(I, l)
    OBVIOUS
  <2>1. PICK a \in I : a = Nth(I, k) /\ Rank(I, a) = k
    BY <1>7
  <2>2. PICK b \in I : b = Nth(I, l) /\ Rank(I, b) = l
    BY <1>7
  <2> HIDE DEF m
  <2>3. a \in Nat /\ b \in Nat /\ k \in Nat /\ l \in Nat
    BY <1>1
  <2>4. CASE a < b
    BY <1>1, <2>1, <2>2, <2>3, <2>4
  <2>5. CASE b < a
    BY <1>1, <2>1, <2>2, <2>3, <2>5
  <2>6. CASE a = b
    BY <2>1, <2>2, <2>3, <2>6
  <2>7. QED
    BY <2>3, <2>4, <2>5, <2>6
<1>10. QED
  BY <1>7, <1>8, <1>9

\* A part of a sequence has one entry for each position that stays, in their order.
LEMMA PickProperties ==
  ASSUME NEW S, NEW s \in Seq(S), NEW I \in SUBSET (1 .. Len(s))
  PROVE  /\ Pick(s, I) \in Seq(S)
         /\ Len(Pick(s, I)) = Cardinality(I)
         /\ Cardinality(I) \in Nat
         /\ \A k \in 1 .. Cardinality(I) : Nth(I, k) \in I /\ Pick(s, I)[k] = s[Nth(I, k)]
         /\ \A i \in I : \E k \in 1 .. Cardinality(I) : Nth(I, k) = i /\ Pick(s, I)[k] = s[i]
<1>1. Len(s) \in Nat /\ \A i \in 1 .. Len(s) : s[i] \in S
  BY LenProperties, ElementOfSeq
<1> DEFINE m == Cardinality(I)
<1>2. m \in Nat /\ \A i \in I : Rank(I, i) \in 1 .. m
  BY <1>1, RankIncreases
<1>3. /\ \A k \in 1 .. m : Nth(I, k) \in I
      /\ \A i \in I : Nth(I, Rank(I, i)) = i
  BY <1>1, NthProperties
<1>4. Pick(s, I) = [k \in 1 .. m |-> s[Nth(I, k)]]
  BY DEF Pick
<1> HIDE DEF m
<1>5. \A k \in 1 .. m : s[Nth(I, k)] \in S
  BY <1>1, <1>3
<1>6. Pick(s, I) \in [1 .. m -> S]
  BY <1>4, <1>5
<1>7. Pick(s, I) \in Seq(S) /\ Len(Pick(s, I)) = m
  BY <1>2, <1>6
<1>8. \A k \in 1 .. m : Pick(s, I)[k] = s[Nth(I, k)]
  BY <1>4
<1>9. \A i \in I : \E k \in 1 .. m : Nth(I, k) = i /\ Pick(s, I)[k] = s[i]
  BY <1>2, <1>3, <1>8
<1>10. QED
  BY <1>2, <1>3, <1>7, <1>8, <1>9 DEF m

-----------------------------------------------------------------------------
(* Sequences without repetitions. *)

Distinct(s) == \A i, j \in DOMAIN s : s[i] = s[j] => i = j
ElementsOf(s) == {s[i] : i \in DOMAIN s}

\* There are n positions in a sequence of length n.
LEMMA PositionsCount ==
  ASSUME NEW n \in Nat
  PROVE  IsFiniteSet(1 .. n) /\ Cardinality(1 .. n) = n
BY FS_Interval

\* Such a sequence is as long as it has elements.
LEMMA DistinctLength ==
  ASSUME NEW S, NEW s \in Seq(S), Distinct(s)
  PROVE  /\ IsFiniteSet(ElementsOf(s)) /\ Cardinality(ElementsOf(s)) = Len(s) /\ Len(s) \in Nat
         /\ ElementsOf(s) \subseteq S
<1>1. Len(s) \in Nat /\ DOMAIN s = 1 .. Len(s) /\ s \in [1 .. Len(s) -> S]
  BY LenProperties
<1> DEFINE I == 1 .. Len(s)
           E == ElementsOf(s)
<1>2. IsFiniteSet(I) /\ Cardinality(I) = Len(s)
  BY <1>1, PositionsCount
<1>3. E = {s[i] : i \in I} /\ E \subseteq S
  BY <1>1 DEF ElementsOf
<1>4. s \in [I -> E]
  BY <1>1, <1>3
<1>5. s \in Bijection(I, E)
  BY <1>1, <1>3, <1>4 DEF Bijection, Injection, Surjection, IsInjective, Distinct
<1> HIDE DEF I, E
<1>6. ExistsBijection(I, E)
  BY <1>5 DEF ExistsBijection
<1>7. IsFiniteSet(E) /\ Cardinality(E) = Cardinality(I)
  BY <1>2, <1>6, FS_Bijection
<1>8. QED
  BY <1>1, <1>2, <1>3, <1>7 DEF E

\* A part of a sequence has the elements at its positions, and no repetitions if the whole has none.
LEMMA PickElements ==
  ASSUME NEW S, NEW s \in Seq(S), NEW I \in SUBSET (1 .. Len(s))
  PROVE  /\ ElementsOf(Pick(s, I)) = {s[i] : i \in I}
         /\ ElementsOf(Pick(s, I)) \subseteq ElementsOf(s)
         /\ Len(Pick(s, I)) <= Len(s)
         /\ Distinct(s) => Distinct(Pick(s, I))
<1> DEFINE t == Pick(s, I)
           m == Cardinality(I)
<1>1. Len(s) \in Nat /\ DOMAIN s = 1 .. Len(s)
  BY LenProperties
<1>2. /\ t \in Seq(S) /\ Len(t) = m /\ m \in Nat
      /\ \A k \in 1 .. m : Nth(I, k) \in I /\ t[k] = s[Nth(I, k)]
      /\ \A i \in I : \E k \in 1 .. m : Nth(I, k) = i /\ t[k] = s[i]
  BY PickProperties
<1>3. DOMAIN t = 1 .. m
  BY <1>2, LenProperties
<1>4. \A k \in 1 .. m : Rank(I, Nth(I, k)) = k
  BY <1>1, NthProperties
<1> HIDE DEF t
<1>5. m <= Len(s)
  <2> DEFINE D == 1 .. Len(s)
  <2>1. IsFiniteSet(D) /\ Cardinality(D) = Len(s)
    BY <1>1, PositionsCount
  <2>2. I \in SUBSET D
    OBVIOUS
  <2> HIDE DEF D
  <2>3. Cardinality(I) <= Cardinality(D)
    BY <2>1, <2>2, FS_Subset
  <2>4. QED
    BY <2>1, <2>3
<1> HIDE DEF m
<1>6. ElementsOf(t) = {s[i] : i \in I}
  <2>1. ASSUME NEW x \in ElementsOf(t)
        PROVE  x \in {s[i] : i \in I}
    <3>1. PICK k \in 1 .. m : x = t[k]
      BY <1>3, <2>1 DEF ElementsOf
    <3>2. QED
      BY <1>2, <3>1
  <2>2. ASSUME NEW i \in I
        PROVE  s[i] \in ElementsOf(t)
    <3>1. PICK k \in 1 .. m : t[k] = s[i]
      BY <1>2
    <3>2. QED
      BY <1>3, <3>1 DEF ElementsOf
  <2>3. QED
    BY <2>1, <2>2
<1>7. ElementsOf(t) \subseteq ElementsOf(s)
  BY <1>1, <1>6 DEF ElementsOf
<1>8. ASSUME Distinct(s)
      PROVE  Distinct(t)
  <2>1. \A k \in 1 .. m : Nth(I, k) \in DOMAIN s /\ t[k] = s[Nth(I, k)]
    BY <1>1, <1>2
  <2>2. \A k, l \in 1 .. m : t[k] = t[l] => k = l
    <3>1. TAKE k, l \in 1 .. m
    <3>2. t[k] = t[l] => Nth(I, k) = Nth(I, l)
      BY <1>8, <2>1 DEF Distinct
    <3>3. QED
      BY <1>4, <3>2
  <2>3. QED
    BY <1>3, <2>2 DEF Distinct
<1>9. QED
  BY <1>2, <1>5, <1>6, <1>7, <1>8 DEF t

\* A new element at the end.
LEMMA AppendDistinct ==
  ASSUME NEW S, NEW s \in Seq(S), NEW x \in S
  PROVE  /\ Append(s, x) \in Seq(S)
         /\ ElementsOf(Append(s, x)) = ElementsOf(s) \cup {x}
         /\ Distinct(s) /\ x \notin ElementsOf(s) => Distinct(Append(s, x))
<1> DEFINE t == Append(s, x)
           n == Len(s)
<1>1. n \in Nat /\ DOMAIN s = 1 .. n
  BY LenProperties
<1>2. /\ t \in Seq(S) /\ Len(t) = n + 1 /\ t[n + 1] = x
      /\ \A i \in 1 .. n : t[i] = s[i]
  BY AppendProperties
<1>3. DOMAIN t = 1 .. n + 1
  BY <1>2, LenProperties
<1> HIDE DEF t, n
<1>4. \A i \in DOMAIN t : (i \in DOMAIN s /\ t[i] = s[i]) \/ (i = n + 1 /\ t[i] = x)
  BY <1>1, <1>2, <1>3
<1>5. \A i \in DOMAIN s : i \in DOMAIN t /\ t[i] = s[i]
  BY <1>1, <1>2, <1>3
<1>6. n + 1 \in DOMAIN t
  BY <1>1, <1>3
<1>7. ElementsOf(t) = ElementsOf(s) \cup {x}
  BY <1>2, <1>4, <1>5, <1>6 DEF ElementsOf
<1>8. Distinct(s) /\ x \notin ElementsOf(s) => Distinct(t)
  BY <1>4 DEF Distinct, ElementsOf
<1>9. QED
  BY <1>2, <1>7, <1>8 DEF t

-----------------------------------------------------------------------------
(* The cache by itself, for every set of keys and capacity. *)

\* The inductive invariant: the map and the room left make up the capacity, and the list
\* begins with a node of the map, or is empty while there is room.
CInv ==
  /\ nodeMap \subseteq Key /\ IsFiniteSet(nodeMap)
  /\ first \in nodeMap \cup {"null"}
  /\ capacity \in Nat
  /\ RoomAccounting
  /\ capacity = 0 => first # "null"

\* The empty cache satisfies the invariant.
LEMMA InitCInv == Init => CInv
  BY CacheAssumption, FS_EmptySet DEF Init, CInv, RoomAccounting

\* Every operation keeps the invariant.
LEMMA StepCInv == CInv /\ [Next]_vars => CInv'
<1> SUFFICES ASSUME CInv, [Next]_vars PROVE CInv'
  OBVIOUS
<1> USE CacheAssumption DEF CInv, RoomAccounting
<1>1. Cardinality(nodeMap) \in Nat
  BY FS_CardinalityType
<1>2. ASSUME NEW k \in Key, Remove(k) PROVE CInv'
  <2>1. IsFiniteSet(nodeMap') /\ Cardinality(nodeMap') = Cardinality(nodeMap) - 1
    BY <1>2, FS_RemoveElement DEF Remove
  <2>2. QED
    BY <1>1, <1>2, <2>1 DEF Remove, RoomWithout, FirstWithout
<1>3. ASSUME NEW k \in Key, Add(k) PROVE CInv'
  <2>1. /\ IsFiniteSet(nodeMap')
        /\ Cardinality(nodeMap') =
             IF k \in nodeMap THEN Cardinality(nodeMap) ELSE Cardinality(nodeMap) + 1
    BY <1>3, FS_AddElement DEF Add
  <2>2. QED
    BY <1>1, <1>3, <2>1 DEF Add, RoomWithout, FirstWithout, FirstWith
<1>4. ASSUME NEW k \in Key, AddEvicting(k) PROVE CInv'
  <2>1. k \notin nodeMap /\ first \in nodeMap /\ capacity = 0
    BY <1>4 DEF AddEvicting, RoomWithout
  <2>2. IsFiniteSet(nodeMap \ {first})
        /\ Cardinality(nodeMap \ {first}) = Cardinality(nodeMap) - 1
    BY <2>1, FS_RemoveElement
  <2>3. IsFiniteSet(nodeMap') /\ Cardinality(nodeMap') = Cardinality(nodeMap)
    <3> DEFINE rest == nodeMap \ {first}
    <3>1. k \notin rest /\ nodeMap' = rest \cup {k}
      BY <1>4, <2>1 DEF AddEvicting
    <3>2. IsFiniteSet(rest) /\ Cardinality(rest) = Cardinality(nodeMap) - 1
      BY <2>2
    <3> HIDE DEF rest
    <3>3. IsFiniteSet(rest \cup {k}) /\ Cardinality(rest \cup {k}) = Cardinality(rest) + 1
      BY <3>1, <3>2, FS_AddElement
    <3>4. QED
      BY <1>1, <3>1, <3>2, <3>3
  <2>4. QED
    BY <1>1, <1>4, <2>1, <2>3 DEF AddEvicting, FirstWithout, FirstWith
<1>5. CASE UNCHANGED vars
  BY <1>5 DEF vars
<1>6. QED
  BY <1>2, <1>3, <1>4, <1>5 DEF Next

\* The books are kept, for every capacity and every sequence of operations.
THEOREM CacheRoomAccounting == Spec => []RoomAccounting
<1>1. CInv => RoomAccounting
  BY DEF CInv
<1>2. QED
  BY <1>1, InitCInv, StepCInv, PTL DEF Spec

\* A full cache always has a node to evict: add never dereferences null.
THEOREM CacheVictimExists == Spec => []VictimExists
<1>1. CInv => VictimExists
  BY DEF CInv, VictimExists
<1>2. QED
  BY <1>1, InitCInv, StepCInv, PTL DEF Spec

\* Both together: add always finds room or a node to evict, for every capacity.
THEOREM CacheSoundness == Spec => []CacheIsSound
<1>1. CInv => CacheIsSound
  BY DEF CInv, CacheIsSound, VictimExists
<1>2. QED
  BY <1>1, InitCInv, StepCInv, PTL DEF Spec

-----------------------------------------------------------------------------
(* The invariant. *)

Keys == [irk : Nat, ltk : Nat]
Values == {Absent} \cup 0 .. 1

BondTypes ==
  /\ irks \in [Peer -> Nat] /\ ltks \in [Peer -> Nat]
  /\ cccdValues \in [Peer -> Values]
  /\ keysFile \in [Peer -> Keys \cup {AbsentKeys, TornKeys}]
  /\ cccdFile \in [Peer -> Values \cup {Torn}]
  /\ bond \in [Peer -> Keys]
  /\ subscribed \in [Peer -> Values]
  /\ troubled \subseteq Peer \X {"keys", "cccd"}

\* What is stored of bonds and what is answered are the same.
BondsInv == BondTypes /\ BondsSurviveRestart

\* The files of unbonded peers: no two of the same peer, at most Capacity of them and, once
\* they were read, each with its node in the cache, whose books are kept.
FilesInv ==
  /\ loaded \in BOOLEAN
  /\ unbonded \in Seq(Key)
  /\ Distinct(unbonded)
  /\ CInv
  /\ EvictedFilesAreGone

SInv == BondsInv /\ FilesInv

-----------------------------------------------------------------------------
(* The files of unbonded peers. *)

\* Taking one file away.
LEMMA WithoutProperties ==
  ASSUME NEW files \in Seq(Key), NEW k
  PROVE  /\ Without(files, k) \in Seq(Key)
         /\ ElementsOf(Without(files, k)) = ElementsOf(files) \ {k}
         /\ Len(Without(files, k)) <= Len(files)
         /\ Distinct(files) => Distinct(Without(files, k))
<1> DEFINE I == {i \in DOMAIN files : files[i] # k}
<1>1. DOMAIN files = 1 .. Len(files)
  BY LenProperties
<1>2. Without(files, k) = Pick(files, I)
  BY <1>1 DEF Without
<1>3. {files[i] : i \in I} = ElementsOf(files) \ {k}
  BY DEF ElementsOf
<1>4. I \in SUBSET (1 .. Len(files))
  BY <1>1
<1> HIDE DEF I
<1>5. Pick(files, I) \in Seq(Key)
  BY <1>4, PickProperties, ZenonT(60)
<1>6. /\ ElementsOf(Pick(files, I)) = {files[i] : i \in I}
      /\ ElementsOf(Pick(files, I)) \subseteq ElementsOf(files)
      /\ Len(Pick(files, I)) <= Len(files)
      /\ Distinct(files) => Distinct(Pick(files, I))
  BY <1>4, PickElements, ZenonT(60)
<1>7. QED
  BY <1>2, <1>3, <1>5, <1>6

\* When the process ends, the files that are left are those that were there or fewer.
LEMMA FilesForgotten ==
  ASSUME FilesInv, Forgotten, unbonded' \in Seq(Key), Distinct(unbonded'),
         Len(unbonded') <= Len(unbonded)
  PROVE  FilesInv'
<1>1. loaded' = FALSE /\ nodeMap' = {} /\ first' = "null" /\ capacity' = Capacity
  BY DEF Forgotten
<1>2. CInv'
  BY <1>1, CacheAssumption, FS_EmptySet DEF CInv, RoomAccounting
<1>3. Len(unbonded') <= Capacity
  <2>1. Len(unbonded) \in Nat /\ Len(unbonded') \in Nat /\ Len(unbonded) <= Capacity
    BY LenProperties DEF FilesInv, EvictedFilesAreGone
  <2>2. QED
    BY <2>1, CacheAssumption
<1>4. QED
  BY <1>1, <1>2, <1>3 DEF FilesInv, EvictedFilesAreGone

\* Reading the files.
LEMMA FilesLoad ==
  ASSUME FilesInv, Load
  PROVE  FilesInv'
<1>1. /\ unbonded \in Seq(Key) /\ Distinct(unbonded) /\ Len(unbonded) <= Capacity
      /\ unbonded' = unbonded /\ loaded' = TRUE
      /\ nodeMap' = ElementsOf(unbonded) /\ capacity' = Capacity - Len(unbonded)
      /\ first' = IF unbonded = <<>> THEN "null" ELSE Head(unbonded)
  BY DEF FilesInv, EvictedFilesAreGone, Load, Range, ElementsOf
<1>2. /\ IsFiniteSet(nodeMap') /\ Cardinality(nodeMap') = Len(unbonded) /\ Len(unbonded) \in Nat
      /\ nodeMap' \subseteq Key
  BY <1>1, DistinctLength
<1>3. first' \in nodeMap' \cup {"null"} /\ (unbonded # <<>> => first' \in Key)
  <2>1. CASE unbonded = <<>>
    BY <1>1, <2>1
  <2>2. CASE unbonded # <<>>
    <3>1. Head(unbonded) = unbonded[1] /\ 1 \in DOMAIN unbonded /\ Head(unbonded) \in Key
      BY <1>1, <2>2, EmptySeq, LenProperties, HeadTailProperties
    <3>2. QED
      BY <1>1, <2>2, <3>1 DEF ElementsOf
  <2>3. QED
    BY <2>1, <2>2
<1>4. capacity' = 0 => first' # "null"
  <2>1. capacity' = 0 => Len(unbonded) # 0
    BY <1>1, <1>2, CacheAssumption
  <2>2. unbonded = <<>> => Len(unbonded) = 0
    OBVIOUS
  <2>3. QED
    BY <1>3, <2>1, <2>2, CacheAssumption
<1>5. CInv'
  BY <1>1, <1>2, <1>3, <1>4, CacheAssumption DEF CInv, RoomAccounting
<1>6. QED
  BY <1>1, <1>5 DEF FilesInv, EvictedFilesAreGone, Range, ElementsOf

\* Storing the database of an unbonded peer, whatever comes of it.
LEMMA FilesStore ==
  ASSUME FilesInv, NEW k \in Key, NEW e \in Ending, StoreUnbondedDb(k, e)
  PROVE  FilesInv'
<1> DEFINE left == IF RoomWithout(k) = 0 THEN AfterEviction(k, unbonded) ELSE unbonded
<1>1. /\ unbonded \in Seq(Key) /\ Distinct(unbonded) /\ Len(unbonded) \in Nat
      /\ ElementsOf(unbonded) \subseteq nodeMap /\ loaded
  BY LenProperties DEF FilesInv, EvictedFilesAreGone, StoreUnbondedDb, Range, ElementsOf
<1>2. left = unbonded \/ (RoomWithout(k) = 0 /\ left = Without(unbonded, first))
  BY DEF AfterEviction
<1>3. /\ left \in Seq(Key) /\ Distinct(left) /\ Len(left) <= Len(unbonded)
      /\ ElementsOf(left) \subseteq ElementsOf(unbonded) /\ Len(left) \in Nat
  BY <1>1, <1>2, WithoutProperties, LenProperties
<1>4. RoomWithout(k) = 0 => first \notin ElementsOf(left)
  <2>1. CASE first = "null"
    BY <1>1, <1>3, <2>1, CacheAssumption DEF FilesInv, CInv
  <2>2. CASE first # "null"
    BY <1>1, <2>2, WithoutProperties DEF AfterEviction
  <2>3. QED
    BY <2>1, <2>2
<1>5. /\ e = "done" => unbonded' = Append(Without(left, k), k)
      /\ e = "fails" => unbonded' \in {left, Without(left, k)}
      /\ e = "crashes" => unbonded' \in {unbonded, left, Without(left, k)} /\ Forgotten
      /\ e # "crashes" => (Add(k) \/ AddEvicting(k)) /\ UNCHANGED loaded
  BY DEF StoreUnbondedDb
<1> HIDE DEF left
<1>6. /\ Without(left, k) \in Seq(Key) /\ ElementsOf(Without(left, k)) = ElementsOf(left) \ {k}
      /\ Len(Without(left, k)) <= Len(left) /\ Distinct(Without(left, k))
      /\ Len(Without(left, k)) \in Nat
  BY <1>3, WithoutProperties, LenProperties
<1>7. CASE e = "crashes"
  <2>1. unbonded' \in Seq(Key) /\ Distinct(unbonded') /\ Len(unbonded') <= Len(unbonded)
    BY <1>1, <1>3, <1>5, <1>6, <1>7
  <2>2. QED
    BY <1>5, <1>7, <2>1, FilesForgotten
<1>8. CASE e # "crashes"
  <2>1. Add(k) \/ AddEvicting(k)
    BY <1>5, <1>8
  <2>2. CInv'
    BY <2>1, StepCInv DEF FilesInv, Next
  <2>3. /\ k \in nodeMap' /\ ElementsOf(left) \subseteq nodeMap'
    BY <1>1, <1>3, <1>4, <2>1 DEF Add, AddEvicting
  <2>4. CASE e = "fails"
    <3>1. unbonded' \in Seq(Key) /\ Distinct(unbonded') /\ ElementsOf(unbonded') \subseteq nodeMap'
      BY <1>3, <1>5, <1>6, <2>3, <2>4
    <3>2. Len(unbonded') <= Capacity
      <4>1. Len(unbonded') \in Nat /\ Len(unbonded') <= Len(unbonded) /\ Len(unbonded) <= Capacity
        BY <1>1, <1>3, <1>5, <1>6, <2>4 DEF FilesInv, EvictedFilesAreGone
      <4>2. QED
        BY <1>1, <4>1, CacheAssumption
    <3>3. QED
      BY <1>5, <1>8, <2>2, <3>1, <3>2 DEF FilesInv, EvictedFilesAreGone, Range, ElementsOf
  <2>5. CASE e = "done"
    <3>1. /\ unbonded' \in Seq(Key) /\ Distinct(unbonded')
          /\ ElementsOf(unbonded') = (ElementsOf(left) \ {k}) \cup {k}
      <4> DEFINE w == Without(left, k)
      <4>1. /\ w \in Seq(Key) /\ ElementsOf(w) = ElementsOf(left) \ {k} /\ Distinct(w)
            /\ unbonded' = Append(w, k) /\ k \notin ElementsOf(w)
        BY <1>5, <1>6, <2>5
      <4> HIDE DEF w
      <4>2. /\ Append(w, k) \in Seq(Key) /\ Distinct(Append(w, k))
            /\ ElementsOf(Append(w, k)) = ElementsOf(w) \cup {k}
        BY <4>1, AppendDistinct
      <4>3. QED
        BY <4>1, <4>2
    <3>2. ElementsOf(unbonded') \subseteq nodeMap'
      BY <2>3, <3>1
    <3>3. Len(unbonded') <= Capacity
      <4>1. /\ IsFiniteSet(nodeMap') /\ Cardinality(nodeMap') + capacity' = Capacity
            /\ capacity' \in Nat /\ Cardinality(nodeMap') \in Nat
        BY <2>2, FS_CardinalityType DEF CInv, RoomAccounting
      <4>2. Cardinality(ElementsOf(unbonded')) <= Cardinality(nodeMap')
        BY <3>2, <4>1, FS_Subset
      <4>3. Cardinality(ElementsOf(unbonded')) = Len(unbonded') /\ Len(unbonded') \in Nat
        BY <3>1, DistinctLength
      <4>4. QED
        BY <4>1, <4>2, <4>3, CacheAssumption
    <3>4. QED
      BY <1>5, <1>8, <2>2, <3>1, <3>2, <3>3 DEF FilesInv, EvictedFilesAreGone, Range, ElementsOf
  <2>6. QED
    BY <1>8, <2>4, <2>5 DEF Ending
<1>9. QED
  BY <1>7, <1>8

\* Every step keeps the files and the cache together.
LEMMA FilesStep ==
  ASSUME FilesInv, [StorageNext]_storageVars
  PROVE  FilesInv'
<1>1. ASSUME UNCHANGED <<loaded, unbondedCache, unbonded>>
      PROVE  FilesInv'
  BY <1>1 DEF unbondedCache, FilesInv, CInv, RoomAccounting, EvictedFilesAreGone
<1>2. ASSUME Forgotten, UNCHANGED unbonded
      PROVE  FilesInv'
  <2>1. Len(unbonded) \in Nat /\ unbonded \in Seq(Key)
    BY LenProperties DEF FilesInv
  <2>2. QED
    BY <1>2, <2>1, FilesForgotten DEF FilesInv
<1>3. ASSUME NEW e \in Ending, NEW p \in Peer, NEW n \in Pairing,
             NEW irk \in Pairing \cup {0}, NEW ltk \in Pairing \cup {0}, StoreKeys(p, n, irk, ltk, e)
      PROVE  FilesInv'
  BY <1>1, <1>2, <1>3 DEF StoreKeys
<1>4. ASSUME NEW e \in Ending, NEW p \in Peer, NEW v \in 0 .. 1, StoreCccd(p, v, e)
      PROVE  FilesInv'
  BY <1>1, <1>2, <1>4 DEF StoreCccd
<1>5. ASSUME NEW e \in Ending, NEW p \in Peer, StoreBondedDb(p, e)
      PROVE  FilesInv'
  BY <1>1, <1>2, <1>5 DEF StoreBondedDb
<1>6. ASSUME NEW e \in Ending, NEW p \in Peer, RemoveBond(p, e)
      PROVE  FilesInv'
  BY <1>1, <1>2, <1>6 DEF RemoveBond
<1>7. CASE Restart
  BY <1>2, <1>7 DEF Restart
<1>8. CASE UNCHANGED storageVars
  BY <1>1, <1>8 DEF storageVars
<1>9. QED
  BY <1>3, <1>4, <1>5, <1>6, <1>7, <1>8, FilesLoad, FilesStore DEF StorageNext

-----------------------------------------------------------------------------
(* Bonds. *)

\* What the files of a peer say is what would be answered after a restart.
LEMMA FileContents ==
  /\ \A file \in Keys : KeysIn(file) = file
  /\ KeysIn(AbsentKeys) = NoKeys /\ KeysIn(TornKeys) = NoKeys
  /\ \A file \in Keys \cup {AbsentKeys, TornKeys} : KeysIn(file) \in Keys
  /\ \A v \in Values : ValueIn(v) = v /\ v # Torn
  /\ ValueIn(Torn) = Absent
  /\ \A v \in Values \cup {Torn} : ValueIn(v) \in Values
<1>1. AbsentKeys \notin Keys /\ TornKeys \notin Keys /\ NoKeys \in Keys
  BY DEF AbsentKeys, TornKeys, NoKeys, Keys, Absent, Torn
<1>2. \A v \in Values : v # Torn
  BY DEF Values, Absent, Torn
<1> HIDE DEF Keys, Values
<1>3. Absent \in Values
  BY DEF Values
<1>4. QED
  BY <1>1, <1>2, <1>3 DEF KeysIn, ValueIn

\* A step that leaves the keys, or forgets them with the process.
LEMMA KeysKept ==
  ASSUME KeysSurviveRestart, loaded' => loaded /\ ltks' = ltks,
         keysFile' = keysFile, bond' = bond,
         \A p \in Peer : <<p, "keys">> \notin troubled' => <<p, "keys">> \notin troubled
  PROVE  KeysSurviveRestart'
BY DEF KeysSurviveRestart, LoadedKeys

\* A step that leaves the values, or forgets them with the process.
LEMMA SubscriptionsKept ==
  ASSUME SubscriptionsSurviveRestart, loaded' => loaded /\ cccdValues' = cccdValues,
         cccdFile' = cccdFile, subscribed' = subscribed,
         \A p \in Peer : <<p, "cccd">> \notin troubled' => <<p, "cccd">> \notin troubled
  PROVE  SubscriptionsSurviveRestart'
BY DEF SubscriptionsSurviveRestart

\* What is in memory once the process ended.
LEMMA MemoryForgotten ==
  ASSUME BondTypes, Forgotten
  PROVE  /\ ~loaded' /\ irks' \in [Peer -> Nat] /\ ltks' \in [Peer -> Nat]
         /\ cccdValues' \in [Peer -> Values]
BY DEF Forgotten, Values

\* The outcome of a write or a removal that is remembered.
LEMMA TroubledProperties ==
  ASSUME BondTypes, NEW p \in Peer, NEW kinds \in SUBSET {"keys", "cccd"}, NEW e \in Ending,
         Troubled(p, kinds, e)
  PROVE  /\ troubled' \subseteq Peer \X {"keys", "cccd"}
         /\ \A q \in Peer, kind \in {"keys", "cccd"} : <<q, kind>> \notin troubled' =>
              IF q = p /\ kind \in kinds THEN e = "done" ELSE <<q, kind>> \notin troubled
BY DEF Troubled, BondTypes

\* Storing keys.
LEMMA BondsStoreKeys ==
  ASSUME BondsInv, NEW p \in Peer, NEW n \in Pairing, NEW irk \in Pairing \cup {0},
         NEW ltk \in Pairing \cup {0}, NEW e \in Ending, StoreKeys(p, n, irk, ltk, e)
  PROVE  BondsInv'
<1> DEFINE new == [irk |-> irk, ltk |-> ltk]
<1>1. BondTypes /\ KeysSurviveRestart /\ SubscriptionsSurviveRestart
  BY DEF BondsInv, BondsSurviveRestart
<1>2. new \in Keys /\ new.ltk = ltk /\ irk \in Nat /\ ltk \in Nat
  BY DEF Keys, Pairing
<1>3. PICK file \in WrittenTo(keysFile[p], new, TornKeys, e) : keysFile' = [keysFile EXCEPT ![p] = file]
  BY DEF StoreKeys
<1>4. /\ bond' = [bond EXCEPT ![p] = new]
      /\ Troubled(p, {"keys"}, e)
      /\ \/ e = "crashes" /\ Forgotten
         \/ /\ irks' = [irks EXCEPT ![p] = IF irk = 0 THEN @ ELSE irk]
            /\ ltks' = [ltks EXCEPT ![p] = ltk]
            /\ UNCHANGED <<loaded, cccdValues>>
      /\ UNCHANGED <<cccdFile, subscribed>>
  BY DEF StoreKeys
<1> HIDE DEF new, Keys, Values
<1>5. /\ troubled' \subseteq Peer \X {"keys", "cccd"}
      /\ \A q \in Peer, kind \in {"keys", "cccd"} : <<q, kind>> \notin troubled' =>
           IF q = p /\ kind \in {"keys"} THEN e = "done" ELSE <<q, kind>> \notin troubled
  BY <1>1, <1>4, TroubledProperties
<1>6. file \in Keys \cup {AbsentKeys, TornKeys} /\ (e = "done" => file = new)
  BY <1>1, <1>2, <1>3 DEF WrittenTo, BondTypes
<1>7. BondTypes'
  <2>1. /\ keysFile' \in [Peer -> Keys \cup {AbsentKeys, TornKeys}] /\ bond' \in [Peer -> Keys]
    BY <1>1, <1>2, <1>3, <1>4, <1>6 DEF BondTypes
  <2>2. irks' \in [Peer -> Nat] /\ ltks' \in [Peer -> Nat] /\ cccdValues' \in [Peer -> Values]
    BY <1>1, <1>2, <1>4, MemoryForgotten DEF BondTypes
  <2>3. QED
    BY <1>1, <1>4, <1>5, <2>1, <2>2 DEF BondTypes
<1>8. KeysSurviveRestart'
  <2>1. SUFFICES ASSUME NEW q \in Peer, <<q, "keys">> \notin troubled'
                 PROVE  /\ loaded' => ltks'[q] = bond'[q].ltk
                        /\ KeysIn(keysFile'[q]).ltk = bond'[q].ltk
    BY DEF KeysSurviveRestart, LoadedKeys
  <2>2. CASE q = p
    <3>1. e = "done" /\ file = new
      BY <1>5, <1>6, <2>1, <2>2
    <3>2. ltks'[p] = ltk /\ bond'[p] = new /\ keysFile'[p] = new
      BY <1>1, <1>3, <1>4, <3>1 DEF BondTypes
    <3>3. QED
      BY <1>2, <2>2, <3>2, FileContents
  <2>3. CASE q # p
    <3>1. <<q, "keys">> \notin troubled
      BY <1>5, <2>1, <2>3
    <3>2. /\ loaded => ltks[q] = bond[q].ltk
          /\ KeysIn(keysFile[q]).ltk = bond[q].ltk
      BY <1>1, <3>1 DEF KeysSurviveRestart, LoadedKeys
    <3>3. bond'[q] = bond[q] /\ keysFile'[q] = keysFile[q]
          /\ (loaded' => loaded /\ ltks'[q] = ltks[q])
      BY <1>1, <1>3, <1>4, <2>3, MemoryForgotten DEF BondTypes
    <3>4. QED
      BY <3>2, <3>3
  <2>4. QED
    BY <2>2, <2>3
<1>9. SubscriptionsSurviveRestart'
  <2>1. loaded' => loaded /\ cccdValues' = cccdValues
    BY <1>1, <1>4, MemoryForgotten
  <2>2. \A q \in Peer : <<q, "cccd">> \notin troubled' => <<q, "cccd">> \notin troubled
    BY <1>5
  <2>3. QED
    BY <1>1, <1>4, <2>1, <2>2, SubscriptionsKept
<1>10. QED
  BY <1>7, <1>8, <1>9 DEF BondsInv, BondsSurviveRestart

\* Storing the value of a descriptor.
LEMMA BondsStoreCccd ==
  ASSUME BondsInv, NEW p \in Peer, NEW v \in 0 .. 1, NEW e \in Ending, StoreCccd(p, v, e)
  PROVE  BondsInv'
<1>1. BondTypes /\ KeysSurviveRestart /\ SubscriptionsSurviveRestart
  BY DEF BondsInv, BondsSurviveRestart
<1>2. v \in Values
  BY DEF Values
<1>3. loaded /\ subscribed' = [subscribed EXCEPT ![p] = v] /\ UNCHANGED <<keysFile, bond>>
  BY DEF StoreCccd
<1> HIDE DEF Values, Keys
<1>4. CASE IsChange(p, v)
  <2>1. PICK file \in WrittenTo(cccdFile[p], v, Torn, e) : cccdFile' = [cccdFile EXCEPT ![p] = file]
    BY <1>4 DEF StoreCccd
  <2>2. /\ Troubled(p, {"cccd"}, e)
        /\ \/ e = "crashes" /\ Forgotten
           \/ /\ cccdValues' = [cccdValues EXCEPT ![p] = v]
              /\ UNCHANGED <<loaded, irks, ltks>>
    BY <1>4 DEF StoreCccd
  <2>3. /\ troubled' \subseteq Peer \X {"keys", "cccd"}
        /\ \A q \in Peer, kind \in {"keys", "cccd"} : <<q, kind>> \notin troubled' =>
             IF q = p /\ kind \in {"cccd"} THEN e = "done" ELSE <<q, kind>> \notin troubled
    BY <1>1, <2>2, TroubledProperties
  <2>4. file \in Values \cup {Torn} /\ (e = "done" => file = v)
    BY <1>1, <1>2, <2>1 DEF WrittenTo, BondTypes
  <2>5. BondTypes'
    <3>1. cccdFile' \in [Peer -> Values \cup {Torn}] /\ subscribed' \in [Peer -> Values]
      BY <1>1, <1>2, <1>3, <2>1, <2>4 DEF BondTypes
    <3>2. irks' \in [Peer -> Nat] /\ ltks' \in [Peer -> Nat] /\ cccdValues' \in [Peer -> Values]
      BY <1>1, <1>2, <2>2, MemoryForgotten DEF BondTypes
    <3>3. QED
      BY <1>1, <1>3, <2>3, <3>1, <3>2 DEF BondTypes
  <2>6. SubscriptionsSurviveRestart'
    <3>1. SUFFICES ASSUME NEW q \in Peer, <<q, "cccd">> \notin troubled'
                   PROVE  /\ loaded' => cccdValues'[q] = subscribed'[q]
                          /\ ValueIn(cccdFile'[q]) = subscribed'[q]
      BY DEF SubscriptionsSurviveRestart
    <3>2. CASE q = p
      <4>1. e = "done" /\ file = v
        BY <2>3, <2>4, <3>1, <3>2
      <4>2. cccdValues'[p] = v /\ subscribed'[p] = v /\ cccdFile'[p] = v
        BY <1>1, <1>3, <2>1, <2>2, <4>1 DEF BondTypes
      <4>3. QED
        BY <1>2, <3>2, <4>2, FileContents
    <3>3. CASE q # p
      <4>1. <<q, "cccd">> \notin troubled
        BY <2>3, <3>1, <3>3
      <4>2. /\ loaded => cccdValues[q] = subscribed[q]
            /\ ValueIn(cccdFile[q]) = subscribed[q]
        BY <1>1, <4>1 DEF SubscriptionsSurviveRestart
      <4>3. subscribed'[q] = subscribed[q] /\ cccdFile'[q] = cccdFile[q]
            /\ (loaded' => loaded /\ cccdValues'[q] = cccdValues[q])
        BY <1>1, <1>3, <2>1, <2>2, <3>3, MemoryForgotten DEF BondTypes
      <4>4. QED
        BY <4>2, <4>3
    <3>4. QED
      BY <3>2, <3>3
  <2>7. KeysSurviveRestart'
    <3>1. loaded' => loaded /\ ltks' = ltks
      BY <1>1, <1>3, <2>2, MemoryForgotten
    <3>2. \A q \in Peer : <<q, "keys">> \notin troubled' => <<q, "keys">> \notin troubled
      BY <2>3
    <3>3. QED
      BY <1>1, <1>3, <3>1, <3>2, KeysKept
  <2>8. QED
    BY <2>5, <2>6, <2>7 DEF BondsInv, BondsSurviveRestart
<1>5. CASE ~IsChange(p, v)
  <2>1. cccdValues[p] = v /\ UNCHANGED <<loaded, irks, ltks, cccdValues, cccdFile, troubled>>
    BY <1>5 DEF IsChange, StoreCccd, bonds
  <2>2. BondTypes'
    BY <1>1, <1>2, <1>3, <2>1 DEF BondTypes
  <2>3. SubscriptionsSurviveRestart'
    BY <1>1, <1>3, <2>1 DEF SubscriptionsSurviveRestart, BondTypes
  <2>4. KeysSurviveRestart'
    BY <1>1, <1>3, <2>1, KeysKept
  <2>5. QED
    BY <2>2, <2>3, <2>4 DEF BondsInv, BondsSurviveRestart
<1>6. QED
  BY <1>4, <1>5

\* Removing a bond.
LEMMA BondsRemove ==
  ASSUME BondsInv, NEW p \in Peer, NEW e \in Ending, RemoveBond(p, e)
  PROVE  BondsInv'
<1>1. BondTypes /\ KeysSurviveRestart /\ SubscriptionsSurviveRestart
  BY DEF BondsInv, BondsSurviveRestart
<1>2. NoKeys \in Keys /\ NoKeys.ltk = 0 /\ Absent \in Values
  BY DEF NoKeys, Keys, Values
<1>3. PICK left \in LeftOf(p, e) :
        /\ keysFile' = [keysFile EXCEPT ![p] = left.keys]
        /\ cccdFile' = [cccdFile EXCEPT ![p] = left.cccd]
  BY DEF RemoveBond
<1>4. /\ bond' = [bond EXCEPT ![p] = NoKeys] /\ subscribed' = [subscribed EXCEPT ![p] = Absent]
      /\ Troubled(p, {"keys", "cccd"}, e)
      /\ \/ e = "crashes" /\ Forgotten
         \/ /\ irks' = [irks EXCEPT ![p] = 0] /\ ltks' = [ltks EXCEPT ![p] = 0]
            /\ cccdValues' = [cccdValues EXCEPT ![p] = Absent]
            /\ UNCHANGED loaded
  BY DEF RemoveBond
<1> HIDE DEF Values, Keys
<1>5. /\ troubled' \subseteq Peer \X {"keys", "cccd"}
      /\ \A q \in Peer, kind \in {"keys", "cccd"} : <<q, kind>> \notin troubled' =>
           IF q = p /\ kind \in {"keys", "cccd"} THEN e = "done" ELSE <<q, kind>> \notin troubled
  BY <1>1, <1>4, TroubledProperties
<1>6. /\ left.keys \in {keysFile[p], AbsentKeys} /\ left.cccd \in {cccdFile[p], Absent}
      /\ e = "done" => left.keys = AbsentKeys /\ left.cccd = Absent
  <2>1. CASE e = "done"
    BY <1>3, <2>1 DEF LeftOf
  <2>2. CASE e # "done"
    BY <1>3, <2>2 DEF LeftOf
  <2>3. QED
    BY <2>1, <2>2
<1>7. BondTypes'
  <2>1. /\ keysFile' \in [Peer -> Keys \cup {AbsentKeys, TornKeys}] /\ bond' \in [Peer -> Keys]
        /\ cccdFile' \in [Peer -> Values \cup {Torn}] /\ subscribed' \in [Peer -> Values]
    BY <1>1, <1>2, <1>3, <1>4, <1>6 DEF BondTypes
  <2>2. irks' \in [Peer -> Nat] /\ ltks' \in [Peer -> Nat] /\ cccdValues' \in [Peer -> Values]
    BY <1>1, <1>2, <1>4, MemoryForgotten DEF BondTypes
  <2>3. QED
    BY <1>5, <2>1, <2>2 DEF BondTypes
<1>8. ASSUME NEW q \in Peer, NEW kind \in {"keys", "cccd"}, <<q, kind>> \notin troubled'
      PROVE  /\ q = p => e = "done"
             /\ q # p => <<q, kind>> \notin troubled
  BY <1>5, <1>8
<1>9. \A q \in Peer : q # p =>
        /\ bond'[q] = bond[q] /\ keysFile'[q] = keysFile[q]
        /\ subscribed'[q] = subscribed[q] /\ cccdFile'[q] = cccdFile[q]
        /\ loaded' => loaded /\ ltks'[q] = ltks[q] /\ cccdValues'[q] = cccdValues[q]
  BY <1>1, <1>3, <1>4, MemoryForgotten DEF BondTypes
<1>10. e = "done" =>
         /\ bond'[p] = NoKeys /\ keysFile'[p] = AbsentKeys
         /\ subscribed'[p] = Absent /\ cccdFile'[p] = Absent
         /\ ltks'[p] = 0 /\ cccdValues'[p] = Absent
  BY <1>1, <1>3, <1>4, <1>6 DEF BondTypes
<1>11. KeysSurviveRestart'
  <2>1. SUFFICES ASSUME NEW q \in Peer, <<q, "keys">> \notin troubled'
                 PROVE  /\ loaded' => ltks'[q] = bond'[q].ltk
                        /\ KeysIn(keysFile'[q]).ltk = bond'[q].ltk
    BY DEF KeysSurviveRestart, LoadedKeys
  <2>2. CASE q = p
    BY <1>2, <1>8, <1>10, <2>1, <2>2, FileContents
  <2>3. CASE q # p
    BY <1>1, <1>8, <1>9, <2>1, <2>3 DEF KeysSurviveRestart, LoadedKeys
  <2>4. QED
    BY <2>2, <2>3
<1>12. SubscriptionsSurviveRestart'
  <2>1. SUFFICES ASSUME NEW q \in Peer, <<q, "cccd">> \notin troubled'
                 PROVE  /\ loaded' => cccdValues'[q] = subscribed'[q]
                        /\ ValueIn(cccdFile'[q]) = subscribed'[q]
    BY DEF SubscriptionsSurviveRestart
  <2>2. CASE q = p
    BY <1>2, <1>8, <1>10, <2>1, <2>2, FileContents
  <2>3. CASE q # p
    BY <1>1, <1>8, <1>9, <2>1, <2>3 DEF SubscriptionsSurviveRestart
  <2>4. QED
    BY <2>2, <2>3
<1>13. QED
  BY <1>7, <1>11, <1>12 DEF BondsInv, BondsSurviveRestart

\* Every step keeps what is stored and what is answered together.
LEMMA BondsStep ==
  ASSUME BondsInv, [StorageNext]_storageVars
  PROVE  BondsInv'
<1>1. BondTypes /\ KeysSurviveRestart /\ SubscriptionsSurviveRestart
  BY DEF BondsInv, BondsSurviveRestart
<1> HIDE DEF Keys, Values
<1>2. ASSUME loaded' => loaded /\ ltks' = ltks /\ cccdValues' = cccdValues,
             irks' \in [Peer -> Nat], ltks' \in [Peer -> Nat], cccdValues' \in [Peer -> Values],
             UNCHANGED <<keysFile, cccdFile, history>>
      PROVE  BondsInv'
  <2>1. UNCHANGED <<keysFile, cccdFile, bond, subscribed, troubled>>
    BY <1>2 DEF history
  <2>2. BondTypes'
    BY <1>1, <1>2, <2>1 DEF BondTypes
  <2>3. KeysSurviveRestart' /\ SubscriptionsSurviveRestart'
    BY <1>1, <1>2, <2>1, KeysKept, SubscriptionsKept
  <2>4. QED
    BY <2>2, <2>3 DEF BondsInv, BondsSurviveRestart
<1>3. ASSUME Forgotten, UNCHANGED <<keysFile, cccdFile, history>>
      PROVE  BondsInv'
  BY <1>1, <1>2, <1>3, MemoryForgotten
<1>4. ASSUME UNCHANGED <<loaded, irks, ltks, cccdValues, keysFile, cccdFile, history>>
      PROVE  BondsInv'
  BY <1>1, <1>2, <1>4 DEF BondTypes
<1>5. CASE Load
  <2>1. /\ irks' = [p \in Peer |-> KeysIn(keysFile[p]).irk]
        /\ ltks' = [p \in Peer |-> KeysIn(keysFile[p]).ltk]
        /\ cccdValues' = [p \in Peer |-> ValueIn(cccdFile[p])]
        /\ UNCHANGED <<keysFile, cccdFile, bond, subscribed, troubled>>
    BY <1>5 DEF Load, LoadedKeys, bondFiles, history
  <2>2. \A p \in Peer : KeysIn(keysFile[p]) \in Keys /\ ValueIn(cccdFile[p]) \in Values
    BY <1>1, FileContents DEF BondTypes
  <2>3. \A keys \in Keys : keys.irk \in Nat /\ keys.ltk \in Nat
    BY DEF Keys
  <2>4. BondTypes'
    BY <1>1, <2>1, <2>2, <2>3 DEF BondTypes
  <2>5. KeysSurviveRestart' /\ SubscriptionsSurviveRestart'
    BY <1>1, <2>1 DEF KeysSurviveRestart, SubscriptionsSurviveRestart, LoadedKeys
  <2>6. QED
    BY <2>4, <2>5 DEF BondsInv, BondsSurviveRestart
<1>6. CASE Restart
  BY <1>3, <1>6 DEF Restart, bondFiles
<1>7. ASSUME NEW e \in Ending, NEW p \in Peer, StoreBondedDb(p, e)
      PROVE  BondsInv'
  BY <1>3, <1>4, <1>7 DEF StoreBondedDb, history
<1>8. ASSUME NEW e \in Ending, NEW k \in Key, StoreUnbondedDb(k, e)
      PROVE  BondsInv'
  BY <1>3, <1>4, <1>8 DEF StoreUnbondedDb, bondFiles, bonds
<1>9. CASE UNCHANGED storageVars
  BY <1>4, <1>9 DEF storageVars, bondFiles, bonds
<1>10. QED
  BY <1>5, <1>6, <1>7, <1>8, <1>9, BondsStoreKeys, BondsStoreCccd, BondsRemove DEF StorageNext

-----------------------------------------------------------------------------
(* The theorems. *)

\* The invariant holds before anything is stored.
LEMMA InitStorage == StorageInit => SInv
<1> SUFFICES ASSUME StorageInit
             PROVE  SInv
  OBVIOUS
<1> USE DEF StorageInit
<1>1. NoKeys \in Keys /\ Absent \in Values
  BY DEF NoKeys, Keys, Values
<1>2. BondTypes
  BY <1>1 DEF BondTypes
<1>3. BondsSurviveRestart
  BY DEF BondsSurviveRestart, KeysSurviveRestart, SubscriptionsSurviveRestart, LoadedKeys, KeysIn,
         ValueIn, AbsentKeys, TornKeys, NoKeys, Absent, Torn
<1>4. FilesInv
  <2>1. CInv
    BY InitCInv
  <2>2. unbonded \in Seq(Key) /\ Distinct(unbonded) /\ Len(unbonded) = 0
    BY DEF Distinct
  <2>3. loaded = FALSE /\ Len(unbonded) <= Capacity
    BY <2>2, CacheAssumption
  <2> HIDE DEF StorageInit
  <2>4. QED
    BY <2>1, <2>2, <2>3 DEF FilesInv, EvictedFilesAreGone
<1>5. QED
  BY <1>2, <1>3, <1>4 DEF SInv, BondsInv

\* The invariant of the storage.
THEOREM StorageInvariant == StorageSpec => []SInv
<1>1. SInv /\ [StorageNext]_storageVars => SInv'
  BY BondsStep, FilesStep DEF SInv
<1>2. QED
  BY <1>1, InitStorage, PTL DEF StorageSpec

\* The keys and values answered for a peer are those last stored, before and after any number of
\* restarts, whatever went wrong with an earlier write or removal.
THEOREM StoredBondsSurvive == StorageSpec => []BondsSurviveRestart
<1>1. SInv => BondsSurviveRestart
  BY DEF SInv, BondsInv
<1>2. QED
  BY <1>1, StorageInvariant, PTL

\* There are never more files of unbonded peers than the cache takes, and each belongs to a peer
\* of the cache.
THEOREM StoredFilesAreBounded == StorageSpec => []EvictedFilesAreGone
<1>1. SInv => EvictedFilesAreGone
  BY DEF SInv, FilesInv
<1>2. QED
  BY <1>1, StorageInvariant, PTL

\* The cache of unbonded peers stays sound although it is filled from the files.
THEOREM StoredCacheIsSound == StorageSpec => []CacheIsSound
<1>1. SInv => CacheIsSound
  BY DEF SInv, FilesInv, CInv, CacheIsSound, VictimExists
<1>2. QED
  BY <1>1, StorageInvariant, PTL

-----------------------------------------------------------------------------
(* Prepared writes. *)

\* A set of natural numbers has a smallest.
LEMMA Smallest ==
  ASSUME NEW S \in SUBSET Nat, S # {}
  PROVE  \E x \in S : \A y \in S : x <= y
<1> DEFINE R == {ss \in Nat \X Nat : ss[1] < ss[2]}
<1>1. IsWellFoundedOn(R, Nat)
  BY NatLessThanWellFounded DEF OpToRel
<1> HIDE DEF R
<1>2. PICK x \in S : \A y \in S : ~(<<y, x>> \in R)
  BY <1>1, WFMin
<1>3. \A y \in S : ~(y < x)
  BY <1>2 DEF R
<1>4. QED
  BY <1>3

-----------------------------------------------------------------------------
(* The bytes of a sequence of writes. Bytes is a recursive function: that  *)
(* there is one, and no other, is shown by the smallest counterexample.    *)

Write == [attribute : Attribute, offset : Nat, length : Nat]
Byte == Attribute \X Nat

\* f gives the bytes of the first writes of q, up to n of them.
IsBytes(f, q, n) == f = [i \in 0 .. n |-> IF i = 0 THEN <<>> ELSE f[i - 1] \o BytesOf(q[i])]

LEMMA IsBytesMeans ==
  ASSUME NEW q, NEW n \in Nat, NEW f, IsBytes(f, q, n)
  PROVE  /\ DOMAIN f = 0 .. n /\ f[0] = <<>>
         /\ \A i \in 1 .. n : f[i] = f[i - 1] \o BytesOf(q[i])
<1> DEFINE F == [i \in 0 .. n |-> IF i = 0 THEN <<>> ELSE f[i - 1] \o BytesOf(q[i])]
<1>1. f = F
  BY DEF IsBytes
<1>2. DOMAIN F = 0 .. n /\ F[0] = <<>> /\ \A i \in 1 .. n : F[i] = f[i - 1] \o BytesOf(q[i])
  <2>1. 0 \in 0 .. n /\ \A i \in 1 .. n : i \in 0 .. n /\ i # 0
    OBVIOUS
  <2>2. DOMAIN F = 0 .. n /\ F[0] = <<>>
    BY <2>1
  <2>3. ASSUME NEW i \in 1 .. n
        PROVE  F[i] = f[i - 1] \o BytesOf(q[i])
    BY <2>1
  <2>4. QED
    BY <2>2, <2>3
<1> HIDE DEF F
<1>3. QED
  BY <1>1, <1>2

LEMMA BytesExist ==
  ASSUME NEW q, NEW n \in Nat
  PROVE  \E f : IsBytes(f, q, n)
<1> DEFINE Bad == {m \in Nat : ~\E f : IsBytes(f, q, m)}
<1> SUFFICES ASSUME Bad # {}
             PROVE  FALSE
  OBVIOUS
<1>1. PICK m \in Bad : \A k \in Bad : m <= k
  <2>1. Bad \in SUBSET Nat
    OBVIOUS
  <2> HIDE DEF Bad
  <2>2. QED
    BY <2>1, Smallest
<1>2. m # 0
  <2> SUFFICES ASSUME m = 0
               PROVE  FALSE
    OBVIOUS
  <2> DEFINE f == [i \in 0 .. 0 |-> <<>>]
  <2>1. f = [i \in 0 .. 0 |-> IF i = 0 THEN <<>> ELSE f[i - 1] \o BytesOf(q[i])]
    OBVIOUS
  <2> HIDE DEF f
  <2>2. IsBytes(f, q, 0)
    BY <2>1 DEF IsBytes
  <2>3. QED
    BY <2>2
<1>3. m \in Nat /\ m - 1 \in Nat /\ m - 1 \notin Bad
  BY <1>1, <1>2
<1>4. PICK f : IsBytes(f, q, m - 1)
  BY <1>3
<1>5. /\ f[0] = <<>>
      /\ \A i \in 1 .. m - 1 : f[i] = f[i - 1] \o BytesOf(q[i])
  BY <1>3, <1>4, IsBytesMeans
<1> DEFINE g == [i \in 0 .. m |-> IF i <= m - 1 THEN f[i] ELSE f[m - 1] \o BytesOf(q[m])]
           G == [i \in 0 .. m |-> IF i = 0 THEN <<>> ELSE g[i - 1] \o BytesOf(q[i])]
<1>6. ASSUME NEW i \in 0 .. m
      PROVE  g[i] = G[i]
  <2>1. CASE i = 0
    BY <1>3, <1>5, <2>1
  <2>2. CASE i \in 1 .. m - 1
    <3>1. i - 1 \in 0 .. m /\ i - 1 <= m - 1 /\ i <= m - 1 /\ i # 0
      BY <1>3, <2>2
    <3>2. g[i] = f[i] /\ g[i - 1] = f[i - 1]
      BY <3>1
    <3>3. G[i] = g[i - 1] \o BytesOf(q[i])
      BY <3>1
    <3> HIDE DEF g, G
    <3>4. QED
      BY <1>5, <2>2, <3>2, <3>3
  <2>3. CASE i = m
    <3>1. m - 1 \in 0 .. m /\ m - 1 <= m - 1 /\ ~(m <= m - 1) /\ m # 0 /\ m \in 0 .. m
      BY <1>2, <1>3
    <3>2. g[m] = f[m - 1] \o BytesOf(q[m]) /\ g[m - 1] = f[m - 1]
      BY <3>1
    <3>3. G[m] = g[m - 1] \o BytesOf(q[m])
      BY <3>1
    <3> HIDE DEF g, G
    <3>4. QED
      BY <2>3, <3>2, <3>3
  <2>4. QED
    BY <1>3, <2>1, <2>2, <2>3
<1>7. g = G
  BY <1>6
<1>8. IsBytes(g, q, m)
  <2> DEFINE h == g
  <2>1. h = [i \in 0 .. m |-> IF i = 0 THEN <<>> ELSE h[i - 1] \o BytesOf(q[i])]
    BY <1>7
  <2> HIDE DEF g
  <2>2. QED
    BY <2>1 DEF IsBytes
<1>9. QED
  BY <1>1, <1>8

\* The first k writes are the same.
SameUpTo(q, r, k) == \A i \in 1 .. k : q[i] = r[i]

\* Where the writes are the same, so are the bytes.
LEMMA BytesAgree ==
  ASSUME NEW q, NEW r, NEW m \in Nat, NEW n \in Nat, NEW f, NEW g,
         IsBytes(f, q, m), IsBytes(g, r, n),
         NEW k \in Nat, k <= m, k <= n, SameUpTo(q, r, k)
  PROVE  \A i \in 0 .. k : f[i] = g[i]
<1> DEFINE Bad == {i \in 0 .. k : f[i] # g[i]}
<1> SUFFICES ASSUME Bad # {}
             PROVE  FALSE
  OBVIOUS
<1>1. PICK j \in Bad : \A i \in Bad : j <= i
  <2>1. Bad \in SUBSET Nat
    OBVIOUS
  <2> HIDE DEF Bad
  <2>2. QED
    BY <2>1, Smallest
<1>2. /\ f[0] = <<>> /\ g[0] = <<>>
      /\ \A i \in 1 .. m : f[i] = f[i - 1] \o BytesOf(q[i])
      /\ \A i \in 1 .. n : g[i] = g[i - 1] \o BytesOf(r[i])
  BY IsBytesMeans
<1>3. j \in 0 .. k /\ j # 0
  BY <1>1, <1>2
<1>4. j \in 1 .. k /\ j \in 1 .. m /\ j \in 1 .. n /\ j - 1 \in 0 .. k /\ ~(j <= j - 1)
  BY <1>3
<1>5. f[j - 1] = g[j - 1]
  BY <1>1, <1>4
<1>6. f[j] = g[j]
  BY <1>2, <1>4, <1>5 DEF SameUpTo
<1>7. QED
  BY <1>1, <1>6

LEMMA BytesIs ==
  ASSUME NEW q, Len(q) \in Nat
  PROVE  \E f : IsBytes(f, q, Len(q)) /\ Bytes(q) = f[Len(q)]
<1>1. Bytes(q) = (CHOOSE f : IsBytes(f, q, Len(q)))[Len(q)]
  BY DEF Bytes, IsBytes
<1>2. IsBytes(CHOOSE f : IsBytes(f, q, Len(q)), q, Len(q))
  BY BytesExist
<1>3. QED
  BY <1>1, <1>2

LEMMA BytesOfType ==
  ASSUME NEW w \in Write
  PROVE  BytesOf(w) \in Seq(Byte) /\ Len(BytesOf(w)) = w.length
<1>1. w.attribute \in Attribute /\ w.offset \in Nat /\ w.length \in Nat
  BY DEF Write
<1>2. \A k \in 1 .. w.length : <<w.attribute, w.offset + k - 1>> \in Byte
  BY <1>1 DEF Byte
<1>3. BytesOf(w) \in [1 .. w.length -> Byte]
  BY <1>2 DEF BytesOf
<1>4. QED
  BY <1>1, <1>3

\* The bytes of the first writes are a sequence of bytes.
LEMMA BytesType ==
  ASSUME NEW q \in Seq(Write), NEW n \in Nat, n <= Len(q), NEW f, IsBytes(f, q, n)
  PROVE  \A i \in 0 .. n : f[i] \in Seq(Byte)
<1> DEFINE Bad == {i \in 0 .. n : f[i] \notin Seq(Byte)}
<1> SUFFICES ASSUME Bad # {}
             PROVE  FALSE
  OBVIOUS
<1>1. PICK j \in Bad : \A i \in Bad : j <= i
  <2>1. Bad \in SUBSET Nat
    OBVIOUS
  <2> HIDE DEF Bad
  <2>2. QED
    BY <2>1, Smallest
<1>2. f[0] = <<>> /\ \A i \in 1 .. n : f[i] = f[i - 1] \o BytesOf(q[i])
  BY IsBytesMeans
<1>3. j \in 0 .. n /\ j # 0
  BY <1>1, <1>2, EmptySeq
<1>4. j \in 1 .. n /\ j - 1 \in 0 .. n /\ ~(j <= j - 1)
  BY <1>3
<1>5. f[j - 1] \in Seq(Byte)
  BY <1>1, <1>4
<1>6. q[j] \in Write
  <2>1. Len(q) \in Nat
    BY LenProperties
  <2>2. j \in 1 .. Len(q)
    BY <1>4, <2>1
  <2>3. QED
    BY <2>2, ElementOfSeq
<1>7. f[j - 1] \o BytesOf(q[j]) \in Seq(Byte)
  BY <1>5, <1>6, BytesOfType, ConcatProperties
<1>8. QED
  BY <1>1, <1>2, <1>4, <1>7

LEMMA BytesEmpty == Bytes(<<>>) = <<>>
<1> DEFINE e == <<>>
<1>1. Len(e) = 0
  OBVIOUS
<1> HIDE DEF e
<1>2. PICK f : IsBytes(f, e, 0) /\ Bytes(e) = f[0]
  BY <1>1, BytesIs
<1>3. f[0] = <<>>
  BY <1>2, IsBytesMeans
<1>4. QED
  BY <1>2, <1>3 DEF e

\* A write more carries its bytes after the others.
LEMMA BytesAppend ==
  ASSUME NEW q \in Seq(Write), NEW w \in Write
  PROVE  Bytes(Append(q, w)) = Bytes(q) \o BytesOf(w)
<1> DEFINE r == Append(q, w)
           n == Len(q)
<1>1. n \in Nat /\ Len(r) = n + 1 /\ r[n + 1] = w /\ \A i \in 1 .. n : r[i] = q[i]
  BY LenProperties, AppendProperties
<1> HIDE DEF r, n
<1>2. PICK f : IsBytes(f, q, n) /\ Bytes(q) = f[n]
  BY <1>1, BytesIs DEF n
<1>3. PICK g : IsBytes(g, r, n + 1) /\ Bytes(r) = g[n + 1]
  BY <1>1, BytesIs
<1>4. g[n] = f[n]
  <2>1. n + 1 \in Nat /\ n <= n + 1 /\ n <= n /\ n \in 0 .. n
    BY <1>1
  <2>2. IsBytes(f, q, n) /\ IsBytes(g, r, n + 1) /\ SameUpTo(q, r, n)
    BY <1>1, <1>2, <1>3 DEF SameUpTo
  <2>3. \A i \in 0 .. n : f[i] = g[i]
    BY <1>1, <2>1, <2>2, BytesAgree
  <2>4. QED
    BY <2>1, <2>3
<1>5. g[n + 1] = g[n] \o BytesOf(w)
  <2>1. n + 1 \in Nat /\ n + 1 \in 1 .. n + 1 /\ n + 1 - 1 = n
    BY <1>1
  <2>2. IsBytes(g, r, n + 1)
    BY <1>3
  <2>3. \A m \in 1 .. n + 1 : g[m] = g[m - 1] \o BytesOf(r[m])
    BY <2>1, <2>2, IsBytesMeans
  <2>4. \A m \in 1 .. n + 1 : m = n + 1 => g[m] = g[n] \o BytesOf(w)
    <3> TAKE m \in 1 .. n + 1
    <3> HAVE m = n + 1
    <3>1. m - 1 = n
      BY <1>1
    <3>2. g[m] = g[m - 1] \o BytesOf(r[m])
      BY <2>3
    <3>3. r[m] = w
      BY <1>1
    <3>4. QED
      BY <3>1, <3>2, <3>3
  <2>5. QED
    BY <2>1, <2>4
<1>6. QED
  BY <1>2, <1>3, <1>4, <1>5 DEF r

LEMMA PastTheFirst ==
  ASSUME NEW a \in Nat, NEW b \in Nat, NEW k \in 1 .. a + b, ~(k <= a)
  PROVE  k - a \in 1 .. b
OBVIOUS

\* So does a longer last write, if what it gains follows it.
LEMMA BytesExtend ==
  ASSUME NEW q \in Seq(Write), q # <<>>, NEW w \in Write, Follows(q[Len(q)], w)
  PROVE  LET r == [q EXCEPT ![Len(q)].length = @ + w.length]
         IN r \in Seq(Write) /\ Bytes(r) = Bytes(q) \o BytesOf(w)
<1> DEFINE n == Len(q)
           last == q[n]
           long == [last EXCEPT !.length = @ + w.length]
           r == [q EXCEPT ![n] = long]
<1>1. n \in Nat /\ n # 0 /\ n \in 1 .. n /\ last \in Write
  <2>1. n \in Nat \ {0}
    BY EmptySeq
  <2>2. QED
    BY <2>1, ElementOfSeq
<1>2. /\ long \in Write /\ long.attribute = last.attribute /\ long.offset = last.offset
      /\ long.length = last.length + w.length
  <2>1. /\ last \in [attribute : Attribute, offset : Nat, length : Nat]
        /\ last.length \in Nat /\ w.length \in Nat
    BY <1>1 DEF Write
  <2>2. last.length + w.length \in Nat
    BY <2>1
  <2> HIDE DEF last
  <2>3. QED
    BY <2>1, <2>2 DEF Write
<1>3. BytesOf(long) = BytesOf(last) \o BytesOf(w)
  <2> DEFINE a == BytesOf(last)
             b == BytesOf(w)
             c == BytesOf(long)
  <2>1. /\ last.length \in Nat /\ w.length \in Nat /\ last.offset \in Nat
        /\ last.attribute = w.attribute /\ last.offset + last.length = w.offset
    BY <1>1 DEF Write, Follows
  <2>2. /\ a \in Seq(Byte) /\ Len(a) = last.length /\ b \in Seq(Byte) /\ Len(b) = w.length
        /\ c \in Seq(Byte) /\ Len(c) = long.length
    BY <1>1, <1>2, BytesOfType
  <2>3. /\ \A k \in 1 .. last.length : a[k] = <<last.attribute, last.offset + k - 1>>
        /\ \A k \in 1 .. w.length : b[k] = <<w.attribute, w.offset + k - 1>>
        /\ \A k \in 1 .. long.length : c[k] = <<long.attribute, long.offset + k - 1>>
    BY DEF BytesOf
  <2> HIDE DEF a, b, c, long, last
  <2>4. /\ a \o b \in Seq(Byte) /\ Len(a \o b) = Len(a) + Len(b)
        /\ \A k \in 1 .. Len(a) + Len(b) : (a \o b)[k] = IF k <= Len(a) THEN a[k] ELSE b[k - Len(a)]
    BY <2>2, ConcatProperties
  <2>5. ASSUME NEW k \in 1 .. long.length
        PROVE  c[k] = (a \o b)[k]
    <3>1. c[k] = <<last.attribute, last.offset + k - 1>>
      BY <1>2, <2>3
    <3>2. k \in 1 .. last.length + w.length /\ k \in Nat
      BY <1>2, <2>1
    <3>3. CASE k <= last.length
      <4>1. (a \o b)[k] = a[k] /\ k \in 1 .. last.length
        BY <2>1, <2>2, <2>4, <3>2, <3>3
      <4>2. QED
        BY <2>3, <3>1, <4>1
    <3>4. CASE ~(k <= last.length)
      <4>1. (a \o b)[k] = b[k - last.length] /\ k - last.length \in 1 .. w.length
        <5>1. k \in 1 .. Len(a) + Len(b) /\ ~(k <= Len(a)) /\ Len(a) = last.length
          BY <2>2, <3>2, <3>4
        <5>2. (a \o b)[k] = b[k - Len(a)]
          BY <2>4, <5>1
        <5>3. k - last.length \in 1 .. w.length
          BY <2>1, <3>2, <3>4, PastTheFirst
        <5>4. QED
          BY <5>1, <5>2, <5>3
      <4>2. b[k - last.length] = <<w.attribute, w.offset + (k - last.length) - 1>>
        BY <2>3, <4>1
      <4>3. w.offset + (k - last.length) - 1 = last.offset + k - 1
        BY <2>1, <3>2
      <4>4. QED
        BY <2>1, <3>1, <4>1, <4>2, <4>3
    <3>5. QED
      BY <3>3, <3>4
  <2>6. Len(c) = Len(a \o b)
    BY <1>2, <2>2, <2>4
  <2> DEFINE d == a \o b
  <2> HIDE DEF d
  <2>7. d \in Seq(Byte) /\ Len(d) = Len(c) /\ \A k \in 1 .. Len(c) : c[k] = d[k]
    BY <2>2, <2>4, <2>5, <2>6 DEF d
  <2>8. c = d
    BY <2>2, <2>7, SeqEqual
  <2>9. QED
    BY <2>8 DEF a, b, c, d
<1>4. r = [q EXCEPT ![Len(q)].length = @ + w.length]
  BY <1>1 DEF Write
<1>5. /\ r \in Seq(Write) /\ Len(r) = n /\ r[n] = long
      /\ \A i \in 1 .. n - 1 : r[i] = q[i]
  <2>1. q \in [1 .. n -> Write]
    BY LenProperties
  <2>2. r \in [1 .. n -> Write] /\ r[n] = long /\ \A i \in 1 .. n : i # n => r[i] = q[i]
    BY <1>1, <1>2, <2>1
  <2> HIDE DEF r, n, long
  <2>3. r \in Seq(Write) /\ Len(r) = n
    BY <1>1, <2>2
  <2>4. \A i \in 1 .. n - 1 : i \in 1 .. n /\ i # n
    BY <1>1
  <2>5. QED
    BY <2>2, <2>3, <2>4
<1> HIDE DEF r, n, last, long
<1>6. PICK f : IsBytes(f, q, n) /\ Bytes(q) = f[n]
  BY <1>1, BytesIs DEF n
<1>7. PICK g : IsBytes(g, r, n) /\ Bytes(r) = g[n]
  BY <1>1, <1>5, BytesIs
<1>8. n - 1 \in Nat /\ n - 1 <= n /\ n - 1 \in 0 .. n - 1 /\ n - 1 \in 0 .. n /\ n <= n
  BY <1>1
<1>9. g[n - 1] = f[n - 1]
  <2>1. \A i \in 0 .. n - 1 : g[i] = f[i]
    <3>1. IsBytes(f, q, n) /\ IsBytes(g, r, n) /\ SameUpTo(q, r, n - 1)
      BY <1>5, <1>6, <1>7 DEF SameUpTo
    <3>2. \A i \in 0 .. n - 1 : f[i] = g[i]
      BY <1>1, <1>8, <3>1, BytesAgree
    <3>3. QED
      BY <3>2
  <2>2. QED
    BY <1>8, <2>1
<1>10. f[n] = f[n - 1] \o BytesOf(last) /\ g[n] = g[n - 1] \o BytesOf(long)
  BY <1>1, <1>5, <1>6, <1>7, IsBytesMeans DEF last
<1>11. f[n - 1] \in Seq(Byte)
  <2>1. n \in Nat /\ n <= Len(q) /\ IsBytes(f, q, n)
    BY <1>1, <1>6, <1>8 DEF n
  <2>2. \A i \in 0 .. n : f[i] \in Seq(Byte)
    BY <2>1, BytesType
  <2>3. QED
    BY <1>1, <1>8, <2>2
<1>12. (f[n - 1] \o BytesOf(last)) \o BytesOf(w) = f[n - 1] \o (BytesOf(last) \o BytesOf(w))
  <2>1. BytesOf(last) \in Seq(Byte) /\ BytesOf(w) \in Seq(Byte)
    BY <1>1, BytesOfType
  <2>2. \A x, a, b \in Seq(Byte) : (x \o a) \o b = x \o (a \o b)
    BY ConcatAssociative
  <2>3. QED
    BY <1>11, <2>1, <2>2
<1>13. QED
  BY <1>3, <1>4, <1>5, <1>6, <1>7, <1>9, <1>10, <1>12

-----------------------------------------------------------------------------
(* Prepared writes are executed as they were prepared.                     *)

Results(n) == [1 .. n -> {"ok", "error", "later"}]

Execution == [elems : Seq(Write), results : UNION {Results(n) : n \in Nat},
              answer : {"none", "ok", "error"}, wanted : Seq(Write)]

\* What an execution is: its writes carry what was prepared, and its answer is what its
\* results say.
ToldTruly(x) ==
  /\ Bytes(x.elems) = Bytes(x.wanted)
  /\ x.answer = AnswerTo(x.results)
  /\ x.answer # "error" => Len(x.results) = Len(x.elems)

\* As long as it is not answered it is the one that is under way.
Faithful(x, e) == ToldTruly(x) /\ (x.answer = "none" => e = currentExecution)

\* The queue carries what was prepared, and so does every execution.
PrepInv ==
  /\ prepareWriteQueue \in Seq(Write) /\ prepared \in Seq(Write)
  /\ authorizing = NoPiece \/ \E piece \in Piece : authorizing = <<piece>>
  /\ Bytes(prepareWriteQueue) = Bytes(prepared)
  /\ executions \in Seq(Execution)
  /\ \A e \in DOMAIN executions : Faithful(executions[e], e)

\* What the answer tells of the results.
LEMMA AnswerMeans ==
  ASSUME NEW results
  PROVE  /\ AnswerTo(results) \in {"none", "ok", "error"}
         /\ AnswerTo(results) = "error" <=> \E i \in DOMAIN results : results[i] = "error"
         /\ AnswerTo(results) = "ok" => \A i \in DOMAIN results : results[i] = "ok"
<1>1. CASE \E i \in DOMAIN results : results[i] = "error"
  BY <1>1 DEF AnswerTo
<1>2. CASE ~\E i \in DOMAIN results : results[i] = "error"
  BY <1>2 DEF AnswerTo
<1>3. QED
  BY <1>1, <1>2

\* The piece that is prepared goes behind those there are.
LEMMA WithPieceDoes ==
  ASSUME NEW q \in Seq(Write), NEW w \in Write
  PROVE  WithPiece(q, w) \in Seq(Write) /\ Bytes(WithPiece(q, w)) = Bytes(q) \o BytesOf(w)
<1>1. CASE Continues(q, w)
  <2>1. q # <<>> /\ Follows(q[Len(q)], w)
    BY <1>1 DEF Continues
  <2>2. WithPiece(q, w) = [q EXCEPT ![Len(q)].length = @ + w.length]
    BY <1>1 DEF WithPiece
  <2>3. QED
    BY <2>1, <2>2, BytesExtend
<1>2. CASE ~Continues(q, w)
  BY <1>2, BytesAppend, AppendProperties DEF WithPiece
<1>3. QED
  BY <1>1, <1>2

LEMMA PieceIsWrite == \A piece \in Piece : piece \in Write
BY PreparedAssumption DEF Piece, Write

LEMMA PreparedInit == PrepInit => PrepInv
<1> SUFFICES ASSUME PrepInit PROVE PrepInv
  OBVIOUS
<1>1. prepareWriteQueue \in Seq(Write) /\ prepared \in Seq(Write) /\ executions \in Seq(Execution)
  BY DEF PrepInit
<1>2. DOMAIN executions = {}
  BY DEF PrepInit
<1>3. QED
  BY <1>1, <1>2 DEF PrepInit, PrepInv

\* In a step that neither starts nor changes an execution.
LEMMA PrepAfter ==
  ASSUME PrepInv, UNCHANGED <<executions, currentExecution>>,
         prepareWriteQueue' \in Seq(Write), prepared' \in Seq(Write),
         Bytes(prepareWriteQueue)' = Bytes(prepared)',
         authorizing' = NoPiece \/ \E piece \in Piece : authorizing' = <<piece>>
  PROVE  PrepInv'
BY DEF PrepInv, Faithful

LEMMA PrepareInv ==
  ASSUME PrepInv, NEW piece \in Piece, PrepareWriteRequest(piece)
  PROVE  PrepInv'
<1>1. UNCHANGED <<prepareWriteQueue, currentExecution, executions, prepared>>
      /\ (authorizing' = NoPiece \/ authorizing' = <<piece>>)
  BY DEF PrepareWriteRequest
<1>2. QED
  BY <1>1, PrepAfter DEF PrepInv

LEMMA AuthorizedInv ==
  ASSUME PrepInv, NEW permitted \in BOOLEAN, Authorized(permitted)
  PROVE  PrepInv'
<1>1. /\ authorizing # NoPiece /\ authorizing' = NoPiece
      /\ UNCHANGED <<currentExecution, executions>>
  BY DEF Authorized
<1>2. PICK piece \in Piece : authorizing = <<piece>>
  BY <1>1 DEF PrepInv
<1>3. piece \in Write /\ authorizing[1] = piece
  BY <1>2, PieceIsWrite
<1>4. CASE permitted
  <2>1. prepareWriteQueue' = WithPiece(prepareWriteQueue, piece) /\ prepared' = Append(prepared, piece)
    BY <1>3, <1>4 DEF Authorized
  <2>2. /\ prepareWriteQueue' \in Seq(Write)
        /\ Bytes(prepareWriteQueue') = Bytes(prepareWriteQueue) \o BytesOf(piece)
    BY <1>3, <2>1, WithPieceDoes DEF PrepInv
  <2>3. prepared' \in Seq(Write) /\ Bytes(prepared') = Bytes(prepared) \o BytesOf(piece)
    BY <1>3, <2>1, BytesAppend, AppendProperties DEF PrepInv
  <2>4. Bytes(prepareWriteQueue') = Bytes(prepared')
    BY <2>2, <2>3 DEF PrepInv
  <2>5. QED
    BY <1>1, <2>2, <2>3, <2>4, PrepAfter
<1>5. CASE ~permitted
  <2>1. UNCHANGED <<prepareWriteQueue, prepared>>
    BY <1>5 DEF Authorized
  <2>2. QED
    BY <1>1, <2>1, PrepAfter DEF PrepInv
<1>6. QED
  BY <1>4, <1>5

\* Without a queue there is nothing prepared.
LEMMA DropDoes ==
  ASSUME DropQueue
  PROVE  /\ prepareWriteQueue' \in Seq(Write) /\ prepared' \in Seq(Write)
         /\ Bytes(prepareWriteQueue') = Bytes(prepared')
BY DEF DropQueue

LEMMA CancelInv ==
  ASSUME PrepInv, CancelWriteRequest
  PROVE  PrepInv'
<1>1. DropQueue /\ UNCHANGED <<authorizing, currentExecution, executions>>
  BY DEF CancelWriteRequest
<1>2. QED
  BY <1>1, DropDoes, PrepAfter DEF PrepInv

\* The writes are started up to the first error.
LEMMA StartedIs ==
  ASSUME NEW n \in Nat, NEW all \in Results(n)
  PROVE  /\ Started(all) \in 0 .. n /\ n # 0 => Started(all) # 0
         /\ (\E i \in 1 .. n : all[i] = "error") =>
              Started(all) \in 1 .. n /\ all[Started(all)] = "error"
         /\ (~\E i \in 1 .. n : all[i] = "error") => Started(all) = n
<1> DEFINE errors == {i \in DOMAIN all : all[i] = "error"}
<1>1. DOMAIN all = 1 .. n /\ Len(all) = n
  BY DEF Results
<1>2. CASE errors = {}
  <2>1. Started(all) = n
    BY <1>1, <1>2 DEF Started
  <2>2. QED
    BY <1>1, <1>2, <2>1
<1>3. CASE errors # {}
  <2>1. errors \in SUBSET Nat
    BY <1>1
  <2>2. PICK m \in errors : \A j \in errors : m <= j
    <3> HIDE DEF errors
    <3>1. QED
      BY <1>3, <2>1, Smallest
  <2>3. Started(all) = CHOOSE i \in errors : \A j \in errors : i <= j
    BY <1>3 DEF Started
  <2> HIDE DEF errors
  <2>4. Started(all) \in errors
    BY <2>2, <2>3
  <2>5. QED
    BY <1>1, <2>4 DEF errors
<1>4. QED
  BY <1>2, <1>3

\* An execution is put behind the others.
LEMMA ExecutionAdded ==
  ASSUME PrepInv, NEW x \in Execution, executions' = Append(executions, x),
         UNCHANGED authorizing, currentExecution \notin DOMAIN executions,
         ToldTruly(x), x.answer = "none" => Len(executions) + 1 = currentExecution',
         prepareWriteQueue' \in Seq(Write), prepared' \in Seq(Write),
         Bytes(prepareWriteQueue)' = Bytes(prepared)'
  PROVE  PrepInv'
<1> DEFINE n == Len(executions)
<1>1. n \in Nat /\ DOMAIN executions = 1 .. n
  BY LenProperties DEF PrepInv
<1>2. /\ executions' \in Seq(Execution) /\ DOMAIN executions' = 1 .. n + 1
      /\ executions'[n + 1] = x /\ \A e \in 1 .. n : executions'[e] = executions[e]
  <2>1. executions \in Seq(Execution)
    BY DEF PrepInv
  <2>2. /\ executions' \in Seq(Execution) /\ Len(executions') = n + 1
        /\ executions'[n + 1] = x /\ \A e \in 1 .. n : executions'[e] = executions[e]
    BY <2>1, AppendProperties
  <2>3. QED
    BY <2>2, LenProperties
<1>3. ASSUME NEW e \in 1 .. n + 1
      PROVE  Faithful(executions[e], e)'
  <2>1. CASE e = n + 1
    BY <1>2, <2>1 DEF Faithful, ToldTruly
  <2>2. CASE e \in 1 .. n
    <3>1. Faithful(executions[e], e) /\ executions[e].answer # "none"
      BY <1>1, <2>2 DEF PrepInv, Faithful, ToldTruly
    <3>2. QED
      BY <1>2, <2>2, <3>1 DEF Faithful, ToldTruly
  <2>3. QED
    BY <1>1, <2>1, <2>2
<1>4. QED
  BY <1>2, <1>3 DEF PrepInv

LEMMA ExecuteInv ==
  ASSUME PrepInv, ExecuteWriteRequest
  PROVE  PrepInv'
<1> DEFINE q == prepareWriteQueue
           m == Len(executions)
<1>1. ~IsHandlingRequest /\ q # <<>> /\ UNCHANGED authorizing
  BY DEF ExecuteWriteRequest
<1>2. currentExecution = 0
  BY <1>1 DEF IsHandlingRequest
<1>3. q \in Seq(Write) /\ Len(q) \in Nat /\ Len(q) # 0 /\ DOMAIN q = 1 .. Len(q)
  BY <1>1, LenProperties, EmptySeq DEF PrepInv
<1>4. CASE \E i \in DOMAIN q : TooLong(q[i])
  <2>1. DropQueue /\ UNCHANGED <<currentExecution, executions>>
    BY <1>4 DEF ExecuteWriteRequest
  <2>2. QED
    BY <1>1, <2>1, DropDoes, PrepAfter DEF PrepInv
<1>5. CASE ~\E i \in DOMAIN q : TooLong(q[i])
  <2>1. PICK all \in [DOMAIN q -> {"ok", "error", "later"}] :
          LET n == Started(all)
              results == SubSeq(all, 1, n)
              answer == AnswerAfter(results)
          IN /\ executions' = Append(executions, [elems |-> q, results |-> results,
                                                  answer |-> answer, wanted |-> prepared])
             /\ IF answer = "none"
                THEN /\ currentExecution' = m + 1
                     /\ UNCHANGED <<prepareWriteQueue, prepareWriteQueueSize, prepared>>
                ELSE DropQueue /\ UNCHANGED currentExecution
    BY <1>5 DEF ExecuteWriteRequest
  <2> DEFINE n == Started(all)
             results == SubSeq(all, 1, n)
             answer == AnswerTo(results)
             x == [elems |-> q, results |-> results, answer |-> answer, wanted |-> prepared]
  <2>2. /\ executions' = Append(executions, x)
        /\ IF answer = "none"
           THEN currentExecution' = m + 1 /\ UNCHANGED <<prepareWriteQueue, prepared>>
           ELSE DropQueue
    BY <2>1 DEF AnswerAfter
  <2>3. all \in Results(Len(q))
    BY <1>3 DEF Results
  <2>4. /\ n \in 0 .. Len(q) /\ n # 0
        /\ (\E i \in 1 .. Len(q) : all[i] = "error") => n \in 1 .. Len(q) /\ all[n] = "error"
        /\ (~\E i \in 1 .. Len(q) : all[i] = "error") => n = Len(q)
    BY <1>3, <2>3, StartedIs
  <2> HIDE DEF n
  <2>5. results \in Results(n) /\ Len(results) = n /\ DOMAIN results = 1 .. n
        /\ \A i \in 1 .. n : results[i] = all[i]
    <3>1. \A i \in 1 .. n : all[i] \in {"ok", "error", "later"}
      <4>1. Len(q) \in Nat /\ n \in 0 .. Len(q)
        BY <1>3, <2>4, Zenon
      <4> HIDE DEF q
      <4>2. \A i \in 1 .. n : i \in 1 .. Len(q)
        BY <4>1
      <4>3. QED
        BY <2>3, <4>2 DEF Results
    <3>2. /\ results \in Seq({"ok", "error", "later"}) /\ Len(results) = n - 1 + 1
          /\ \A i \in 1 .. n - 1 + 1 : results[i] = all[1 + i - 1]
      BY <2>4, <3>1, SubSeqProperties
    <3>3. n - 1 + 1 = n /\ \A i \in 1 .. n : 1 + i - 1 = i
      BY <2>4
    <3> HIDE DEF results
    <3>4. Len(results) = n /\ \A i \in 1 .. n : results[i] = all[i]
      BY <3>2, <3>3
    <3>5. results \in [1 .. n -> {"ok", "error", "later"}]
      BY <3>2, <3>4, LenProperties
    <3>6. QED
      BY <3>4, <3>5 DEF Results
  <2> HIDE DEF results
  <2>6. /\ answer \in {"none", "ok", "error"}
        /\ answer = "error" <=> \E i \in 1 .. n : results[i] = "error"
    BY <2>5, AnswerMeans
  <2>7. answer # "error" => n = Len(q)
    BY <2>4, <2>5, <2>6
  <2>8. x \in Execution
    <3>0. Len(q) \in Nat /\ n \in 0 .. Len(q)
      BY <1>3, <2>4, Zenon
    <3>1. n \in Nat
      BY <3>0
    <3>2. results \in UNION {Results(k) : k \in Nat}
      BY <2>5, <3>1
    <3>3. prepared \in Seq(Write)
      BY DEF PrepInv
    <3> HIDE DEF answer
    <3>4. QED
      BY <1>3, <2>6, <3>2, <3>3 DEF Execution
  <2>9. Bytes(q) = Bytes(prepared)
    BY DEF PrepInv
  <2>10. ToldTruly(x) /\ (x.answer = "none" => m + 1 = currentExecution')
    <3>1. Bytes(x.elems) = Bytes(x.wanted) /\ x.answer = AnswerTo(x.results)
      BY <2>9
    <3>2. x.answer # "error" => Len(x.results) = Len(x.elems)
      BY <2>5, <2>7
    <3>3. x.answer = "none" => m + 1 = currentExecution'
      BY <2>2
    <3>4. QED
      BY <3>1, <3>2, <3>3 DEF ToldTruly
  <2> HIDE DEF x, answer
  <2>11. /\ prepareWriteQueue' \in Seq(Write) /\ prepared' \in Seq(Write)
         /\ Bytes(prepareWriteQueue') = Bytes(prepared')
    <3>1. CASE answer = "none"
      BY <2>2, <3>1 DEF PrepInv
    <3>2. CASE answer # "none"
      BY <2>2, <3>2, DropDoes
    <3>3. QED
      BY <3>1, <3>2
  <2>12. currentExecution \notin DOMAIN executions
    <3>1. DOMAIN executions = 1 .. m
      BY LenProperties DEF PrepInv
    <3>2. QED
      BY <1>2, <3>1
  <2>13. QED
    BY <1>1, <2>2, <2>8, <2>10, <2>11, <2>12, ExecutionAdded
<1>6. QED
  BY <1>4, <1>5

LEMMA CallbackInv ==
  ASSUME PrepInv, NEW e \in DOMAIN executions, NEW i \in DOMAIN executions[e].results,
         NEW result \in {"ok", "error"}, WriteCallback(e, i, result)
  PROVE  PrepInv'
<1> DEFINE x == executions[e]
           results == [x.results EXCEPT ![i] = result]
<1>1. x.results[i] = "later" /\ UNCHANGED authorizing
  BY DEF WriteCallback
<1>2. executions \in Seq(Execution) /\ DOMAIN executions = 1 .. Len(executions)
      /\ executions \in [1 .. Len(executions) -> Execution]
  BY LenProperties DEF PrepInv
<1>3. x \in Execution /\ Faithful(x, e)
  BY <1>2 DEF PrepInv
<1>4. PICK n \in Nat : x.results \in Results(n)
  BY <1>3 DEF Execution
<1>5. /\ DOMAIN x.results = 1 .. n /\ Len(x.results) = n
      /\ results \in Results(n) /\ DOMAIN results = 1 .. n /\ Len(results) = n
      /\ i \in 1 .. n /\ results[i] = result /\ \A j \in 1 .. n : j # i => results[j] = x.results[j]
  BY <1>4 DEF Results
<1>6. x.answer # "ok"
  BY <1>1, <1>3, AnswerMeans DEF Faithful, ToldTruly
<1>7. x.answer = "error" => AnswerTo(results) = "error"
  <2> SUFFICES ASSUME x.answer = "error"
               PROVE  \E j \in DOMAIN results : results[j] = "error"
    BY AnswerMeans
  <2>1. PICK j \in 1 .. n : x.results[j] = "error"
    BY <1>3, <1>5, AnswerMeans DEF Faithful, ToldTruly
  <2>2. j # i
    BY <1>1, <2>1
  <2>3. QED
    BY <1>5, <2>1, <2>2
<1>8. AnswerTo(results) \in {"none", "ok", "error"}
  BY AnswerMeans
<1> HIDE DEF results
<1> DEFINE y == [x EXCEPT !.results = results, !.answer = AnswerTo(results)]
<1>9. /\ y \in Execution /\ y.results = results /\ y.answer = AnswerTo(results)
      /\ y.elems = x.elems /\ y.wanted = x.wanted
  BY <1>3, <1>5, <1>8 DEF Execution
<1>10. CASE Ends(e, results)
  <2>1. x.answer = "none" /\ AnswerTo(results) # "none"
    BY <1>10 DEF Ends, AnswerAfter
  <2>2. /\ executions' = [executions EXCEPT ![e].results = results, ![e].answer = AnswerTo(results)]
        /\ prepareWriteQueue' = <<>> /\ currentExecution' = 0
        /\ prepared' = IF e = currentExecution THEN <<>> ELSE prepared
    BY <1>10 DEF WriteCallback, results, AnswerAfter
  <2>3. e = currentExecution
    BY <1>3, <2>1 DEF Faithful, ToldTruly
  <2>4. executions' = [executions EXCEPT ![e] = y]
    BY <1>2, <1>3, <2>2 DEF Execution
  <2> HIDE DEF y
  <2>5. executions' \in Seq(Execution) /\ DOMAIN executions' = DOMAIN executions
        /\ executions'[e] = y /\ \A d \in DOMAIN executions : d # e => executions'[d] = executions[d]
    BY <1>2, <1>9, <2>4
  <2>6. ASSUME NEW d \in DOMAIN executions
        PROVE  Faithful(executions[d], d)'
    <3>1. CASE d = e
      BY <1>3, <1>5, <1>9, <2>1, <2>5, <3>1 DEF Faithful, ToldTruly
    <3>2. CASE d # e
      <4>1. Faithful(executions[d], d) /\ executions[d].answer # "none"
        BY <2>3, <3>2 DEF PrepInv, Faithful, ToldTruly
      <4>2. QED
        BY <2>5, <3>2, <4>1 DEF Faithful, ToldTruly
    <3>3. QED
      BY <3>1, <3>2
  <2>7. prepareWriteQueue' \in Seq(Write) /\ prepared' \in Seq(Write)
        /\ Bytes(prepareWriteQueue') = Bytes(prepared')
    BY <2>2, <2>3
  <2>8. QED
    BY <1>1, <2>5, <2>6, <2>7 DEF PrepInv
<1>11. CASE ~Ends(e, results)
  <2>1. /\ executions' = [executions EXCEPT ![e].results = results]
        /\ UNCHANGED <<prepareWriteQueue, prepared, currentExecution>>
    BY <1>11 DEF WriteCallback, results
  <2>2. x.answer = AnswerTo(results)
    <3>1. x.answer = "none" => AnswerTo(results) = "none"
      BY <1>11 DEF Ends, AnswerAfter
    <3>2. x.answer \in {"none", "ok", "error"}
      BY <1>3 DEF Execution
    <3>3. QED
      BY <1>6, <1>7, <3>1, <3>2
  <2>3. executions' = [executions EXCEPT ![e] = y]
    BY <1>2, <1>3, <2>1, <2>2 DEF Execution
  <2> HIDE DEF y
  <2>4. executions' \in Seq(Execution) /\ DOMAIN executions' = DOMAIN executions
        /\ executions'[e] = y /\ \A d \in DOMAIN executions : d # e => executions'[d] = executions[d]
    BY <1>2, <1>9, <2>3
  <2>5. ASSUME NEW d \in DOMAIN executions
        PROVE  Faithful(executions[d], d)'
    <3>1. CASE d = e
      BY <1>3, <1>5, <1>9, <2>1, <2>2, <2>4, <3>1 DEF Faithful, ToldTruly
    <3>2. CASE d # e
      BY <2>1, <2>4, <3>2 DEF PrepInv, Faithful, ToldTruly
    <3>3. QED
      BY <3>1, <3>2
  <2>6. QED
    BY <1>1, <2>1, <2>4, <2>5 DEF PrepInv
<1>12. QED
  BY <1>10, <1>11

LEMMA PrepStep == PrepInv /\ [PrepNext]_prepVars => PrepInv'
<1> SUFFICES ASSUME PrepInv, [PrepNext]_prepVars PROVE PrepInv'
  OBVIOUS
<1>1. CASE UNCHANGED prepVars
  BY <1>1, PrepAfter DEF PrepInv, prepVars
<1>2. CASE PrepNext
  BY <1>2, PrepareInv, AuthorizedInv, CancelInv, ExecuteInv, CallbackInv DEF PrepNext
<1>3. QED
  BY <1>1, <1>2

\* What the client prepares, what is executed and what it is told of that are the same, for
\* any number of pieces and executions and whenever the application calls back.
THEOREM ExecutionsFaithful == PrepSpec => []ExecutionsAreFaithful
<1>1. PrepInv => ExecutionsAreFaithful
  <2> SUFFICES ASSUME PrepInv PROVE ExecutionsAreFaithful
    OBVIOUS
  <2>1. ASSUME NEW e \in DOMAIN executions
        PROVE  LET x == executions[e]
               IN /\ Bytes(x.elems) = Bytes(x.wanted)
                  /\ x.answer = "ok" => /\ Len(x.results) = Len(x.elems)
                                        /\ \A i \in DOMAIN x.results : x.results[i] = "ok"
                  /\ x.answer = "error" => \E i \in DOMAIN x.results : x.results[i] = "error"
    BY AnswerMeans DEF PrepInv, Faithful, ToldTruly
  <2>2. QED
    BY <2>1 DEF PrepInv, ExecutionsAreFaithful, ExecuteIsTruthful, QueueIsWhatWasPrepared
<1>2. QED
  BY PreparedInit, PrepStep, <1>1, PTL DEF PrepSpec

-----------------------------------------------------------------------------
(* Answers of the users to the security managers. *)

IsSeq(s) == \E S : s \in Seq(S)

LEMMA SentAppended ==
  ASSUME NEW s, IsSeq(s), NEW e
  PROVE  /\ IsSeq(Append(s, e)) /\ DOMAIN Append(s, e) = 1 .. Len(s) + 1 /\ Len(s) \in Nat
         /\ DOMAIN s = 1 .. Len(s)
         /\ \A i \in DOMAIN s : Append(s, e)[i] = s[i]
         /\ Append(s, e)[Len(s) + 1] = e
<1>1. PICK S : s \in Seq(S)
  BY DEF IsSeq
<1> DEFINE T == S \cup {e}
<1>2. s \in Seq(T) /\ e \in T
  BY <1>1
<1> HIDE DEF T
<1>3. /\ Append(s, e) \in Seq(T) /\ Len(Append(s, e)) = Len(s) + 1
      /\ \A i \in 1 .. Len(s) : Append(s, e)[i] = s[i]
      /\ Append(s, e)[Len(s) + 1] = e
  BY <1>2, AppendProperties
<1>4. Len(s) \in Nat /\ DOMAIN s = 1 .. Len(s) /\ DOMAIN Append(s, e) = 1 .. Len(Append(s, e))
  BY <1>2, <1>3, LenProperties
<1>5. QED
  BY <1>3, <1>4 DEF IsSeq

LEMMA SentJoined ==
  ASSUME NEW s, IsSeq(s), NEW t, IsSeq(t)
  PROVE  /\ IsSeq(s \o t) /\ Len(s) \in Nat /\ Len(t) \in Nat /\ DOMAIN s = 1 .. Len(s)
         /\ DOMAIN (s \o t) = 1 .. Len(s) + Len(t)
         /\ \A i \in 1 .. Len(s) : (s \o t)[i] = s[i]
         /\ \A i \in 1 .. Len(t) : (s \o t)[Len(s) + i] = t[i]
<1>1. PICK S : s \in Seq(S)
  BY DEF IsSeq
<1>2. PICK T : t \in Seq(T)
  BY DEF IsSeq
<1> DEFINE B == S \cup T
           u == s \o t
<1>3. s \in Seq(B) /\ t \in Seq(B)
  BY <1>1, <1>2
<1> HIDE DEF B
<1>4. /\ u \in Seq(B) /\ Len(u) = Len(s) + Len(t)
      /\ \A i \in 1 .. Len(s) + Len(t) : u[i] = IF i <= Len(s) THEN s[i] ELSE t[i - Len(s)]
  BY <1>3, ConcatProperties
<1> HIDE DEF u
<1>5. /\ Len(s) \in Nat /\ Len(t) \in Nat /\ DOMAIN s = 1 .. Len(s) /\ DOMAIN u = 1 .. Len(s) + Len(t)
  BY <1>3, <1>4, LenProperties
<1>6. IsSeq(u)
  BY <1>4 DEF IsSeq
<1>7. ASSUME NEW i \in 1 .. Len(t)
      PROVE  u[Len(s) + i] = t[i]
  <2>1. Len(s) + i \in 1 .. Len(s) + Len(t) /\ ~(Len(s) + i <= Len(s)) /\ Len(s) + i - Len(s) = i
    BY <1>5
  <2>2. QED
    BY <1>4, <2>1
<1>8. \A i \in 1 .. Len(s) : i \in 1 .. Len(s) + Len(t) /\ i <= Len(s)
  BY <1>5
<1>9. \A i \in 1 .. Len(s) : u[i] = s[i]
  BY <1>4, <1>8
<1>10. QED
  BY <1>5, <1>6, <1>7, <1>9 DEF u

LEMMA SentRest ==
  ASSUME NEW s, IsSeq(s), s # <<>>
  PROVE  /\ IsSeq(Tail(s)) /\ 1 \in DOMAIN s /\ Head(s) = s[1]
         /\ \A i \in DOMAIN Tail(s) : i + 1 \in DOMAIN s /\ Tail(s)[i] = s[i + 1]
<1>1. PICK S : s \in Seq(S)
  BY DEF IsSeq
<1>2. /\ Tail(s) \in Seq(S) /\ Len(Tail(s)) = Len(s) - 1 /\ Head(s) = s[1]
      /\ \A i \in 1 .. Len(Tail(s)) : Tail(s)[i] = s[i + 1]
  BY <1>1, HeadTailProperties
<1>3. Len(s) \in Nat /\ DOMAIN s = 1 .. Len(s) /\ DOMAIN Tail(s) = 1 .. Len(Tail(s)) /\ Len(s) # 0
  BY <1>1, <1>2, LenProperties, EmptySeq
<1>4. QED
  BY <1>2, <1>3 DEF IsSeq

\* The fields that matter here are there.
Rec(r) ==
  /\ "run" \in DOMAIN r /\ "answered" \in DOMAIN r /\ "prompts" \in DOMAIN r
  /\ "out" \in DOMAIN r /\ "state" \in DOMAIN r /\ "wait" \in DOMAIN r

\* An answer that is in use was asked for in this run; nothing that is shown or waits to be
\* sent comes of a later one.
Own(r) ==
  /\ Rec(r) /\ r.run \in Nat
  /\ r.answered # None => r.answered = r.run
  /\ \A p \in r.prompts : p.run \in 0 .. r.run /\ p.kind \in {"features", "passkey", "compare"}
  /\ IsSeq(r.out) /\ \A i \in DOMAIN r.out : r.out[i].run \in 0 .. r.run

\* The packets whose transmission makes the state W4Packet are of earlier runs.
PacketsOld(r) == \A i \in DOMAIN r.out : r.out[i].then = "W4Packet" => r.out[i].run < r.run

\* Everything is of earlier runs.
Cleared(r) == r.answered = None /\ (\A p \in r.prompts : p.run < r.run) /\ PacketsOld(r)

Resting(r) == r.state = "Idle" \/ (r.state = "W4Packet" /\ r.wait = "PairingRequest")

\* A slave that a pairing may begin with has cleared away what was before.
Rests(r) == /\ Resting(r) => Cleared(r)
            /\ r.wait = "PairingRequest" => PacketsOld(r)

Same(s, r) ==
  /\ Rec(s) /\ s.run = r.run /\ s.answered = r.answered /\ s.prompts = r.prompts /\ s.out = r.out

LEMMA SameIsOwn ==
  ASSUME NEW r, NEW s, Same(s, r)
  PROVE  /\ Own(r) => Own(s)
         /\ Cleared(r) => Cleared(s)
         /\ PacketsOld(r) => PacketsOld(s)
BY DEF Same, Own, Cleared, PacketsOld

LEMMA SendDataDoes ==
  ASSUME NEW r, Own(r), NEW msg, NEW then
  PROVE  LET s == SendData(r, msg, then)
         IN /\ Own(s) /\ s.run = r.run /\ s.answered = r.answered /\ s.prompts = r.prompts
            /\ s.state = r.state /\ s.wait = r.wait
            /\ then # "W4Packet" => /\ PacketsOld(r) => PacketsOld(s)
                                    /\ Cleared(r) => Cleared(s)
<1> DEFINE e == [msg |-> msg, then |-> then, run |-> r.run]
           s == [r EXCEPT !.out = Append(@, e)]
<1>1. e.run = r.run /\ e.then = then
  OBVIOUS
<1> HIDE DEF e
<1>2. /\ s.run = r.run /\ s.answered = r.answered /\ s.prompts = r.prompts
      /\ s.state = r.state /\ s.wait = r.wait /\ s.out = Append(r.out, e) /\ Rec(s)
  BY DEF Own, Rec
<1> HIDE DEF s
<1>3. /\ IsSeq(s.out) /\ DOMAIN s.out = 1 .. Len(r.out) + 1 /\ Len(r.out) \in Nat
      /\ DOMAIN r.out = 1 .. Len(r.out)
      /\ \A i \in DOMAIN r.out : s.out[i] = r.out[i]
      /\ s.out[Len(r.out) + 1] = e
  BY <1>2, SentAppended DEF Own
<1>4. \A i \in DOMAIN s.out : i \in DOMAIN r.out \/ i = Len(r.out) + 1
  BY <1>3
<1>5. Own(s)
  BY <1>1, <1>2, <1>3, <1>4 DEF Own
<1>6. ASSUME then # "W4Packet", PacketsOld(r)
      PROVE  PacketsOld(s)
  BY <1>1, <1>2, <1>3, <1>4, <1>6 DEF PacketsOld
<1>7. CASE r.mute
  BY <1>7 DEF SendData
<1>8. CASE ~r.mute
  <2>1. SendData(r, msg, then) = s
    BY <1>8 DEF SendData, s, e
  <2>2. QED
    BY <1>2, <1>5, <1>6, <2>1 DEF Cleared
<1>9. QED
  BY <1>7, <1>8

LEMMA SendingDoes ==
  ASSUME NEW r, Own(r), NEW msg, NEW then
  PROVE  LET s == Sending(r, msg, then)
         IN /\ Own(s) /\ s.run = r.run /\ s.wait = r.wait
            /\ r.state # "TimedOut" => s.state = "W4PacketEnqueued"
            /\ then # "W4Packet" /\ PacketsOld(r) => PacketsOld(s)
<1> DEFINE t == [r EXCEPT !.timer = TRUE, !.state = "W4PacketEnqueued"]
<1>1. Same(t, r) /\ t.wait = r.wait /\ t.state = "W4PacketEnqueued"
  BY DEF Own, Rec, Same
<1> HIDE DEF t
<1>2. Own(t) /\ (PacketsOld(r) => PacketsOld(t)) /\ t.run = r.run
  BY <1>1, SameIsOwn DEF Same
<1>3. CASE r.state = "TimedOut"
  BY <1>3 DEF Sending
<1>4. CASE r.state # "TimedOut"
  <2>1. Sending(r, msg, then) = SendData(t, msg, then)
    BY <1>4 DEF Sending, t
  <2>2. QED
    BY <1>1, <1>2, <2>1, SendDataDoes
<1>5. QED
  BY <1>3, <1>4

LEMMA SendPacketDoes ==
  ASSUME NEW r, Own(r), NEW msg, NEW next
  PROVE  LET s == SendPacket(r, msg, next)
         IN /\ Own(s) /\ s.run = r.run
            /\ r.state # "TimedOut" => s.state = "W4PacketEnqueued" /\ s.wait = next
            /\ r.state # "TimedOut" /\ next # "PairingRequest" => Rests(s)
<1> DEFINE t == IF r.state = "TimedOut" THEN r ELSE [r EXCEPT !.wait = next]
<1>1. Same(t, r) /\ t.state = r.state /\ (r.state # "TimedOut" => t.wait = next)
  BY DEF Own, Rec, Same
<1>2. SendPacket(r, msg, next) = Sending(t, msg, "W4Packet")
  BY DEF SendPacket
<1> HIDE DEF t
<1>3. Own(t) /\ t.run = r.run
  BY <1>1, SameIsOwn DEF Same
<1>4. QED
  BY <1>1, <1>2, <1>3, SendingDoes DEF Rests, Resting

LEMMA SendBeforeLtkDoes ==
  ASSUME NEW r, Own(r), NEW msg, r.state # "TimedOut"
  PROVE  LET s == SendBeforeLtkRequest(r, msg)
         IN Own(s) /\ ((r.wait = "PairingRequest" => PacketsOld(r)) => Rests(s))
BY SendingDoes DEF SendBeforeLtkRequest, Rests, Resting

LEMMA AllButLastDoes ==
  ASSUME NEW r, Own(r), NEW ops, IsSeq(ops)
  PROVE  LET s == SendAllButLast(r, ops)
         IN /\ Own(s) /\ s.run = r.run /\ s.answered = r.answered /\ s.prompts = r.prompts
            /\ s.state = r.state /\ s.wait = r.wait
            /\ PacketsOld(r) => PacketsOld(s)
<1> DEFINE n == Len(ops) - 1
           t == [i \in 1 .. Len(ops) - 1 |-> [msg |-> Item(r, ops[i]), then |-> None, run |-> r.run]]
           s == [r EXCEPT !.timer = TRUE, !.out = @ \o t]
<1>1. CASE r.mute \/ Len(ops) < 2
  BY <1>1 DEF SendAllButLast
<1>2. CASE ~(r.mute \/ Len(ops) < 2)
  <2>1. SendAllButLast(r, ops) = s
    BY <1>2 DEF SendAllButLast
  <2>2. n \in Nat
    <3>1. Len(ops) \in Nat
      BY SentAppended
    <3>2. QED
      BY <1>2, <3>1
  <2>3. t = [i \in 1 .. n |-> t[i]] /\ \A i \in 1 .. n : t[i].run = r.run /\ t[i].then = None
    OBVIOUS
  <2>4. /\ s.run = r.run /\ s.answered = r.answered /\ s.prompts = r.prompts
        /\ s.state = r.state /\ s.wait = r.wait /\ s.out = r.out \o t /\ Rec(s)
    BY DEF Own, Rec
  <2> HIDE DEF s, t, n
  <2>5. /\ IsSeq(s.out) /\ Len(r.out) \in Nat /\ DOMAIN r.out = 1 .. Len(r.out)
        /\ DOMAIN s.out = 1 .. Len(r.out) + n
        /\ \A i \in 1 .. Len(r.out) : s.out[i] = r.out[i]
        /\ \A i \in 1 .. n : s.out[Len(r.out) + i] = t[i]
    <3> DEFINE q == r.out
    <3>1. IsSeq(q)
      BY DEF Own
    <3> HIDE DEF q
    <3>2. IsSeq(t) /\ Len(t) = n
      <4>1. t \in Seq({t[i] : i \in 1 .. n}) /\ Len(t) = n
        BY <2>2, <2>3
      <4>2. QED
        BY <4>1 DEF IsSeq
    <3>3. /\ IsSeq(q \o t) /\ Len(q) \in Nat /\ DOMAIN q = 1 .. Len(q)
          /\ DOMAIN (q \o t) = 1 .. Len(q) + n
          /\ \A i \in 1 .. Len(q) : (q \o t)[i] = q[i]
          /\ \A i \in 1 .. n : (q \o t)[Len(q) + i] = t[i]
      <4>1. IsSeq(q \o t)
        BY <3>1, <3>2, SentJoined
      <4>2. Len(q) \in Nat /\ DOMAIN q = 1 .. Len(q)
        BY <3>1, <3>2, SentJoined
      <4>3. DOMAIN (q \o t) = 1 .. Len(q) + n
        BY <3>1, <3>2, SentJoined
      <4>4. \A i \in 1 .. Len(q) : (q \o t)[i] = q[i]
        BY <3>1, <3>2, SentJoined
      <4>5. \A i \in 1 .. n : (q \o t)[Len(q) + i] = t[i]
        BY <3>1, <3>2, SentJoined
      <4>6. QED
        BY <4>1, <4>2, <4>3, <4>4, <4>5
    <3>4. QED
      BY <2>4, <3>3 DEF q
  <2>6. ASSUME NEW i \in DOMAIN s.out, i \notin DOMAIN r.out
        PROVE  s.out[i].run = r.run /\ s.out[i].then = None
    <3>1. i - Len(r.out) \in 1 .. n /\ i = Len(r.out) + (i - Len(r.out))
      BY <2>2, <2>5, <2>6
    <3>2. QED
      BY <2>3, <2>5, <3>1
  <2>7. Own(s)
    <3>1. ASSUME NEW i \in DOMAIN s.out
          PROVE  s.out[i].run \in 0 .. s.run
      <4>1. CASE i \in DOMAIN r.out
        BY <2>4, <2>5, <4>1 DEF Own
      <4>2. CASE i \notin DOMAIN r.out
        BY <2>4, <2>6, <4>2 DEF Own
      <4>3. QED
        BY <4>1, <4>2
    <3>2. QED
      BY <2>4, <2>5, <3>1 DEF Own
  <2>8. PacketsOld(r) => PacketsOld(s)
    BY <2>4, <2>5, <2>6, SmpAssumption DEF PacketsOld
  <2>9. QED
    BY <2>1, <2>4, <2>7, <2>8
<1>3. QED
  BY <1>1, <1>2

\* A side that has stopped, or finished, a pairing has nothing of it left.
Ended(s, r) == Own(s) /\ Cleared(s) /\ s.run = r.run + 1

LEMMA StopDoes ==
  ASSUME NEW r, Own(r)
  PROVE  Ended(Stop(r), r)
<1> DEFINE f == Forget(r)
           s == [f EXCEPT !.timer = FALSE, !.state = "Idle", !.run = @ + 1]
<1>1. /\ Rec(f) /\ f.run = r.run /\ f.answered = None /\ f.prompts = r.prompts /\ f.out = r.out
  BY DEF Forget, Own, Rec
<1> HIDE DEF f
<1>2. Rec(s) /\ s.run = r.run + 1 /\ s.answered = None /\ s.prompts = r.prompts /\ s.out = r.out
  BY <1>1 DEF Rec
<1> HIDE DEF s
<1>3. \A n \in 0 .. r.run : n \in 0 .. r.run + 1 /\ n < r.run + 1
  BY DEF Own
<1>4. Own(s) /\ Cleared(s)
  BY <1>2, <1>3 DEF Own, Cleared, PacketsOld
<1>5. QED
  BY <1>2, <1>4 DEF Stop, s, f, Ended

LEMMA ReportDoes ==
  ASSUME NEW r, Rec(r), NEW outcome
  PROVE  LET s == Report(r, outcome) IN Same(s, r) /\ s.state = r.state /\ s.wait = r.wait
BY DEF Report, Same, Rec

LEMMA EndedRests ==
  ASSUME NEW s, NEW r, Ended(s, r)
  PROVE  Own(s) /\ Rests(s)
BY DEF Ended, Rests, Cleared

LEMMA EndedSame ==
  ASSUME NEW s, NEW r, Ended(s, r), NEW t, Same(t, s)
  PROVE  Ended(t, r)
BY SameIsOwn DEF Ended, Same

LEMMA SlaveFails ==
  ASSUME NEW r, Own(r)
  PROVE  Ended(SlavePairingFailed(r), r)
<1> DEFINE f == [r EXCEPT !.failedOut = TRUE]
           a == FailedOnAir(r)
<1>1. Own(a) /\ a.run = r.run
  <2>1. Same(f, r)
    BY DEF Own, Rec, Same
  <2> HIDE DEF f
  <2>2. Own(f) /\ f.run = r.run
    BY <2>1, SameIsOwn DEF Same
  <2>3. a = r \/ a = SendData(f, [op |-> "Failed"], "FailedSent")
    BY DEF FailedOnAir, f
  <2> HIDE DEF a
  <2>4. QED
    BY <2>2, <2>3, SendDataDoes
<1> HIDE DEF a
<1>2. Ended(Stop(a), r)
  BY <1>1, StopDoes DEF Ended
<1>3. Same(Report(Stop(a), "failed"), Stop(a))
  BY <1>2, ReportDoes DEF Ended, Own
<1>4. QED
  BY <1>2, <1>3, EndedSame DEF SlavePairingFailed, a

LEMMA MasterFails ==
  ASSUME NEW r, Own(r), NEW fromRemote
  PROVE  Ended(MasterPairingFailed(r, fromRemote), r)
<1> DEFINE f == [r EXCEPT !.failedOut = TRUE]
           a == IF fromRemote THEN r ELSE FailedOnAir(r)
<1>1. Own(a) /\ a.run = r.run
  <2>1. Same(f, r)
    BY DEF Own, Rec, Same
  <2> HIDE DEF f
  <2>2. Own(f) /\ f.run = r.run
    BY <2>1, SameIsOwn DEF Same
  <2>3. a = r \/ a = SendData(f, [op |-> "Failed"], "FailedSent")
    BY DEF FailedOnAir, f
  <2> HIDE DEF a
  <2>4. QED
    BY <2>2, <2>3, SendDataDoes
<1> HIDE DEF a
<1>2. Ended(Stop(a), r)
  BY <1>1, StopDoes DEF Ended
<1>3. Same(Report(Stop(a), "failed"), Stop(a))
  BY <1>2, ReportDoes DEF Ended, Own
<1>4. QED
  BY <1>2, <1>3, EndedSame DEF MasterPairingFailed, a

LEMMA DoneDoes ==
  ASSUME NEW r, Own(r)
  PROVE  Ended(PairingDone(r), r)
<1>1. Ended(Stop(r), r)
  BY StopDoes
<1> DEFINE t == Stop(r)
<1> HIDE DEF t
<1>2. PICK b, c : PairingDone(r) = Report([t EXCEPT !.bonded = b, !.avail = c], "complete")
  BY DEF PairingDone, t
<1> DEFINE u == [t EXCEPT !.bonded = b, !.avail = c]
<1>3. Same(u, t)
  BY <1>1 DEF Same, Ended, Own, Rec, t
<1> HIDE DEF u
<1>4. Same(Report(u, "complete"), u)
  BY <1>3, ReportDoes DEF Same
<1>5. QED
  BY <1>1, <1>2, <1>3, <1>4, EndedSame DEF u, t

\* What a pairing negotiates drops the answers to an earlier one.
LEMMA NegotiateDoes ==
  ASSUME NEW r, Own(r), NEW feat, NEW shown
  PROVE  LET s == Negotiate(r, feat, shown)
         IN Own(s) /\ s.run = r.run /\ s.state = r.state /\ s.wait = r.wait
<1> DEFINE s == Negotiate(r, feat, shown)
<1>1. /\ Rec(s) /\ s.run = r.run /\ s.answered = None /\ s.prompts = r.prompts /\ s.out = r.out
      /\ s.state = r.state /\ s.wait = r.wait
  BY DEF Negotiate, Own, Rec
<1> HIDE DEF s
<1>2. QED
  BY <1>1 DEF s, Own

LEMMA PromptDoes ==
  ASSUME NEW r, Own(r), NEW kind \in {"features", "passkey", "compare"}
  PROVE  LET s == Prompt(r, kind)
         IN Own(s) /\ s.run = r.run /\ s.state = r.state /\ s.wait = r.wait /\ s.out = r.out
<1> DEFINE e == [kind |-> kind, run |-> r.run]
           s == [r EXCEPT !.prompts = @ \cup {e}]
<1>1. e.run = r.run /\ e.kind = kind
  OBVIOUS
<1>2. /\ Rec(s) /\ s.run = r.run /\ s.answered = r.answered /\ s.prompts = r.prompts \cup {e} /\ s.out = r.out
      /\ s.state = r.state /\ s.wait = r.wait
  BY DEF Own, Rec
<1> HIDE DEF e, s
<1>3. Own(s)
  BY <1>1, <1>2 DEF Own
<1>4. QED
  BY <1>2, <1>3 DEF Prompt, s, e

-----------------------------------------------------------------------------
(* The slave. *)

Good(r) == Own(r) /\ Rests(r)

LEMMA AnswerGood ==
  ASSUME NEW r, Own(r), r.state = "W4UserFeatures", NEW offer, NEW shown
  PROVE  Good(SlaveAnswer(r, offer, shown))
<1> DEFINE rsp == BitwiseAndKeys(offer, r.req)
           r1 == [r EXCEPT !.rsp = rsp]
           s == Negotiate(r1, CombineAuthReq(rsp, r.req), shown)
           asked == IF ByPasskey(s.model) /\ s.passkey = None THEN Prompt(s, "passkey") ELSE s
           next == IF s.feat.sc THEN "PublicKey" ELSE "Confirm"
<1>1. Same(r1, r) /\ r1.state = "W4UserFeatures"
  BY DEF Own, Rec, Same
<1>2. Own(r1)
  BY <1>1, SameIsOwn
<1>3. SlaveAnswer(r, offer, shown)
        = IF ReplacesBond(s) THEN SlavePairingFailed(s)
          ELSE SendPacket(asked, [op |-> "PairingResponse", val |-> rsp], next)
  BY DEF SlaveAnswer
<1> HIDE DEF r1, rsp
<1>4. Own(s) /\ s.state = "W4UserFeatures"
  BY <1>1, <1>2, NegotiateDoes
<1>5. next # "PairingRequest"
  OBVIOUS
<1> HIDE DEF s, next
<1>6. Own(asked) /\ asked.state = "W4UserFeatures"
  BY <1>4, PromptDoes
<1> HIDE DEF asked
<1>7. Good(SlavePairingFailed(s))
  BY <1>4, SlaveFails, EndedRests DEF Good
<1>8. Good(SendPacket(asked, [op |-> "PairingResponse", val |-> rsp], next))
  BY <1>5, <1>6, SendPacketDoes DEF Good
<1>9. QED
  BY <1>3, <1>7, <1>8

LEMMA PairingRequestGood ==
  ASSUME NEW r, Good(r), NEW m, NEW g \in SlaveOnPairingRequest(r, m)
  PROVE  Good(g)
<1> DEFINE s == [r EXCEPT !.timer = TRUE, !.req = m.val, !.run = @ + 1, !.state = "W4UserFeatures",
                          !.cancelled = FALSE]
           t == [s EXCEPT !.handled = TRUE]
           u == [s EXCEPT !.handled = FALSE]
<1>1. CASE ~(r.state = "Idle" \/ (r.state = "W4Packet" /\ r.wait = "PairingRequest"))
  BY <1>1 DEF SlaveOnPairingRequest
<1>2. CASE r.state = "Idle" \/ (r.state = "W4Packet" /\ r.wait = "PairingRequest")
  <2>1. Own(r) /\ Cleared(r)
    BY <1>2 DEF Good, Rests, Resting
  <2>2. /\ Rec(s) /\ s.run = r.run + 1 /\ s.answered = r.answered /\ s.prompts = r.prompts
        /\ s.out = r.out /\ s.state = "W4UserFeatures"
    BY <2>1 DEF Own, Rec
  <2>3. g = Prompt(t, "features") \/ \E pk \in Passkeys : g = SlaveAnswer(u, Defaults[Slave], pk)
    BY <1>2 DEF SlaveOnPairingRequest
  <2> HIDE DEF s
  <2>4. Own(s) /\ PacketsOld(s)
    <3>1. \A n \in 0 .. r.run : n \in 0 .. r.run + 1 /\ n < r.run + 1
      BY <2>1 DEF Own
    <3>2. QED
      BY <2>1, <2>2, <3>1 DEF Own, Cleared, PacketsOld
  <2>5. /\ Same(t, s) /\ t.state = "W4UserFeatures"
        /\ Same(u, s) /\ u.state = "W4UserFeatures"
    BY <2>2 DEF Same, Rec
  <2> HIDE DEF t, u
  <2>6. Own(t) /\ PacketsOld(t) /\ Own(u)
    BY <2>4, <2>5, SameIsOwn
  <2>7. Good(Prompt(t, "features"))
    <3> DEFINE a == Prompt(t, "features")
    <3>1. Own(a) /\ a.run = t.run /\ a.state = "W4UserFeatures" /\ a.out = t.out
      BY <2>5, <2>6, PromptDoes
    <3> HIDE DEF a
    <3>2. Good(a)
      BY <2>6, <3>1 DEF Good, Rests, Resting, PacketsOld
    <3>3. QED
      BY <3>2 DEF a
  <2>8. QED
    BY <2>3, <2>5, <2>6, <2>7, AnswerGood
<1>3. QED
  BY <1>1, <1>2

LEMMA AfterInitsGood ==
  ASSUME NEW r, Own(r), r.state # "TimedOut"
  PROVE  Good(AfterInitsConfirmAndPasskey(r))
<1> DEFINE s == [r EXCEPT !.myRand = Fresh(r)]
<1>1. Same(s, r) /\ s.state = r.state
  BY DEF Own, Rec, Same
<1>2. AfterInitsConfirmAndPasskey(r)
        = SendPacket(s, [op |-> "Confirm", val |-> Confirm(s, s.myRand)], "Random")
  BY DEF AfterInitsConfirmAndPasskey
<1> HIDE DEF s
<1>3. Own(s)
  BY <1>1, SameIsOwn
<1>4. QED
  BY <1>1, <1>2, <1>3, SendPacketDoes DEF Good

LEMMA AfterNumericGood ==
  ASSUME NEW r, Own(r), r.state # "TimedOut"
  PROVE  LET s == AfterNumericComparisonOkAndDHKeyCheck(r)
         IN Own(s) /\ ((r.wait = "PairingRequest" => PacketsOld(r)) => Good(s))
<1> DEFINE s == [r EXCEPT !.key = LtkOf(r)]
<1>1. Same(s, r) /\ s.state = r.state /\ s.wait = r.wait
  BY DEF Own, Rec, Same
<1>2. \/ AfterNumericComparisonOkAndDHKeyCheck(r) = SlavePairingFailed(r)
      \/ AfterNumericComparisonOkAndDHKeyCheck(r)
           = SendBeforeLtkRequest(s, [op |-> "DhKeyCheck", val |-> CheckValue(r, Slave)])
  BY DEF AfterNumericComparisonOkAndDHKeyCheck
<1> HIDE DEF s
<1>3. Own(s) /\ (PacketsOld(r) => PacketsOld(s))
  BY <1>1, SameIsOwn
<1>4. Good(SlavePairingFailed(r))
  BY SlaveFails, EndedRests DEF Good
<1> DEFINE a == SendBeforeLtkRequest(s, [op |-> "DhKeyCheck", val |-> CheckValue(r, Slave)])
<1>5. Own(a) /\ ((r.wait = "PairingRequest" => PacketsOld(r)) => Good(a))
  BY <1>1, <1>3, SendBeforeLtkDoes DEF Good
<1> HIDE DEF a
<1>6. QED
  BY <1>2, <1>4, <1>5 DEF Good, a

LEMMA PublicKeyGood ==
  ASSUME NEW r, Own(r), r.state = "W4Packet", NEW m, NEW g \in SlaveOnPublicKey(r, m)
  PROVE  Good(g)
<1> DEFINE s == [r EXCEPT !.myRand = Fresh(r)]
           t == SendData(s, [op |-> "PublicKey"], None)
<1>1. Same(s, r) /\ s.state = r.state
  BY DEF Own, Rec, Same
<1>2. \/ g = SendPacket(r, [op |-> "PublicKey"], "Confirm")
      \/ g = SendPacket(t, [op |-> "Confirm", val |-> Confirm(s, s.myRand)], "Random")
  BY DEF SlaveOnPublicKey
<1> HIDE DEF s
<1>3. Own(s)
  BY <1>1, SameIsOwn
<1>4. Own(t) /\ t.state = r.state
  BY <1>1, <1>3, SendDataDoes
<1> HIDE DEF t
<1>5. QED
  BY <1>2, <1>4, SendPacketDoes DEF Good

LEMMA ConfirmGood ==
  ASSUME NEW r, Own(r), r.state = "W4Packet", r.wait # "PairingRequest", NEW m, NEW g \in SlaveOnConfirm(r, m)
  PROVE  Good(g)
<1> DEFINE s == [r EXCEPT !.confirm = m.val]
           t == [s EXCEPT !.state = "W4UserPasskey"]
<1>1. Same(s, r) /\ s.state = r.state /\ s.wait = r.wait
  BY DEF Own, Rec, Same
<1>2. g = AfterInitsConfirmAndPasskey(s) \/ g = t
  BY DEF SlaveOnConfirm
<1> HIDE DEF s
<1>3. Own(s)
  BY <1>1, SameIsOwn
<1>4. Same(t, s) /\ t.state = "W4UserPasskey" /\ t.wait = r.wait
  BY <1>1 DEF Same, Rec
<1> HIDE DEF t
<1>5. Good(t)
  BY <1>3, <1>4, SameIsOwn DEF Good, Rests, Resting
<1>6. QED
  BY <1>1, <1>2, <1>3, <1>5, AfterInitsGood

LEMMA RandomGood ==
  ASSUME NEW r, Own(r), r.state = "W4Packet", r.wait # "PairingRequest", NEW m, NEW g \in SlaveOnRandom(r, m)
  PROVE  Good(g)
<1> DEFINE s == [r EXCEPT !.peerRand = m.val]
           reply == [op |-> "Random", val |-> r.myRand]
           u == [s EXCEPT !.numericOk = FALSE]
           t == SendPacket(u, reply, "DhKeyCheck")
           v == [s EXCEPT !.bit = @ + 1]
           next == IF s.bit + 1 < Rounds THEN "Confirm" ELSE "DhKeyCheck"
<1>1. Same(s, r) /\ s.state = r.state /\ s.wait = r.wait
  BY DEF Own, Rec, Same
<1>2. \/ g = Prompt(t, "compare") \/ g = t
      \/ g = SlavePairingFailed(s)
      \/ g = SendBeforeLtkRequest(s, reply)
      \/ g = SendPacket(v, reply, next)
  BY DEF SlaveOnRandom
<1> HIDE DEF s
<1>3. Own(s)
  BY <1>1, SameIsOwn
<1>4. Same(u, s) /\ u.state = r.state /\ Same(v, s) /\ v.state = r.state
  BY <1>1 DEF Same, Rec
<1> HIDE DEF u, v
<1>5. Own(u) /\ Own(v)
  BY <1>3, <1>4, SameIsOwn
<1>6. Own(t) /\ t.state = "W4PacketEnqueued" /\ t.wait = "DhKeyCheck" /\ Good(t)
  BY <1>4, <1>5, SendPacketDoes DEF Good
<1> HIDE DEF t
<1>7. Good(Prompt(t, "compare"))
  <2> DEFINE a == Prompt(t, "compare")
  <2>1. Own(a) /\ a.state = "W4PacketEnqueued" /\ a.wait = "DhKeyCheck"
    BY <1>6, PromptDoes
  <2> HIDE DEF a
  <2>2. Good(a)
    BY <2>1 DEF Good, Rests, Resting
  <2>3. QED
    BY <2>2 DEF a
<1>8. Good(SlavePairingFailed(s))
  BY <1>3, SlaveFails, EndedRests DEF Good
<1>9. Good(SendBeforeLtkRequest(s, reply))
  BY <1>1, <1>3, SendBeforeLtkDoes DEF Good
<1>10. next # "PairingRequest"
  OBVIOUS
<1> HIDE DEF next, reply
<1>11. Good(SendPacket(v, reply, next))
  BY <1>4, <1>5, <1>10, SendPacketDoes DEF Good
<1>12. QED
  BY <1>2, <1>6, <1>7, <1>8, <1>9, <1>11

LEMMA CheckGood ==
  ASSUME NEW r, Own(r), r.state = "W4Packet", r.wait # "PairingRequest", NEW m,
         NEW g \in SlaveOnDhKeyCheck(r, m)
  PROVE  Good(g)
<1> DEFINE s == [r EXCEPT !.check = m.val]
           t == [s EXCEPT !.state = "W4UserNumericComparison"]
<1>1. Same(s, r) /\ s.state = r.state /\ s.wait = r.wait
  BY DEF Own, Rec, Same
<1>2. g = AfterNumericComparisonOkAndDHKeyCheck(s) \/ g = t
  BY DEF SlaveOnDhKeyCheck
<1> HIDE DEF s
<1>3. Own(s)
  BY <1>1, SameIsOwn
<1>4. Same(t, s) /\ t.state = "W4UserNumericComparison" /\ t.wait = r.wait
  BY <1>1 DEF Same, Rec
<1> HIDE DEF t
<1>5. Good(t)
  BY <1>3, <1>4, SameIsOwn DEF Good, Rests, Resting
<1>6. QED
  BY <1>1, <1>2, <1>3, <1>5, AfterNumericGood

LEMMA KeyGood ==
  ASSUME NEW r, Own(r), r.state = "W4Packet", NEW m, m.op \in KeyPackets, NEW g \in SlaveOnKey(r, m)
  PROVE  Good(g)
<1>1. Good(PairingDone(r))
  BY DoneDoes, EndedRests DEF Good
<1>2. ASSUME NEW w, w # "PairingRequest"
      PROVE  Good([r EXCEPT !.wait = w])
  <2> DEFINE s == [r EXCEPT !.wait = w]
  <2>1. Same(s, r) /\ s.state = "W4Packet" /\ s.wait = w
    BY DEF Own, Rec, Same
  <2> HIDE DEF s
  <2>2. Good(s)
    BY <1>2, <2>1, SameIsOwn DEF Good, Rests, Resting
  <2>3. QED
    BY <2>2 DEF s
<1>3. g = PairingDone(r) \/ \E w \in {"MasterId", "IdInfo", "IdAddr"} : g = [r EXCEPT !.wait = w]
  BY DEF SlaveOnKey, KeyPackets
<1>4. QED
  BY <1>1, <1>2, <1>3

LEMMA ReceivesGood ==
  ASSUME NEW r, Good(r), NEW m, NEW g \in SlaveReceives(r, m)
  PROVE  Good(g)
<1>1. Own(r)
  BY DEF Good
<1>2. CASE g = r
  BY <1>2
<1>3. CASE g \in SlaveOnPairingRequest(r, m)
  BY <1>3, PairingRequestGood
<1>4. CASE g \in SlaveOnFailed(r, m)
  <2>1. g = Report(Stop(r), "failed")
    BY <1>4 DEF SlaveOnFailed
  <2>2. Ended(Stop(r), r)
    BY <1>1, StopDoes
  <2>3. Same(Report(Stop(r), "failed"), Stop(r))
    BY <2>2, ReportDoes DEF Ended, Own
  <2>4. QED
    BY <2>1, <2>2, <2>3, EndedSame, EndedRests DEF Good
<1>5. CASE r.state = "W4Packet" /\ r.wait = "PublicKey" /\ g \in SlaveOnPublicKey(r, m)
  BY <1>1, <1>5, PublicKeyGood
<1>6. CASE r.state = "W4Packet" /\ r.wait = "Confirm" /\ g \in SlaveOnConfirm(r, m)
  BY <1>1, <1>6, ConfirmGood
<1>7. CASE r.state = "W4Packet" /\ r.wait = "Random" /\ g \in SlaveOnRandom(r, m)
  BY <1>1, <1>7, RandomGood
<1>8. CASE r.state = "W4Packet" /\ r.wait = "DhKeyCheck" /\ g \in SlaveOnDhKeyCheck(r, m)
  BY <1>1, <1>8, CheckGood
<1>9. CASE m.op \in KeyPackets /\ r.state = "W4Packet" /\ g \in SlaveOnKey(r, m)
  BY <1>1, <1>9, KeyGood
<1>10. QED
  BY <1>2, <1>3, <1>4, <1>5, <1>6, <1>7, <1>8, <1>9 DEF SlaveReceives, Expected

LEMMA DistributesGood ==
  ASSUME NEW r, Good(r)
  PROVE  Good(SlaveDistributes(r))
<1> DEFINE d == r.feat.dist
           own == (IF ~r.feat.sc /\ "rspEnc" \in d THEN <<"EncInfo", "MasterId">> ELSE <<>>)
                  \o (IF "rspId" \in d THEN <<"IdInfo", "IdAddr">> ELSE <<>>)
           next == IF ~r.feat.sc /\ "initEnc" \in d THEN "EncInfo"
                   ELSE IF "initId" \in d THEN "IdInfo" ELSE None
           s == IF ~r.feat.sc /\ "rspEnc" \in d
                THEN [r EXCEPT !.rspLtk = Item(r, "EncInfo").val] ELSE r
           all == SendAllButLast(s, own)
           last == Item(s, own[Len(own)])
           w == [s EXCEPT !.state = "W4Packet", !.wait = next]
           l == [all EXCEPT !.state = W4LastAck, !.timer = TRUE]
<1>1. \/ next \in {"EncInfo", "IdInfo"} /\ SlaveDistributes(r) = SendPacket(all, last, next)
      \/ next \in {"EncInfo", "IdInfo"} /\ SlaveDistributes(r) = w
      \/ SlaveDistributes(r) = SendData(l, last, "Done")
      \/ SlaveDistributes(r) = PairingDone(s)
  <2>1. next \in {"EncInfo", "IdInfo"} \/ next = None
    OBVIOUS
  <2>2. SendLast(s, own) = SendData(l, last, "Done")
    BY DEF SendLast
  <2>3. SlaveDistributes(r)
          = CASE next # None /\ own # <<>> -> SendPacket(all, last, next)
              [] next # None /\ own = <<>> -> w
              [] next = None /\ own # <<>> -> SendLast(s, own)
              [] OTHER -> PairingDone(s)
    BY DEF SlaveDistributes
  <2> HIDE DEF next, own, s, all, last, w, l
  <2>4. QED
    BY <2>1, <2>2, <2>3
<1>2. Same(s, r) /\ s.state = r.state /\ s.wait = r.wait
  BY DEF Good, Own, Rec, Same
<1>3. IsSeq(own)
  <2>1. own \in Seq({"EncInfo", "MasterId", "IdInfo", "IdAddr"})
    <3>1. /\ <<"EncInfo", "MasterId">> \in Seq({"EncInfo", "MasterId", "IdInfo", "IdAddr"})
          /\ <<"IdInfo", "IdAddr">> \in Seq({"EncInfo", "MasterId", "IdInfo", "IdAddr"})
          /\ <<>> \in Seq({"EncInfo", "MasterId", "IdInfo", "IdAddr"})
      OBVIOUS
    <3>2. QED
      BY <3>1, ConcatProperties
  <2> HIDE DEF own
  <2>2. QED
    BY <2>1 DEF IsSeq
<1> HIDE DEF own, s, next, last
<1>4. Own(s) /\ (s.wait = "PairingRequest" => PacketsOld(s))
  BY <1>2, SameIsOwn DEF Good, Rests
<1>5. /\ Own(all) /\ all.run = s.run /\ all.state = s.state /\ all.wait = s.wait
      /\ PacketsOld(s) => PacketsOld(all)
  BY <1>3, <1>4, AllButLastDoes
<1> HIDE DEF all
<1>6. Same(w, s) /\ w.state = "W4Packet" /\ w.wait = next
  BY <1>4 DEF Same, Own, Rec
<1>7. Same(l, all) /\ l.state = "State9" /\ l.wait = all.wait
  BY <1>5 DEF Same, Own, Rec, W4LastAck
<1> HIDE DEF w, l
<1>8. CASE next \in {"EncInfo", "IdInfo"} /\ SlaveDistributes(r) = SendPacket(all, last, next)
  <2> DEFINE a == SendPacket(all, last, next)
  <2>1. CASE all.state = "TimedOut"
    <3>1. a = Sending(all, last, "W4Packet") /\ Sending(all, last, "W4Packet") = all
      BY <2>1 DEF SendPacket, Sending
    <3>2. Good(all)
      BY <1>4, <1>5, <2>1 DEF Good, Rests, Resting
    <3>3. QED
      BY <1>8, <3>1, <3>2
  <2>2. CASE all.state # "TimedOut"
    BY <1>5, <1>8, <2>2, SendPacketDoes DEF Good
  <2>3. QED
    BY <2>1, <2>2
<1>9. CASE next \in {"EncInfo", "IdInfo"} /\ SlaveDistributes(r) = w
  BY <1>4, <1>6, <1>9, SameIsOwn DEF Good, Rests, Resting
<1>10. CASE SlaveDistributes(r) = SendData(l, last, "Done")
  <2> DEFINE a == SendData(l, last, "Done")
  <2>1. Own(l) /\ (l.wait = "PairingRequest" => PacketsOld(l))
    BY <1>4, <1>5, <1>7, SameIsOwn
  <2>2. /\ Own(a) /\ a.state = "State9" /\ a.wait = l.wait
        /\ PacketsOld(l) => PacketsOld(a)
    BY <1>7, <2>1, SendDataDoes
  <2> HIDE DEF a
  <2>3. Good(a)
    BY <2>1, <2>2 DEF Good, Rests, Resting
  <2>4. QED
    BY <1>10, <2>3 DEF a
<1>11. CASE SlaveDistributes(r) = PairingDone(s)
  BY <1>4, <1>11, DoneDoes, EndedRests DEF Good
<1>12. QED
  BY <1>1, <1>8, <1>9, <1>10, <1>11

LEMMA EncryptedGood ==
  ASSUME NEW r, Good(r), NEW e, e.clear => Cleared(r)
  PROVE  Good(SlaveEncrypted(r, e))
<1>1. Own(r)
  BY DEF Good
<1>2. ASSUME NEW v
      PROVE  LET s == [r EXCEPT !.level = v] IN Good(s) /\ s.state = r.state
  <2> DEFINE s == [r EXCEPT !.level = v]
  <2>1. Same(s, r) /\ s.state = r.state /\ s.wait = r.wait
    BY <1>1 DEF Own, Rec, Same
  <2> HIDE DEF s
  <2>2. Good(s) /\ s.state = r.state
    BY <1>1, <2>1, SameIsOwn DEF Good, Rests, Resting
  <2>3. QED
    BY <2>2 DEF s
<1>3. ASSUME NEW s, Same(s, r), s.wait = r.wait, s.state = IF e.clear THEN "Idle" ELSE r.state
      PROVE  Good(s)
  BY <1>1, <1>3, SameIsOwn DEF Good, Rests, Resting
<1>4. CASE e.from = "pairing"
  <2> DEFINE s == [r EXCEPT !.level = PairingLevel(r)]
  <2>1. SlaveEncrypted(r, e) = IF r.state = "W4EncryptionStarted" THEN SlaveDistributes(s) ELSE s
    BY <1>4 DEF SlaveEncrypted
  <2>2. Good(s)
    BY <1>2
  <2> HIDE DEF s
  <2>3. QED
    BY <2>1, <2>2, DistributesGood
<1>5. CASE e.from = "bond"
  <2> DEFINE v == Level(e.bond.mitm, e.bond.mitm, e.bond.mitm, e.bond.sc)
             s == [r EXCEPT !.level = v, !.state = IF e.clear THEN "Idle" ELSE @]
  <2>1. SlaveEncrypted(r, e) = s
    BY <1>5 DEF SlaveEncrypted
  <2> HIDE DEF v
  <2>2. Same(s, r) /\ s.wait = r.wait /\ s.state = IF e.clear THEN "Idle" ELSE r.state
    BY <1>1 DEF Same, Own, Rec
  <2> HIDE DEF s
  <2>3. QED
    BY <1>3, <2>1, <2>2
<1>6. CASE e.from # "pairing" /\ e.from # "bond"
  <2> DEFINE s == [r EXCEPT !.state = IF e.clear THEN "Idle" ELSE @]
  <2>1. SlaveEncrypted(r, e) = s
    BY <1>6 DEF SlaveEncrypted
  <2>2. Same(s, r) /\ s.wait = r.wait /\ s.state = IF e.clear THEN "Idle" ELSE r.state
    BY <1>1 DEF Same, Own, Rec
  <2> HIDE DEF s
  <2>3. QED
    BY <1>3, <2>1, <2>2
<1>7. QED
  BY <1>4, <1>5, <1>6

\* The controller asks for a key: who is to clear up afterwards has nothing left.
LEMMA LtkGood ==
  ASSUME NEW r, Good(r), NEW id
  PROVE  LET a == SlaveOnLtkRequest(r, id) IN Good(a.r) /\ (a.clear => Cleared(a.r))
<1> DEFINE c == r.state = "W4Packet" /\ r.wait = "PairingRequest"
           s == [r EXCEPT !.state = "W4EncryptionStarted"]
           u == [r EXCEPT !.timer = FALSE]
<1>1. Own(r)
  BY DEF Good
<1>2. /\ Same(s, r) /\ s.state = "W4EncryptionStarted" /\ s.wait = r.wait
      /\ Same(u, r) /\ u.state = r.state /\ u.wait = r.wait
  BY <1>1 DEF Same, Own, Rec
<1>3. \/ SlaveOnLtkRequest(r, id).r = s /\ SlaveOnLtkRequest(r, id).clear = FALSE
      \/ /\ SlaveOnLtkRequest(r, id).r = IF c THEN u ELSE r
         /\ SlaveOnLtkRequest(r, id).clear = c
  BY DEF SlaveOnLtkRequest
<1> HIDE DEF s, u
<1>4. Good(s) /\ Good(u) /\ (c => Cleared(r) /\ Cleared(u))
  BY <1>1, <1>2, SameIsOwn DEF Good, Rests, Resting
<1>5. QED
  BY <1>3, <1>4

-----------------------------------------------------------------------------
(* Both sides. *)

\* A packet is written.
LEMMA SentOwn ==
  ASSUME NEW r, Own(r), r.out # <<>>
  PROVE  LET s == Sent(r)
         IN /\ Own(s) /\ (Cleared(r) => Cleared(s)) /\ (Rests(r) => Rests(s))
<1> DEFINE e == Head(r.out)
           t == [r EXCEPT !.out = Tail(@)]
           a == [t EXCEPT !.failedOut = FALSE]
           b == [t EXCEPT !.ack = e.run]
           c == [t EXCEPT !.state = e.then]
<1>1. \/ Sent(r) = a \/ Sent(r) = b \/ Sent(r) = t
      \/ e.then \in {"W4Packet", "W4LtkRequest"} /\ e.run = r.run /\ Sent(r) = c
  BY DEF Sent
<1>2. /\ Rec(t) /\ t.run = r.run /\ t.answered = r.answered /\ t.prompts = r.prompts
      /\ t.out = Tail(r.out) /\ t.state = r.state /\ t.wait = r.wait
  BY DEF Own, Rec
<1>3. /\ IsSeq(Tail(r.out)) /\ 1 \in DOMAIN r.out /\ e = r.out[1]
      /\ \A i \in DOMAIN Tail(r.out) : i + 1 \in DOMAIN r.out /\ Tail(r.out)[i] = r.out[i + 1]
  BY SentRest DEF Own
<1> HIDE DEF e, t
<1>4. Own(t) /\ (PacketsOld(r) => PacketsOld(t))
  BY <1>2, <1>3 DEF Own, PacketsOld
<1>5. /\ Same(a, t) /\ a.state = r.state /\ a.wait = r.wait
      /\ Same(b, t) /\ b.state = r.state /\ b.wait = r.wait
      /\ Same(c, t) /\ c.state = e.then /\ c.wait = r.wait
  BY <1>2 DEF Same, Rec
<1> HIDE DEF a, b, c
<1>6. ASSUME NEW s, Same(s, t), s.state = r.state, s.wait = r.wait
      PROVE  Own(s) /\ (Cleared(r) => Cleared(s)) /\ (Rests(r) => Rests(s))
  BY <1>2, <1>4, <1>6, SameIsOwn DEF Same, Cleared, Rests, Resting
<1>7. ASSUME e.then \in {"W4Packet", "W4LtkRequest"}, e.run = r.run
      PROVE  Own(c) /\ (Cleared(r) => Cleared(c)) /\ (Rests(r) => Rests(c))
  <2>1. e.then = "W4Packet" => ~PacketsOld(r)
    BY <1>3, <1>7 DEF PacketsOld, Own
  <2>2. Own(c) /\ (Cleared(r) => Cleared(c)) /\ (PacketsOld(r) => PacketsOld(c))
    BY <1>2, <1>4, <1>5, SameIsOwn DEF Same, Cleared
  <2>3. QED
    BY <1>5, <1>7, <2>1, <2>2 DEF Rests, Resting
<1>8. Same(t, t)
  BY <1>2 DEF Same
<1>9. QED
  BY <1>1, <1>2, <1>5, <1>6, <1>7, <1>8

-----------------------------------------------------------------------------
(* The master. *)

LEMMA StartPairingOwn ==
  ASSUME NEW r, Own(r), NEW offer
  PROVE  LET g == StartPairingRequest(r, offer)
         IN Own(g) /\ (r.state # "TimedOut" => Rests(g))
<1> DEFINE s == [r EXCEPT !.req = offer, !.open = TRUE, !.cancelled = FALSE]
<1>1. Same(s, r) /\ s.state = r.state
  BY DEF Same, Own, Rec
<1>2. StartPairingRequest(r, offer) = SendPacket(s, [op |-> "PairingRequest", val |-> offer], "PairingResponse")
  BY DEF StartPairingRequest
<1> HIDE DEF s
<1>3. QED
  BY <1>1, <1>2, SameIsOwn, SendPacketDoes

LEMMA AskStartPairingOwn ==
  ASSUME NEW r, Own(r), NEW mitm, NEW g \in AskStartPairing(r, mitm)
  PROVE  Own(g)
<1> DEFINE s == [r EXCEPT !.timer = TRUE, !.state = "W4UserFeatures"]
           t == [s EXCEPT !.handled = TRUE]
           u == IF r.bonded THEN [s EXCEPT !.handled = FALSE] ELSE s
<1>1. Same(s, r)
  BY DEF Same, Own, Rec
<1>2. \/ g = Prompt(t, "features")
      \/ g = MasterPairingFailed(s, FALSE)
      \/ g = StartPairingRequest(u, Defaults[Master])
  BY DEF AskStartPairing
<1> HIDE DEF s
<1>3. Own(s)
  BY <1>1, SameIsOwn
<1>4. Same(t, s) /\ Same(u, s)
  BY <1>3 DEF Same, Own, Rec
<1> HIDE DEF t, u
<1>5. Own(t) /\ Own(u)
  BY <1>3, <1>4, SameIsOwn
<1>6. QED
  BY <1>2, <1>3, <1>5, PromptDoes, MasterFails, StartPairingOwn DEF Ended

LEMMA SecurityRequestOwn ==
  ASSUME NEW r, Own(r), NEW m, NEW g \in MasterOnSecurityRequest(r, m)
  PROVE  Own(g)
<1>1. Same(StartEncryptWithAvailableLtk(r, {m.mitm}), r)
  BY DEF StartEncryptWithAvailableLtk, Same, Own, Rec
<1>2. \/ g = r \/ g = StartEncryptWithAvailableLtk(r, {m.mitm})
      \/ g \in AskStartPairing(r, m.mitm)
  BY DEF MasterOnSecurityRequest
<1>3. QED
  BY <1>1, <1>2, SameIsOwn, AskStartPairingOwn

LEMMA SendConfirmOwn ==
  ASSUME NEW r, Own(r)
  PROVE  LET g == SendConfirm(r) IN Own(g) /\ (r.state # "TimedOut" => Rests(g))
<1> DEFINE s == [r EXCEPT !.myRand = Fresh(r)]
<1>1. Same(s, r) /\ s.state = r.state
  BY DEF Same, Own, Rec
<1>2. SendConfirm(r) = SendPacket(s, [op |-> "Confirm", val |-> Confirm(s, s.myRand)], "Confirm")
  BY DEF SendConfirm
<1> HIDE DEF s
<1>3. QED
  BY <1>1, <1>2, SameIsOwn, SendPacketDoes

LEMMA PasskeyExchangeOwn ==
  ASSUME NEW r, Own(r)
  PROVE  Own(StartPasskeyExchange(r))
<1> DEFINE s == [r EXCEPT !.state = "W4UserPasskey"]
           t == [r EXCEPT !.myRand = Fresh(r), !.state = "W4Packet", !.wait = "Confirm"]
<1>1. Same(s, r) /\ Same(t, r)
  BY DEF Same, Own, Rec
<1>2. \/ StartPasskeyExchange(r) = Prompt(s, "passkey")
      \/ StartPasskeyExchange(r) = t
      \/ StartPasskeyExchange(r) = SendConfirm(r)
  BY DEF StartPasskeyExchange
<1> HIDE DEF s, t
<1>3. Own(s) /\ Own(t)
  BY <1>1, SameIsOwn
<1>4. QED
  BY <1>2, <1>3, PromptDoes, SendConfirmOwn

LEMMA PairingResponseOwn ==
  ASSUME NEW r, Own(r), NEW m, NEW g \in MasterOnPairingResponse(r, m)
  PROVE  Own(g)
<1> DEFINE rsp == BitwiseAndKeys(m.val, r.req)
           t == [r EXCEPT !.rsp = m.val]
<1>1. Same(t, r)
  BY DEF Same, Own, Rec
<1>2. PICK shown \in Passkeys :
        LET s == Negotiate(t, CombineAuthReq(rsp, r.req), shown)
        IN \/ g = MasterPairingFailed(s, FALSE)
           \/ g = SendPacket(s, [op |-> "PublicKey"], "PublicKey")
           \/ g = StartPasskeyExchange(s)
  BY DEF MasterOnPairingResponse
<1> HIDE DEF t, rsp
<1> DEFINE s == Negotiate(t, CombineAuthReq(rsp, r.req), shown)
<1>3. Own(s)
  BY <1>1, SameIsOwn, NegotiateDoes
<1>4. \/ g = MasterPairingFailed(s, FALSE)
      \/ g = SendPacket(s, [op |-> "PublicKey"], "PublicKey")
      \/ g = StartPasskeyExchange(s)
  BY <1>2
<1> HIDE DEF s
<1>5. Own(SendPacket(s, [op |-> "PublicKey"], "PublicKey"))
  BY <1>3, SendPacketDoes
<1>6. Own(MasterPairingFailed(s, FALSE))
  BY <1>3, MasterFails DEF Ended
<1>7. QED
  BY <1>3, <1>4, <1>5, <1>6, PasskeyExchangeOwn

LEMMA MasterConfirmOwn ==
  ASSUME NEW r, Own(r), NEW m, NEW g \in MasterOnConfirm(r, m)
  PROVE  Own(g)
<1> DEFINE s == [r EXCEPT !.confirm = m.val]
<1>1. Same(s, r)
  BY DEF Same, Own, Rec
<1>2. g = SendPacket(s, [op |-> "Random", val |-> r.myRand], "Random")
  BY DEF MasterOnConfirm
<1> HIDE DEF s
<1>3. QED
  BY <1>1, <1>2, SameIsOwn, SendPacketDoes

LEMMA SendCheckOwn ==
  ASSUME NEW r, Own(r)
  PROVE  LET g == SendDHKeyCheck(r) IN Own(g) /\ (r.state # "TimedOut" => Rests(g))
<1> DEFINE s == [r EXCEPT !.key = LtkOf(r)]
<1>1. Same(s, r) /\ s.state = r.state
  BY DEF Same, Own, Rec
<1>2. SendDHKeyCheck(r) = SendPacket(s, [op |-> "DhKeyCheck", val |-> CheckValue(r, Master)], "DhKeyCheck")
  BY DEF SendDHKeyCheck
<1> HIDE DEF s
<1>3. QED
  BY <1>1, <1>2, SameIsOwn, SendPacketDoes

LEMMA StartEncryptionOwn ==
  ASSUME NEW r, Own(r)
  PROVE  Own(StartEncryptionAfterPairing(r))
<1>1. Same(StartEncryptionAfterPairing(r), r)
  BY DEF StartEncryptionAfterPairing, Same, Own, Rec
<1>2. QED
  BY <1>1, SameIsOwn

LEMMA MasterRandomOwn ==
  ASSUME NEW r, Own(r), NEW m, NEW g \in MasterOnRandom(r, m)
  PROVE  Own(g)
<1> DEFINE s == [r EXCEPT !.peerRand = m.val]
           next == [s EXCEPT !.bit = @ + 1]
           t == [s EXCEPT !.state = "W4UserNumericComparison"]
<1>1. Same(s, r)
  BY DEF Same, Own, Rec
<1>2. \/ g = MasterPairingFailed(s, FALSE) \/ g = StartEncryptionAfterPairing(s)
      \/ g = SendDHKeyCheck(s) \/ g = Prompt(t, "compare")
      \/ g = SendConfirm(next) \/ g = SendDHKeyCheck(next)
  BY DEF MasterOnRandom
<1> HIDE DEF s
<1>3. Own(s)
  BY <1>1, SameIsOwn
<1>4. Same(t, s) /\ Same(next, s)
  BY <1>3 DEF Same, Own, Rec
<1> HIDE DEF t, next
<1>5. Own(t) /\ Own(next)
  BY <1>3, <1>4, SameIsOwn
<1>6. QED
  BY <1>2, <1>3, <1>5, MasterFails, StartEncryptionOwn, SendCheckOwn, PromptDoes, SendConfirmOwn DEF Ended

LEMMA MasterCheckOwn ==
  ASSUME NEW r, Own(r), NEW m, NEW g \in MasterOnDhKeyCheck(r, m)
  PROVE  Own(g)
BY MasterFails, StartEncryptionOwn DEF MasterOnDhKeyCheck, Ended

LEMMA StartDistributeOwn ==
  ASSUME NEW r, Own(r)
  PROVE  Own(StartDistributeOwnKeys(r))
<1> DEFINE own == (IF ~r.feat.sc /\ "initEnc" \in r.feat.dist THEN <<"EncInfo", "MasterId">> ELSE <<>>)
                  \o (IF "initId" \in r.feat.dist THEN <<"IdInfo", "IdAddr">> ELSE <<>>)
           all == SendAllButLast(r, own)
           last == Item(r, own[Len(own)])
           l == [all EXCEPT !.state = W4LastAck, !.timer = TRUE]
<1>1. StartDistributeOwnKeys(r) = PairingDone(r) \/ StartDistributeOwnKeys(r) = SendData(l, last, "Done")
  BY DEF StartDistributeOwnKeys, SendLast
<1>2. IsSeq(own)
  <2>1. own \in Seq({"EncInfo", "MasterId", "IdInfo", "IdAddr"})
    <3>1. /\ <<"EncInfo", "MasterId">> \in Seq({"EncInfo", "MasterId", "IdInfo", "IdAddr"})
          /\ <<"IdInfo", "IdAddr">> \in Seq({"EncInfo", "MasterId", "IdInfo", "IdAddr"})
          /\ <<>> \in Seq({"EncInfo", "MasterId", "IdInfo", "IdAddr"})
      OBVIOUS
    <3>2. QED
      BY <3>1, ConcatProperties
  <2> HIDE DEF own
  <2>2. QED
    BY <2>1 DEF IsSeq
<1> HIDE DEF own, last
<1>3. Own(all)
  BY <1>2, AllButLastDoes
<1> HIDE DEF all
<1>4. Same(l, all)
  BY <1>3 DEF Same, Own, Rec
<1> HIDE DEF l
<1>5. Own(l)
  BY <1>3, <1>4, SameIsOwn
<1>6. QED
  BY <1>1, <1>5, DoneDoes, SendDataDoes DEF Ended

LEMMA MasterKeyOwn ==
  ASSUME NEW r, Own(r), NEW m, m.op \in KeyPackets, NEW g \in MasterOnKey(r, m)
  PROVE  Own(g)
<1> DEFINE s == [r EXCEPT !.rspLtk = m.val, !.wait = "MasterId"]
           t == [r EXCEPT !.wait = "IdInfo"]
           u == [r EXCEPT !.wait = "IdAddr"]
<1>1. Same(s, r) /\ Same(t, r) /\ Same(u, r)
  BY DEF Same, Own, Rec
<1>2. g = s \/ g = t \/ g = u \/ g = StartDistributeOwnKeys(r)
  BY DEF MasterOnKey, KeyPackets
<1>3. QED
  BY <1>1, <1>2, SameIsOwn, StartDistributeOwn

LEMMA MasterFailedOwn ==
  ASSUME NEW r, Own(r), NEW m, NEW g \in MasterOnFailed(r, m)
  PROVE  Own(g)
<1> DEFINE s == [r EXCEPT !.state = "CancelledByPeer"]
<1>1. Same(s, r)
  BY DEF Same, Own, Rec
<1>2. g = s \/ g = r \/ g = MasterPairingFailed(r, TRUE)
  BY DEF MasterOnFailed
<1>3. QED
  BY <1>1, <1>2, SameIsOwn, MasterFails DEF Ended

LEMMA MasterReceivesOwn ==
  ASSUME NEW r, Own(r), NEW m, NEW g \in MasterReceives(r, m)
  PROVE  Own(g)
<1>1. \/ g = r
      \/ g \in MasterOnSecurityRequest(r, m)
      \/ g \in MasterOnFailed(r, m)
      \/ g \in MasterOnPairingResponse(r, m)
      \/ g = StartPasskeyExchange(r)
      \/ g \in MasterOnConfirm(r, m)
      \/ g \in MasterOnRandom(r, m)
      \/ g \in MasterOnDhKeyCheck(r, m)
      \/ m.op \in KeyPackets /\ g \in MasterOnKey(r, m)
  BY DEF MasterReceives
<1>2. QED
  BY <1>1, SecurityRequestOwn, MasterFailedOwn, PairingResponseOwn, PasskeyExchangeOwn, MasterConfirmOwn,
     MasterRandomOwn, MasterCheckOwn, MasterKeyOwn

LEMMA MasterCancelsOwn ==
  ASSUME NEW r, Own(r)
  PROVE  Own(MasterSendPairingFailed(r))
<1> DEFINE s == [r EXCEPT !.state = CancelledByLocal]
<1>1. Same(s, r)
  BY DEF Same, Own, Rec
<1>2. MasterSendPairingFailed(r) \in {r, s, MasterPairingFailed(r, FALSE)}
  <2>1. CASE r.state \in {"CancelledByPeer", CancelledByLocal}
    BY <2>1 DEF MasterSendPairingFailed
  <2>2. CASE r.state \notin {"CancelledByPeer", CancelledByLocal}
    BY <2>2 DEF MasterSendPairingFailed
  <2>3. QED
    BY <2>1, <2>2
<1>3. QED
  BY <1>1, <1>2, SameIsOwn, MasterFails DEF Ended

LEMMA EncryptedAfterPairingOwn ==
  ASSUME NEW r, Own(r), NEW ok, NEW g \in EncryptedAfterPairing(r, ok)
  PROVE  Own(g)
<1> DEFINE s == IF ok THEN [r EXCEPT !.level = PairingLevel(r)] ELSE r
           t == [s EXCEPT !.state = "W4Packet", !.wait = "EncInfo"]
           u == [s EXCEPT !.state = "W4Packet", !.wait = "IdInfo"]
<1>1. Same(s, r)
  BY DEF Same, Own, Rec
<1>2. \/ g = s \/ g = t \/ g = u \/ g = StartDistributeOwnKeys(s)
      \/ g = MasterPairingFailed(s, FALSE) \/ g = MasterPairingFailed(s, TRUE)
  BY DEF EncryptedAfterPairing
<1> HIDE DEF s
<1>3. Own(s)
  BY <1>1, SameIsOwn
<1>4. Same(t, s) /\ Same(u, s)
  BY <1>3 DEF Same, Own, Rec
<1> HIDE DEF t, u
<1>5. Own(t) /\ Own(u)
  BY <1>3, <1>4, SameIsOwn
<1>6. QED
  BY <1>2, <1>3, <1>5, StartDistributeOwn, MasterFails DEF Ended

LEMMA EncryptedWithLtkOwn ==
  ASSUME NEW r, Own(r), NEW h, NEW result, NEW g \in EncryptedWithAvailableLtk(r, h, result)
  PROVE  Own(g)
<1> DEFINE s == [r EXCEPT !.withLtk = FALSE]
           t == IF s.state = "TimedOut" THEN s ELSE Stop(s)
           v == Level(t.avail.mitm, t.avail.sc, t.avail.mitm, t.avail.sc)
           u == [t EXCEPT !.level = v]
<1>1. Same(s, r)
  BY DEF Same, Own, Rec
<1>2. g \in AskStartPairing(t, TRUE \in h.ask) \/ g = u \/ g = t
  BY DEF EncryptedWithAvailableLtk
<1> HIDE DEF s
<1>3. Own(s)
  BY <1>1, SameIsOwn
<1>4. Own(t)
  BY <1>3, StopDoes DEF Ended
<1> HIDE DEF t, v
<1>5. Same(u, t)
  BY <1>4 DEF Same, Own, Rec
<1> HIDE DEF u
<1>6. QED
  BY <1>2, <1>4, <1>5, SameIsOwn, AskStartPairingOwn

LEMMA MasterEncryptedOwn ==
  ASSUME NEW r, Own(r), NEW h, NEW result, NEW g \in MasterEncrypted(r, h, result)
  PROVE  Own(g)
<1> DEFINE s == [r EXCEPT !.hci = Tail(@)]
           t == [s EXCEPT !.state = "TimedOut", !.withLtk = FALSE]
<1>1. Same(s, r)
  BY DEF Same, Own, Rec
<1>2. \/ g = t \/ g \in EncryptedAfterPairing(s, result = "ok")
      \/ g \in EncryptedWithAvailableLtk(s, h, result)
  BY DEF MasterEncrypted
<1> HIDE DEF s
<1>3. Own(s)
  BY <1>1, SameIsOwn
<1>4. Same(t, s)
  BY <1>3 DEF Same, Own, Rec
<1>5. QED
  BY <1>2, <1>3, <1>4, SameIsOwn, EncryptedAfterPairingOwn, EncryptedWithLtkOwn

-----------------------------------------------------------------------------
(* The steps. *)

\* A pairing that both sides acknowledged.
LEMMA AcknowledgedOwn ==
  ASSUME NEW x, NEW s, Own(s),
         LET r == [s EXCEPT !.ack = None] IN x = IF r.run = s.ack THEN PairingDone(r) ELSE r
  PROVE  Own(x) /\ (Cleared(s) => Cleared(x)) /\ (Rests(s) => Rests(x))
<1> DEFINE r == [s EXCEPT !.ack = None]
<1>1. Same(r, s) /\ r.state = s.state /\ r.wait = s.wait
  BY DEF Same, Own, Rec
<1>2. x = r \/ x = PairingDone(r)
  OBVIOUS
<1> HIDE DEF r
<1>3. Own(r)
  BY <1>1, SameIsOwn
<1>4. CASE x = r
  BY <1>1, <1>3, <1>4, SameIsOwn DEF Rests, Resting
<1>5. CASE x = PairingDone(r)
  BY <1>3, <1>5, DoneDoes, EndedRests DEF Ended
<1>6. QED
  BY <1>2, <1>4, <1>5

LEMMA TimeoutEnds ==
  ASSUME NEW r, Own(r)
  PROVE  Ended([Report(Forget(r), "timeout") EXCEPT
                  !.run = @ + 1, !.state = "TimedOut", !.timer = FALSE, !.mute = TRUE], r)
<1> DEFINE f == Report(Forget(r), "timeout")
           s == [f EXCEPT !.run = @ + 1, !.state = "TimedOut", !.timer = FALSE, !.mute = TRUE]
<1>1. /\ Rec(f) /\ f.run = r.run /\ f.answered = None /\ f.prompts = r.prompts /\ f.out = r.out
  BY DEF Report, Forget, Own, Rec
<1> HIDE DEF f
<1>2. Rec(s) /\ s.run = r.run + 1 /\ s.answered = None /\ s.prompts = r.prompts /\ s.out = r.out
  BY <1>1 DEF Rec
<1> HIDE DEF s
<1>3. \A n \in 0 .. r.run : n \in 0 .. r.run + 1 /\ n < r.run + 1
  BY DEF Own
<1>4. Own(s) /\ Cleared(s)
  BY <1>2, <1>3 DEF Own, Cleared, PacketsOld
<1>5. QED
  BY <1>2, <1>4 DEF s, f, Ended

\* An answer is taken down only for the run that asked.
LEMMA WithAnswerDoes ==
  ASSUME NEW r, Own(r), NEW p, p.run = r.run
  PROVE  LET s == WithAnswer(r, p)
         IN Own(s) /\ s.run = r.run /\ s.state = r.state /\ s.wait = r.wait /\ s.out = r.out
<1> DEFINE s == WithAnswer(r, p)
<1>1. /\ Rec(s) /\ s.run = r.run /\ s.answered = p.run /\ s.prompts = r.prompts /\ s.out = r.out
      /\ s.state = r.state /\ s.wait = r.wait
  BY DEF WithAnswer, Own, Rec
<1> HIDE DEF s
<1>2. QED
  BY <1>1 DEF s, Own

LEMMA FeaturesGood ==
  ASSUME NEW r, Own(r), NEW p, NEW offer, NEW pk
  PROVE  LET s == OnFeatures(r, p, offer, pk)
         IN /\ Own(s)
            /\ p.run # r.run => s = r
            /\ Rests(r) => Rests(s)
<1>1. \/ OnFeatures(r, p, offer, pk) = r
      \/ /\ p.run = r.run /\ r.state = "W4UserFeatures"
         /\ \/ OnFeatures(r, p, offer, pk) = SlaveAnswer(r, offer, pk)
            \/ OnFeatures(r, p, offer, pk) = StartPairingRequest(r, offer)
  BY DEF OnFeatures
<1>2. QED
  BY <1>1, AnswerGood, StartPairingOwn DEF Good

LEMMA PasskeyGood ==
  ASSUME NEW r, Own(r), NEW p, NEW pk
  PROVE  LET s == OnPasskey(r, p, pk)
         IN /\ Own(s)
            /\ p.run # r.run => s = r
            /\ Rests(r) /\ (Resting(r) => p.run < r.run) => Rests(s)
<1> DEFINE t == [r EXCEPT !.passkey = pk]
           a == WithAnswer(t, p)
<1>1. Same(t, r) /\ t.state = r.state /\ t.wait = r.wait
  BY DEF Same, Own, Rec
<1>2. \/ OnPasskey(r, p, pk) = r
      \/ p.run = r.run /\ OnPasskey(r, p, pk) = a
      \/ p.run = r.run /\ r.state = "W4UserPasskey" /\ OnPasskey(r, p, pk) = AfterInitsConfirmAndPasskey(a)
      \/ p.run = r.run /\ r.state = "W4UserPasskey" /\ OnPasskey(r, p, pk) = SendConfirm(a)
  BY DEF OnPasskey
<1> HIDE DEF t
<1>3. Own(t) /\ t.run = r.run /\ t.out = r.out
  BY <1>1, SameIsOwn DEF Same
<1>4. p.run = r.run => Own(a) /\ a.run = r.run /\ a.state = r.state /\ a.wait = r.wait /\ a.out = r.out
  BY <1>1, <1>3, WithAnswerDoes
<1> HIDE DEF a
<1>5. ASSUME p.run = r.run, OnPasskey(r, p, pk) = a
      PROVE  Own(a) /\ (Rests(r) /\ (Resting(r) => p.run < r.run) => Rests(a))
  BY <1>4, <1>5 DEF Rests, Resting, PacketsOld, Own
<1>6. p.run = r.run /\ r.state = "W4UserPasskey" => Good(AfterInitsConfirmAndPasskey(a))
  BY <1>4, AfterInitsGood
<1>7. p.run = r.run /\ r.state = "W4UserPasskey" => Good(SendConfirm(a))
  BY <1>4, SendConfirmOwn DEF Good
<1>8. QED
  BY <1>2, <1>5, <1>6, <1>7 DEF Good

LEMMA ComparedGood ==
  ASSUME NEW r, Own(r), NEW p
  PROVE  LET s == OnCompared(r, p)
         IN /\ Own(s)
            /\ p.run # r.run => s = r
            /\ Rests(r) /\ (Resting(r) => p.run < r.run) => Rests(s)
<1> DEFINE a == WithAnswer(r, p)
           t == [a EXCEPT !.numericOk = TRUE]
<1>1. \/ OnCompared(r, p) = r
      \/ p.run = r.run /\ OnCompared(r, p) = t
      \/ /\ p.run = r.run /\ r.state = "W4UserNumericComparison"
         /\ \/ OnCompared(r, p) = AfterNumericComparisonOkAndDHKeyCheck(t)
            \/ OnCompared(r, p) = SendDHKeyCheck(a)
  BY DEF OnCompared
<1>2. p.run = r.run => Own(a) /\ a.run = r.run /\ a.state = r.state /\ a.wait = r.wait /\ a.out = r.out
  BY WithAnswerDoes
<1> HIDE DEF a
<1>3. p.run = r.run => Same(t, a) /\ t.state = r.state /\ t.wait = r.wait
  BY <1>2 DEF Same, Own, Rec
<1> HIDE DEF t
<1>4. p.run = r.run => Own(t) /\ t.run = r.run /\ t.state = r.state /\ t.wait = r.wait /\ t.out = r.out
  BY <1>2, <1>3, SameIsOwn DEF Same
<1>5. ASSUME p.run = r.run
      PROVE  Own(t) /\ (Rests(r) /\ (Resting(r) => p.run < r.run) => Rests(t))
  BY <1>4, <1>5 DEF Rests, Resting, PacketsOld, Own
<1>6. ASSUME p.run = r.run, r.state = "W4UserNumericComparison"
      PROVE  LET g == AfterNumericComparisonOkAndDHKeyCheck(t) IN Own(g) /\ (Rests(r) => Rests(g))
  <2>1. Rests(r) => (t.wait = "PairingRequest" => PacketsOld(t))
    BY <1>4, <1>6 DEF Rests, PacketsOld
  <2>2. QED
    BY <1>4, <1>6, <2>1, AfterNumericGood DEF Good
<1>7. p.run = r.run /\ r.state = "W4UserNumericComparison" => Good(SendDHKeyCheck(a))
  BY <1>2, SendCheckOwn DEF Good
<1>8. QED
  BY <1>1, <1>5, <1>6, <1>7 DEF Good

\* An answer changes nothing unless it was asked for in this run.
LEMMA AnswerIsGood ==
  ASSUME NEW r, Own(r), NEW p, NEW offer, NEW pk, NEW g,
         g = OnFeatures(r, p, offer, pk) \/ g = OnPasskey(r, p, pk) \/ g = OnCompared(r, p)
  PROVE  Own(g) /\ (p.run # r.run => g = r) /\ (Rests(r) /\ (Resting(r) => p.run < r.run) => Rests(g))
<1>1. CASE g = OnFeatures(r, p, offer, pk)
  <2>1. Own(g)
    BY <1>1, FeaturesGood
  <2>2. p.run # r.run => g = r
    BY <1>1, FeaturesGood
  <2>3. Rests(r) => Rests(g)
    BY <1>1, FeaturesGood
  <2>4. QED
    BY <2>1, <2>2, <2>3
<1>2. CASE g = OnPasskey(r, p, pk)
  BY <1>2, PasskeyGood
<1>3. CASE g = OnCompared(r, p)
  BY <1>3, ComparedGood
<1>4. QED
  BY <1>1, <1>2, <1>3

\* An answer of the user reaches the side it was asked from.
LEMMA AnswersGood ==
  ASSUME NEW s, Own(s), NEW p \in s.prompts, NEW offer, NEW pk, NEW r,
         Rec(r), r.run = s.run, r.answered = s.answered, r.prompts = s.prompts \ {p},
         r.out = s.out, r.state = s.state, r.wait = s.wait,
         NEW g, g = OnFeatures(r, p, offer, pk) \/ g = OnPasskey(r, p, pk) \/ g = OnCompared(r, p)
  PROVE  Own(g) /\ (Rests(s) => Rests(g)) /\ (Cleared(s) => Cleared(g))
<1>1. r.run = s.run /\ r.state = s.state /\ r.wait = s.wait
  OBVIOUS
<1>2. \/ g = OnFeatures(r, p, offer, pk) \/ g = OnPasskey(r, p, pk) \/ g = OnCompared(r, p)
  OBVIOUS
<1>3. Own(r) /\ (Rests(s) => Rests(r)) /\ (Cleared(s) => Cleared(r))
  BY DEF Own, Rests, Resting, Cleared, PacketsOld
<1>4. p.run \in 0 .. r.run /\ r.run \in Nat /\ (Cleared(s) => p.run < r.run)
  BY <1>1 DEF Own, Cleared
<1>5. Rests(s) => (Resting(r) => p.run < r.run)
  BY <1>1, <1>4 DEF Rests, Resting
<1>6. Own(g) /\ (p.run # r.run => g = r) /\ (Rests(r) /\ (Resting(r) => p.run < r.run) => Rests(g))
  BY <1>2, <1>3, AnswerIsGood
<1>7. Cleared(s) => p.run # r.run
  BY <1>4
<1>8. QED
  BY <1>3, <1>5, <1>6, <1>7

\* What is used of the user was asked in the run that uses it, of either side; and while the
\* slave waits for the end of a refused request for a key, nothing of it is in use.
SmpInv ==
  /\ side = [x \in Sides |-> side[x]]
  /\ Own(side[Master]) /\ Own(side[Slave]) /\ Rests(side[Slave])
  /\ enc # None => "told" \in DOMAIN enc /\ "clear" \in DOMAIN enc
  /\ enc # None /\ enc.clear /\ Slave \notin enc.told => Cleared(side[Slave])

\* The slave's record changes to g.
LEMMA SlaveBecomes ==
  ASSUME SmpInv, NEW g, Set(Slave, g), Own(g), Rests(g),
         enc' # None => "told" \in DOMAIN enc' /\ "clear" \in DOMAIN enc',
         enc' # None /\ enc'.clear /\ Slave \notin enc'.told => Cleared(g)
  PROVE  SmpInv'
<1>1. /\ side' = [x \in Sides |-> side'[x]] /\ side'[Slave] = g /\ side'[Master] = side[Master]
  BY DEF SmpInv, Set, Sides, Master, Slave
<1>2. QED
  BY <1>1 DEF SmpInv

\* The master's record changes to g.
LEMMA MasterBecomes ==
  ASSUME SmpInv, NEW g, Set(Master, g), Own(g),
         enc' # None => "told" \in DOMAIN enc' /\ "clear" \in DOMAIN enc',
         enc' # None /\ enc'.clear /\ Slave \notin enc'.told => Cleared(side[Slave])
  PROVE  SmpInv'
<1>1. /\ side' = [x \in Sides |-> side'[x]] /\ side'[Master] = g /\ side'[Slave] = side[Slave]
  BY DEF SmpInv, Set, Sides, Master, Slave
<1>2. QED
  BY <1>1 DEF SmpInv

\* A step that keeps what has been cleared, in which no controller tells anything.
LEMMA SideBecomes ==
  ASSUME SmpInv, NEW x \in Sides, NEW g, Set(x, g), enc' = enc, Own(g),
         x = Slave => Rests(g) /\ (enc # None /\ enc.clear /\ Slave \notin enc.told => Cleared(g))
  PROVE  SmpInv'
<1>1. CASE x = Slave
  BY <1>1, SlaveBecomes DEF SmpInv
<1>2. CASE x = Master
  BY <1>2, MasterBecomes DEF SmpInv
<1>3. QED
  BY <1>1, <1>2 DEF Sides

LEMMA SideOwn ==
  ASSUME SmpInv, NEW x \in Sides
  PROVE  /\ Own(side[x]) /\ (x = Slave => Rests(side[x]))
         /\ x = Slave /\ enc # None /\ enc.clear /\ Slave \notin enc.told => Cleared(side[x])
BY DEF SmpInv, Sides, Master, Slave

LEMMA SendStep ==
  ASSUME SmpInv, NEW x \in Sides, Send(x)
  PROVE  SmpInv'
<1>1. Set(x, Sent(side[x])) /\ enc' = enc /\ side[x].out # <<>>
  BY DEF Send
<1>2. QED
  BY <1>1, SideOwn, SentOwn, SideBecomes

LEMMA AcknowledgedStep ==
  ASSUME SmpInv, NEW x \in Sides, Acknowledged(x)
  PROVE  SmpInv'
<1> DEFINE r == [side[x] EXCEPT !.ack = None]
           g == IF r.run = side[x].ack THEN PairingDone(r) ELSE r
<1>1. Set(x, g) /\ enc' = enc
  BY DEF Acknowledged
<1>2. Own(side[x])
  BY SideOwn
<1>3. Own(g) /\ (Cleared(side[x]) => Cleared(g)) /\ (Rests(side[x]) => Rests(g))
  BY <1>2, AcknowledgedOwn
<1> HIDE DEF g
<1>4. QED
  BY <1>1, <1>3, SideOwn, SideBecomes

LEMMA ReceiveStep ==
  ASSUME SmpInv, NEW x \in Sides, Receive(x)
  PROVE  SmpInv'
<1> DEFINE m == Head(wire[Other(x)])
<1>1. PICK g : /\ Set(x, g)
               /\ \/ g = side[x]
                  \/ x = Slave /\ g \in SlaveReceives(side[x], m)
                  \/ x # Slave /\ g \in MasterReceives(side[x], m)
  BY DEF Receive
<1>2. enc' = enc /\ (enc # None => x \in enc.told)
  BY DEF Receive
<1> HIDE DEF m
<1>3. Own(g) /\ (x = Slave => Rests(g))
  <2>1. CASE g = side[x]
    BY <2>1, SideOwn
  <2>2. CASE x = Slave /\ g \in SlaveReceives(side[x], m)
    BY <2>2, SideOwn, ReceivesGood DEF Good
  <2>3. CASE x # Slave /\ g \in MasterReceives(side[x], m)
    BY <2>3, SideOwn, MasterReceivesOwn
  <2>4. QED
    BY <1>1, <2>1, <2>2, <2>3
<1>4. QED
  BY <1>1, <1>2, <1>3, SideBecomes

LEMMA TimeoutStep ==
  ASSUME SmpInv, NEW x \in Sides, Timeout(x)
  PROVE  SmpInv'
<1> DEFINE g == [Report(Forget(side[x]), "timeout") EXCEPT
                   !.run = @ + 1, !.state = "TimedOut", !.timer = FALSE, !.mute = TRUE]
<1>1. Set(x, g) /\ enc' = enc
  BY DEF Timeout
<1>2. Ended(g, side[x])
  BY SideOwn, TimeoutEnds
<1> HIDE DEF g
<1>3. QED
  BY <1>1, <1>2, EndedRests, SideBecomes DEF Ended

LEMMA CancelStep ==
  ASSUME SmpInv, NEW x \in Sides, UserCancels(x)
  PROVE  SmpInv'
<1> DEFINE r == [side[x] EXCEPT !.cancelled = TRUE]
           g == IF x = Slave THEN SlavePairingFailed(r) ELSE MasterSendPairingFailed(r)
<1>1. Set(x, g) /\ enc' = enc
  BY DEF UserCancels
<1>2. Own(side[x])
  BY SideOwn
<1>3. Same(r, side[x])
  BY <1>2 DEF Same, Own, Rec
<1> HIDE DEF r
<1>4. Own(r)
  BY <1>2, <1>3, SameIsOwn
<1>5. CASE x = Slave
  <2>1. g = SlavePairingFailed(r) /\ Ended(g, r)
    BY <1>4, <1>5, SlaveFails
  <2> HIDE DEF g
  <2>2. QED
    BY <1>1, <2>1, EndedRests, SideBecomes DEF Ended
<1>6. CASE x # Slave
  <2>1. Own(g)
    BY <1>4, <1>6, MasterCancelsOwn
  <2> HIDE DEF g
  <2>2. QED
    BY <1>1, <1>6, <2>1, SideBecomes
<1>7. QED
  BY <1>5, <1>6

LEMMA AnswerStep ==
  ASSUME SmpInv, NEW x \in Sides, UserAnswers(x)
  PROVE  SmpInv'
<1>1. PICK p \in side[x].prompts, offer \in Offers[x], pk \in Passkeys :
        LET r == [side[x] EXCEPT !.prompts = @ \ {p}]
        IN Set(x, CASE p.kind = "features" -> OnFeatures(r, p, offer, pk)
                    [] p.kind = "passkey" -> OnPasskey(r, p, pk)
                    [] p.kind = "compare" -> OnCompared(r, p))
  BY DEF UserAnswers
<1> DEFINE r == [side[x] EXCEPT !.prompts = @ \ {p}]
           g == CASE p.kind = "features" -> OnFeatures(r, p, offer, pk)
                  [] p.kind = "passkey" -> OnPasskey(r, p, pk)
                  [] p.kind = "compare" -> OnCompared(r, p)
<1>2. Set(x, g) /\ enc' = enc
  BY <1>1 DEF UserAnswers
<1>3. Own(side[x])
  BY SideOwn
<1>4. Own(g) /\ (Rests(side[x]) => Rests(g)) /\ (Cleared(side[x]) => Cleared(g))
  <2>1. g = OnFeatures(r, p, offer, pk) \/ g = OnPasskey(r, p, pk) \/ g = OnCompared(r, p)
    <3>1. p.kind \in {"features", "passkey", "compare"}
      BY <1>3 DEF Own
    <3> HIDE DEF r
    <3>2. QED
      BY <3>1
  <2>2. /\ Rec(r) /\ r.run = side[x].run /\ r.answered = side[x].answered
        /\ r.prompts = side[x].prompts \ {p} /\ r.out = side[x].out
        /\ r.state = side[x].state /\ r.wait = side[x].wait
    BY <1>3 DEF Own, Rec
  <2> HIDE DEF g, r
  <2>3. QED
    BY <1>3, <2>1, <2>2, AnswersGood
<1> HIDE DEF g
<1>5. QED
  BY <1>2, <1>4, SideOwn, SideBecomes

LEMMA LtkRequestStep ==
  ASSUME SmpInv, LtkRequest
  PROVE  SmpInv'
<1>1. PICK id : LET a == SlaveOnLtkRequest(side[Slave], id)
                IN /\ Set(Slave, a.r)
                   /\ enc' = [from |-> a.from, clear |-> a.clear, told |-> {}, ok |-> a.key # None,
                              bond |-> side[Slave].avail]
  BY DEF LtkRequest
<1> DEFINE a == SlaveOnLtkRequest(side[Slave], id)
<1>2. Good(side[Slave])
  BY DEF SmpInv, Good
<1>3. Good(a.r) /\ (a.clear => Cleared(a.r))
  BY <1>2, LtkGood
<1>4. /\ Set(Slave, a.r)
      /\ enc' = [from |-> a.from, clear |-> a.clear, told |-> {}, ok |-> a.key # None,
                 bond |-> side[Slave].avail]
  BY <1>1
<1> HIDE DEF a
<1>5. "told" \in DOMAIN enc' /\ "clear" \in DOMAIN enc' /\ enc'.clear = a.clear
  BY <1>4
<1>6. QED
  BY <1>3, <1>4, <1>5, SlaveBecomes DEF Good

LEMMA SlaveToldStep ==
  ASSUME SmpInv, SlaveIsTold
  PROVE  SmpInv'
<1>1. /\ enc # None /\ Slave \notin enc.told /\ Told(Slave)
      /\ Set(Slave, SlaveEncrypted(side[Slave], enc))
  BY DEF SlaveIsTold
<1>2. Good(side[Slave]) /\ (enc.clear => Cleared(side[Slave]))
  BY <1>1 DEF SmpInv, Good
<1>3. Good(SlaveEncrypted(side[Slave], enc))
  BY <1>2, EncryptedGood
<1>4. enc' # None => "told" \in DOMAIN enc' /\ "clear" \in DOMAIN enc' /\ Slave \in enc'.told
  BY <1>1 DEF Told, SmpInv
<1>5. QED
  BY <1>1, <1>3, <1>4, SlaveBecomes DEF Good

LEMMA MasterToldStep ==
  ASSUME SmpInv, MasterIsTold
  PROVE  SmpInv'
<1>1. enc # None /\ Told(Master)
  BY DEF MasterIsTold
<1>2. PICK h, result, g : g \in MasterEncrypted(side[Master], h, result) /\ Set(Master, g)
  BY DEF MasterIsTold
<1>3. Own(g)
  BY <1>2, MasterEncryptedOwn DEF SmpInv
<1>4. enc' # None => /\ "told" \in DOMAIN enc' /\ "clear" \in DOMAIN enc'
                     /\ enc'.clear = enc.clear /\ (Slave \in enc.told => Slave \in enc'.told)
  BY <1>1 DEF Told, SmpInv
<1>5. enc' # None /\ enc'.clear /\ Slave \notin enc'.told => Cleared(side[Slave])
  BY <1>1, <1>4 DEF SmpInv
<1>6. QED
  BY <1>2, <1>3, <1>4, <1>5, MasterBecomes

LEMMA RefusedStep ==
  ASSUME SmpInv, SecondIsRefused
  PROVE  SmpInv'
<1> DEFINE r == side[Master]
           h == r.hci[2]
           alone == [r EXCEPT !.hci = <<h>>]
<1>1. enc' = enc
  BY DEF SecondIsRefused
<1>2. PICK s \in MasterEncrypted(alone, h, "error") : Set(Master, [s EXCEPT !.hci = <<Head(r.hci)>>])
  BY DEF SecondIsRefused
<1>3. Own(r)
  BY DEF SmpInv
<1>4. Same(alone, r)
  BY <1>3 DEF Same, Own, Rec
<1> HIDE DEF h, alone
<1>5. Own(alone)
  BY <1>3, <1>4, SameIsOwn
<1>6. Own(s)
  BY <1>5, MasterEncryptedOwn
<1> DEFINE g == [s EXCEPT !.hci = <<Head(r.hci)>>]
<1>7. Same(g, s)
  BY <1>6 DEF Same, Own, Rec
<1>8. Set(Master, g)
  BY <1>2
<1> HIDE DEF g
<1>9. Own(g)
  BY <1>6, <1>7, SameIsOwn
<1>10. QED
  BY <1>1, <1>8, <1>9, SideBecomes DEF Sides, Master, Slave

LEMMA PairsStep ==
  ASSUME SmpInv, UserPairs
  PROVE  SmpInv'
<1> DEFINE r == [side[Master] EXCEPT !.handled = TRUE]
<1>1. PICK offer : Set(Master, StartPairingRequest(r, offer))
  BY DEF UserPairs
<1>2. enc' = enc
  BY DEF UserPairs
<1>3. Own(side[Master])
  BY DEF SmpInv
<1>4. Same(r, side[Master])
  BY <1>3 DEF Same, Own, Rec
<1> HIDE DEF r
<1>5. Own(StartPairingRequest(r, offer))
  BY <1>3, <1>4, SameIsOwn, StartPairingOwn
<1>6. QED
  BY <1>1, <1>2, <1>5, SideBecomes DEF Sides, Master, Slave

LEMMA EncryptsStep ==
  ASSUME SmpInv, UserEncrypts
  PROVE  SmpInv'
<1> DEFINE g == StartEncryptWithAvailableLtk(side[Master], {})
<1>1. Set(Master, g) /\ enc' = enc
  BY DEF UserEncrypts
<1>2. Own(side[Master])
  BY DEF SmpInv
<1>3. Same(g, side[Master])
  BY <1>2 DEF StartEncryptWithAvailableLtk, Same, Own, Rec
<1> HIDE DEF g
<1>4. Own(g)
  BY <1>2, <1>3, SameIsOwn
<1>5. QED
  BY <1>1, <1>4, SideBecomes DEF Sides, Master, Slave

LEMMA AsksForSecurityStep ==
  ASSUME SmpInv, UserAsksForSecurity
  PROVE  SmpInv'
<1> DEFINE r == side[Slave]
           t == [r EXCEPT !.state = "W4Packet", !.wait = "PairingRequest", !.timer = TRUE]
<1>1. PICK mitm \in BOOLEAN :
        Set(Slave, SendData(t, [op |-> "SecurityRequest", mitm |-> mitm, sc |-> Defaults[Slave].sc], None))
  BY DEF UserAsksForSecurity
<1>2. enc' = enc /\ r.state = "Idle"
  BY DEF UserAsksForSecurity
<1>3. Own(r) /\ Cleared(r)
  BY <1>2 DEF SmpInv, Rests, Resting
<1>4. Same(t, r)
  BY <1>3 DEF Same, Own, Rec
<1> HIDE DEF t
<1>5. Own(t) /\ Cleared(t)
  BY <1>3, <1>4, SameIsOwn
<1> DEFINE g == SendData(t, [op |-> "SecurityRequest", mitm |-> mitm, sc |-> Defaults[Slave].sc], None)
<1>6. Own(g) /\ Cleared(g)
  BY <1>5, SendDataDoes, SmpAssumption
<1>7. Set(Slave, g)
  BY <1>1
<1> HIDE DEF g
<1>8. Rests(g)
  BY <1>6 DEF Rests, Cleared
<1>9. QED
  BY <1>2, <1>6, <1>7, <1>8, SideBecomes DEF Sides

LEMMA SmpInvInit ==
  SmpInit => SmpInv
<1> SUFFICES ASSUME SmpInit
             PROVE  SmpInv
  OBVIOUS
<1>1. PICK old : side = [x \in Sides |-> New(x, old)]
  BY DEF SmpInit
<1>2. ASSUME NEW x \in Sides
      PROVE  Own(side[x]) /\ Rests(side[x])
  <2> DEFINE r == New(x, old)
  <2>1. /\ Rec(r) /\ r.run = 0 /\ r.answered = None /\ r.prompts = {} /\ r.out = <<>>
    BY DEF New, Rec
  <2> HIDE DEF r
  <2>2. IsSeq(r.out) /\ DOMAIN r.out = {}
    <3>1. <<>> \in Seq({}) /\ DOMAIN <<>> = {}
      OBVIOUS
    <3>2. QED
      BY <2>1, <3>1 DEF IsSeq
  <2>3. Own(r) /\ Cleared(r)
    BY <2>1, <2>2 DEF Own, Cleared, PacketsOld
  <2>4. side[x] = r
    BY <1>1 DEF r
  <2>5. QED
    BY <2>3, <2>4 DEF Rests, Cleared
<1>3. side = [x \in Sides |-> side[x]] /\ Master \in Sides /\ Slave \in Sides
  BY <1>1 DEF Sides
<1>4. QED
  BY <1>2, <1>3 DEF SmpInv, SmpInit

LEMMA SmpInvNext ==
  SmpInv /\ [SmpNext]_smpVars => SmpInv'
<1> SUFFICES ASSUME SmpInv, [SmpNext]_smpVars
             PROVE  SmpInv'
  OBVIOUS
<1>1. ASSUME NEW x \in Sides, System(x) \/ UserCancels(x) \/ UserAnswers(x)
      PROVE  SmpInv'
  BY <1>1, SendStep, AcknowledgedStep, ReceiveStep, TimeoutStep, CancelStep, AnswerStep DEF System
<1>2. CASE LtkRequest \/ SlaveIsTold \/ MasterIsTold \/ SecondIsRefused
  BY <1>2, LtkRequestStep, SlaveToldStep, MasterToldStep, RefusedStep
<1>3. CASE UserPairs \/ UserEncrypts \/ UserAsksForSecurity
  BY <1>3, PairsStep, EncryptsStep, AsksForSecurityStep
<1>4. CASE UNCHANGED smpVars
  BY <1>4 DEF smpVars, SmpInv
<1>5. QED
  BY <1>1, <1>2, <1>3, <1>4 DEF SmpNext

\* An answer of the user is used in the pairing that asked for it, never in a later one: the
\* runCounter that the callbacks compare, for any offers of the users, and for any packets in
\* any order that the two security managers can bring about.
THEOREM AnswersOfTheirRun == SmpSpec => []LateAnswersIgnored
<1>1. SmpInv => LateAnswersIgnored
  BY SideOwn DEF LateAnswersIgnored, Own
<1>2. QED
  BY <1>1, SmpInvInit, SmpInvNext, PTL DEF SmpSpec
=============================================================================
