-------------------------- MODULE L2capCocProofs ---------------------------
(***************************************************************************)
(* Proofs about L2capCoc: its types, that the channel is released once,    *)
(* that SDUs and acknowledgements keep their order and that the two ends   *)
(* agree on the credits, for any grants and limits, any number of SDUs and *)
(* frames, and a peer that may also send without a credit.  Then about     *)
(* GattClient, which shares nothing with it: no pieces of a write are left *)
(* behind at the server, for any services and any calls of users.          *)
(***************************************************************************)
EXTENDS L2capCoc, GattClient, FiniteSetTheorems, SequenceTheorems, TLAPS

-----------------------------------------------------------------------------
(* The inductive invariant. *)

\* Frames and credits pass between the two ends.
Carries == obj.isActive /\ ~disconnected

\* Before the channel is established nothing is under way.
Unused ==
  peer.state = "none" =>
    /\ ~inCocMap /\ ~obj.isActive
    /\ callStack = <<>> /\ toPeer = <<>> /\ toLocal = <<>>
    /\ obj.incomingPackets = <<>> /\ obj.sduFramesLeft = 0 /\ received = <<>>
    /\ ~obj.hasPendingOutgoingPacket /\ ~requestPending
    /\ peer.sdu = 0 /\ peer.framesLeft = 0

\* A channel waits for the answer to its request only until it is released.
Registered ==
  /\ ReleasedOnce
  /\ obj.isWaitingForDisconnectResponse => inCocMap /\ ~obj.isActive

\* g is the frame to be sent after f.
Follows(f, g) ==
  IF IsLast(f)
  THEN g.sdu = f.sdu + 1
  ELSE g.sdu = f.sdu

\* The frames of o not written yet, the one with the adapter first, are those of the k SDUs
\* that were handed in without those acknowledged, s.
SendingOf(o, s, k) ==
  /\ o.hasPendingOutgoingPacket =>
       /\ o.pending \in Frame
       /\ o.pending.sdu = Len(s) + 1
       /\ o.outgoingPackets # <<>> => Follows(o.pending, o.outgoingPackets[1])
       /\ o.outgoingPackets = <<>> => IsLast(o.pending) /\ o.pending.sdu = k
  /\ ~o.hasPendingOutgoingPacket =>
       /\ o.outgoingPackets # <<>> => o.outgoingPackets[1].sdu = Len(s) + 1
       /\ o.outgoingPackets = <<>> => Len(s) = k
  /\ \A i \in 1 .. Len(o.outgoingPackets) - 1 : Follows(o.outgoingPackets[i], o.outgoingPackets[i + 1])
  /\ o.outgoingPackets # <<>> =>
       /\ IsLast(o.outgoingPackets[Len(o.outgoingPackets)])
       /\ o.outgoingPackets[Len(o.outgoingPackets)].sdu = k
  /\ \A i \in DOMAIN s : s[i] = i

Sending == SendingOf(obj, sent, submitted)

\* The SDUs that o buffers are those after the ones received, r, whole except for the last.
Expects(in, left) ==
  left # 0 => Len(in) # 0 /\ in[Len(in)].frames + left = in[Len(in)].total
BufferedOf(in, left, r) ==
  /\ \A i \in 1 .. Len(in) :
       /\ in[i].sdu = Len(r) + i
       /\ i < Len(in) \/ left = 0 => in[i].frames = in[i].total
  /\ Expects(in, left)
  /\ \A i \in DOMAIN r : r[i].sdu = i /\ r[i].frames = r[i].total

Buffered == BufferedOf(obj.incomingPackets, obj.sduFramesLeft, received)

\* How far a stream of frames has got: SDU, frames of it, and frames of it still to come.
Progress == [sdu : Nat, total : Nat, left : Nat]
At(p, sdu, total, left) == p.sdu = sdu /\ p.left = left /\ (left # 0 => p.total = total)

\* A packet takes the stream from p to q.
Continues(p, frame) ==
  /\ p.left = 0 => frame.sdu = p.sdu + 1 /\ frame.index = 1
  /\ p.left # 0 =>
       frame.sdu = p.sdu /\ frame.total = p.total /\ frame.index = p.total - p.left + 1
Advances(p, q, packet) ==
  IF packet.type = "frame"
  THEN /\ q.sdu = packet.frame.sdu /\ q.total = packet.frame.total
       /\ q.left = packet.frame.total - packet.frame.index
       /\ Continues(p, packet.frame)
  ELSE q = p

LastTotal(in) == IF Len(in) = 0 THEN 0 ELSE in[Len(in)].total

\* The frames on a wire lead from what the host has to what the peer has sent.
Streamed(in, left, r, wire, p) ==
  \E P \in [0 .. Len(wire) -> Progress] :
    /\ At(P[0], Len(r) + Len(in), LastTotal(in), left)
    /\ \A i \in 1 .. Len(wire) : Advances(P[i - 1], P[i], wire[i])
    /\ At(P[Len(wire)], p.sdu, p.total, p.framesLeft)

Streaming ==
  /\ Carries /\ ~crashed =>
       Streamed(obj.incomingPackets, obj.sduFramesLeft, received, toLocal, peer)
  /\ disconnected => toLocal = <<>> /\ toPeer = <<>>
  /\ peer.framesLeft <= peer.total
  /\ peer.framesLeft # 0 => peer.sdu # 0
  /\ peer.sdu = 0 => FramesIn(toLocal) = 0

\* Every frame under way to the peer has a credit.
Covered ==
  /\ FramesIn(toPeer) <= peer.rxCredits
  /\ Carries => obj.txCredits + FramesIn(toPeer) + CreditsIn(toLocal) <= peer.rxCredits

NoLoop == \A i \in 1 .. Len(callStack) : callStack[i] # "loop"

\* What a peer that keeps the rules may send is what the host counts, and only while the
\* loop runs, or the channel is paused or has not been used, is it not more than LowWater.
Fed ==
  Carries /\ peer.violations = 0 =>
    /\ obj.rxCredits = peer.txCredits + FramesIn(toLocal) + CreditsIn(toPeer)
    /\ peer.sdu = 0 => obj.rxCredits = 0 \/ obj.rxCredits = RxGrant
    /\ NoLoop /\ ~obj.isPaused =>
         obj.rxCredits > LowWater \/ (peer.sdu = 0 /\ obj.rxCredits = 0)

CocInv ==
  TypeOK /\ Unused /\ Registered /\ Sending /\ Buffered /\ Streaming /\ Covered /\ Fed

-----------------------------------------------------------------------------
(* Sequences and wires. *)

LEMMA TailElements ==
  ASSUME NEW S, NEW s \in Seq(S), s # <<>>
  PROVE  /\ Tail(s) \in Seq(S) /\ Len(s) \in Nat \ {0} /\ Len(Tail(s)) = Len(s) - 1
         /\ Head(s) = s[1] /\ Head(s) \in S
         /\ \A i \in 1 .. Len(Tail(s)) : Tail(s)[i] = s[i + 1]
BY HeadTailProperties, EmptySeq

LEMMA AppendElements ==
  ASSUME NEW S, NEW s \in Seq(S), NEW e \in S
  PROVE  /\ Append(s, e) \in Seq(S) /\ Len(s) \in Nat
         /\ Len(Append(s, e)) = Len(s) + 1 /\ Append(s, e)[Len(s) + 1] = e
         /\ \A i \in 1 .. Len(s) : Append(s, e)[i] = s[i]
         /\ Append(s, e) # <<>>
BY AppendProperties, EmptySeq

\* Removing the last activation of a stack leaves the others where they are.
LEMMA PopProperties ==
  ASSUME NEW S, NEW s \in Seq(S), s # <<>>
  PROVE  /\ SubSeq(s, 1, Len(s) - 1) \in Seq(S)
         /\ Len(s) \in Nat \ {0}
         /\ Len(SubSeq(s, 1, Len(s) - 1)) = Len(s) - 1
         /\ \A i \in 1 .. Len(s) - 1 : SubSeq(s, 1, Len(s) - 1)[i] = s[i]
<1> DEFINE m == Len(s) - 1
<1>1. Len(s) \in Nat \ {0} /\ \A i \in 1 .. Len(s) : s[i] \in S
  BY EmptySeq, ElementOfSeq
<1>2. m \in Nat /\ m <= Len(s) /\ m \in Int /\ 1 \in Int
  BY <1>1
<1>3. \A i \in 1 .. m : s[i] \in S
  BY <1>1, <1>2
<1> HIDE DEF m
<1>4. /\ SubSeq(s, 1, m) \in Seq(S)
      /\ Len(SubSeq(s, 1, m)) = (IF 1 <= m THEN m - 1 + 1 ELSE 0)
      /\ \A i \in 1 .. m - 1 + 1 : SubSeq(s, 1, m)[i] = s[1 + i - 1]
  BY <1>2, <1>3, SubSeqProperties
<1>5. Len(SubSeq(s, 1, m)) = m /\ \A i \in 1 .. m : i \in 1 .. m - 1 + 1 /\ 1 + i - 1 = i
  BY <1>2, <1>4
<1>6. \A i \in 1 .. m : SubSeq(s, 1, m)[i] = s[i]
  BY <1>4, <1>5
<1>7. QED
  BY <1>1, <1>4, <1>5, <1>6 DEF m

\* The kinds of packets, and that they are different.
LEMMA PacketKinds ==
  /\ \A f \in Frame : FramePacket(f) \in Packet /\ FramePacket(f).type = "frame"
                       /\ FramePacket(f).frame = f
  /\ \A n \in Nat : Credits(n) \in Packet /\ Credits(n).type = "credits" /\ Credits(n).credits = n
  /\ \A type \in {"disconnectionRequest", "disconnectionResponse", "reject"} :
       Signal(type) \in Packet /\ Signal(type).type = type
  /\ \A p \in Packet :
       /\ p.type \in {"frame", "credits", "disconnectionRequest", "disconnectionResponse", "reject"}
       /\ p.type = "frame" => p.frame \in Frame
       /\ p.type = "credits" => p.credits \in Nat
<1> HIDE DEF Frame
<1>1. \A f \in Frame : FramePacket(f) \in Packet /\ FramePacket(f).type = "frame"
                       /\ FramePacket(f).frame = f
  BY DEF FramePacket, Packet
<1>2. \A n \in Nat : Credits(n) \in Packet /\ Credits(n).type = "credits" /\ Credits(n).credits = n
  BY DEF Credits, Packet
<1>3. \A type \in {"disconnectionRequest", "disconnectionResponse", "reject"} :
        Signal(type) \in Packet /\ Signal(type).type = type
  BY DEF Signal, Packet
<1>4. ASSUME NEW p \in Packet
      PROVE  /\ p.type \in {"frame", "credits", "disconnectionRequest", "disconnectionResponse", "reject"}
             /\ p.type = "frame" => p.frame \in Frame
             /\ p.type = "credits" => p.credits \in Nat
  BY <1>4 DEF Packet
<1>5. QED
  BY <1>1, <1>2, <1>3, <1>4

\* How many units a packet has.
LEMMA UnitsOfPackets ==
  /\ \A p \in Packet : \A type : UnitsOf(p, type) \in Nat
  /\ \A f \in Frame : UnitsOf(FramePacket(f), "frame") = 1 /\ UnitsOf(FramePacket(f), "credits") = 0
  /\ \A n \in Nat : UnitsOf(Credits(n), "frame") = 0 /\ UnitsOf(Credits(n), "credits") = n
  /\ \A type \in {"disconnectionRequest", "disconnectionResponse", "reject"} :
       UnitsOf(Signal(type), "frame") = 0 /\ UnitsOf(Signal(type), "credits") = 0
  /\ \A p \in Packet :
       /\ UnitsOf(p, "frame") = IF p.type = "frame" THEN 1 ELSE 0
       /\ UnitsOf(p, "credits") = IF p.type = "credits" THEN p.credits ELSE 0
BY PacketKinds DEF UnitsOf

\* The units on a wire are finitely many.
LEMMA UnitsFinite ==
  ASSUME NEW wire \in Seq(Packet), NEW type
  PROVE  /\ IsFiniteSet(Units(wire, type))
         /\ Cardinality(Units(wire, type)) \in Nat
         /\ \A x : x \in Units(wire, type) <=>
              \E i \in 1 .. Len(wire) : \E k \in 1 .. UnitsOf(wire[i], type) : x = <<i, k>>
<1> DEFINE I == 1 .. Len(wire)
           part == [i \in I |-> {i} \X (1 .. UnitsOf(wire[i], type))]
           parts == {part[i] : i \in I}
<1>1. Len(wire) \in Nat /\ DOMAIN wire = I /\ \A i \in I : wire[i] \in Packet
  BY ElementOfSeq, LenProperties
<1>2. \A i \in I : UnitsOf(wire[i], type) \in Nat
  BY <1>1, UnitsOfPackets
<1>3. Units(wire, type) = UNION parts
  BY <1>1 DEF Units
<1>4. IsFiniteSet(I)
  BY <1>1, FS_Interval
<1>5. part \in Surjection(I, parts)
  BY DEF Surjection
<1>6. ASSUME NEW i \in I
      PROVE  IsFiniteSet(part[i])
  <2> DEFINE n == UnitsOf(wire[i], type)
  <2>1. n \in Int /\ 1 \in Int
    BY <1>2
  <2> HIDE DEF n
  <2>2. IsFiniteSet(1 .. n)
    BY <2>1, FS_Interval
  <2>3. IsFiniteSet({i})
    BY FS_Singleton
  <2>4. IsFiniteSet({i} \X (1 .. n))
    BY <2>2, <2>3, FS_Product
  <2>5. QED
    BY <2>4 DEF n
<1>7. \A x : x \in Units(wire, type) <=>
        \E i \in 1 .. Len(wire) : \E k \in 1 .. UnitsOf(wire[i], type) : x = <<i, k>>
  BY <1>1 DEF Units
<1>8. \A T \in parts : IsFiniteSet(T)
  BY <1>6
<1> HIDE DEF I, part, parts
<1>9. IsFiniteSet(parts)
  BY <1>4, <1>5, FS_Surjection
<1>10. IsFiniteSet(Units(wire, type))
  BY <1>3, <1>8, <1>9, FS_UNION
<1>11. QED
  BY <1>7, <1>10, FS_CardinalityType

\* A packet of n units.
LEMMA PacketUnits ==
  ASSUME NEW i, NEW n \in Nat
  PROVE  IsFiniteSet({i} \X (1 .. n)) /\ Cardinality({i} \X (1 .. n)) = n
<1>1. IsFiniteSet(1 .. n) /\ Cardinality(1 .. n) = n
  BY FS_Interval
<1>2. IsFiniteSet({i}) /\ Cardinality({i}) = 1
  BY FS_Singleton
<1>3. IsFiniteSet({i} \X (1 .. n)) /\ Cardinality({i} \X (1 .. n)) = 1 * n
  BY <1>1, <1>2, FS_Product
<1>4. QED
  BY <1>3

\* Sending a packet adds its units.
LEMMA UnitsAppend ==
  ASSUME NEW wire \in Seq(Packet), NEW packet \in Packet, NEW type
  PROVE  Cardinality(Units(Append(wire, packet), type)) =
           Cardinality(Units(wire, type)) + UnitsOf(packet, type)
<1> DEFINE n == Len(wire) + 1
           w == Append(wire, packet)
           U == {n} \X (1 .. UnitsOf(packet, type))
<1>1. /\ w \in Seq(Packet) /\ Len(wire) \in Nat /\ Len(w) = n /\ w[n] = packet
      /\ \A i \in 1 .. Len(wire) : w[i] = wire[i]
  BY AppendElements
<1>2. UnitsOf(packet, type) \in Nat
  BY UnitsOfPackets
<1>3. Units(w, type) = Units(wire, type) \cup U
  <2>1. \A x : x \in Units(w, type) <=>
          \E i \in 1 .. n : \E k \in 1 .. UnitsOf(w[i], type) : x = <<i, k>>
    <3> HIDE DEF w
    <3>1. \A x : x \in Units(w, type) <=>
            \E i \in 1 .. Len(w) : \E k \in 1 .. UnitsOf(w[i], type) : x = <<i, k>>
      BY <1>1, UnitsFinite
    <3>2. Len(w) = n
      BY <1>1
    <3> HIDE DEF n
    <3>3. QED
      BY <3>1, <3>2
  <2>2. \A x : x \in Units(wire, type) <=>
          \E i \in 1 .. Len(wire) : \E k \in 1 .. UnitsOf(wire[i], type) : x = <<i, k>>
    BY UnitsFinite
  <2> HIDE DEF w
  <2>3. 1 .. n = (1 .. Len(wire)) \cup {n}
    BY <1>1
  <2>4. \A x : x \in U <=> \E k \in 1 .. UnitsOf(w[n], type) : x = <<n, k>>
    BY <1>1
  <2> HIDE DEF U, n
  <2>5. QED
    BY <1>1, <2>1, <2>2, <2>3, <2>4
<1>4. Units(wire, type) \cap U = {}
  <2>1. \A x \in Units(wire, type) : \E i \in 1 .. Len(wire) : \E k \in Nat : x = <<i, k>>
    BY <1>1, <1>2, UnitsFinite
  <2>2. \A i \in 1 .. Len(wire) : i # n
    BY <1>1
  <2>3. \A x \in U : x[1] = n
    OBVIOUS
  <2>4. QED
    BY <2>1, <2>2, <2>3
<1>5. IsFiniteSet(U) /\ Cardinality(U) = UnitsOf(packet, type)
  BY <1>2, PacketUnits
<1>6. IsFiniteSet(Units(wire, type)) /\ Cardinality(Units(wire, type)) \in Nat
  BY UnitsFinite
<1> HIDE DEF U, w
<1>7. Cardinality(Units(wire, type) \cup U) =
        Cardinality(Units(wire, type)) + Cardinality(U) - Cardinality(Units(wire, type) \cap U)
  BY <1>5, <1>6, FS_Union, Zenon
<1>8. Cardinality(Units(wire, type) \cap U) = 0
  BY <1>4, FS_EmptySet
<1>9. QED
  BY <1>2, <1>3, <1>5, <1>6, <1>7, <1>8 DEF w

\* Receiving a packet takes its units away.
LEMMA UnitsTail ==
  ASSUME NEW wire \in Seq(Packet), wire # <<>>, NEW type
  PROVE  Cardinality(Units(wire, type)) =
           Cardinality(Units(Tail(wire), type)) + UnitsOf(Head(wire), type)
<1> DEFINE t == Tail(wire)
           U == {1} \X (1 .. UnitsOf(wire[1], type))
           V == Units(t, type)
           W == Units(wire, type)
           f == [x \in V |-> <<x[1] + 1, x[2]>>]
<1>1. /\ t \in Seq(Packet) /\ Len(wire) \in Nat \ {0} /\ Len(t) = Len(wire) - 1
      /\ Head(wire) = wire[1] /\ Head(wire) \in Packet
      /\ \A i \in 1 .. Len(t) : t[i] = wire[i + 1]
  BY TailElements
<1> HIDE DEF t
<1>2. UnitsOf(wire[1], type) \in Nat
  BY <1>1, UnitsOfPackets
<1>3. \A x : x \in V <=> \E i \in 1 .. Len(t) : \E k \in 1 .. UnitsOf(t[i], type) : x = <<i, k>>
  BY <1>1, UnitsFinite
<1>4. \A x : x \in W <=>
        \E i \in 1 .. Len(wire) : \E k \in 1 .. UnitsOf(wire[i], type) : x = <<i, k>>
  BY UnitsFinite
<1>5. IsFiniteSet(V) /\ Cardinality(V) \in Nat /\ IsFiniteSet(W) /\ Cardinality(W) \in Nat
  BY <1>1, UnitsFinite
<1> HIDE DEF V, W
<1>6. \A x \in U : x[1] = 1
  OBVIOUS
<1>7. \A i \in 1 .. Len(t) : i \in Nat /\ i + 1 \in 2 .. Len(wire) /\ i + 1 # 1
  BY <1>1
<1>8. \A i \in 2 .. Len(wire) : i - 1 \in 1 .. Len(t) /\ (i - 1) + 1 = i
  BY <1>1
<1>9. \A x \in V : f[x] \in W \ U
  <2> TAKE x \in V
  <2>1. PICK i \in 1 .. Len(t) : \E k \in 1 .. UnitsOf(t[i], type) : x = <<i, k>>
    BY <1>3
  <2>2. PICK k \in 1 .. UnitsOf(t[i], type) : x = <<i, k>>
    BY <2>1
  <2>3. f[x] = <<i + 1, k>>
    BY <2>2
  <2>4. i + 1 \in 1 .. Len(wire) /\ wire[i + 1] = t[i] /\ i + 1 # 1
    BY <1>1, <1>7
  <2> HIDE DEF f, U
  <2>5. <<i + 1, k>> \in W
    BY <1>4, <2>2, <2>4
  <2>6. QED
    BY <1>6, <2>3, <2>4, <2>5
<1>10. \A x, y \in V : f[x] = f[y] => x = y
  <2> TAKE x, y \in V
  <2> HAVE f[x] = f[y]
  <2>1. PICK i \in 1 .. Len(t) : \E k \in 1 .. UnitsOf(t[i], type) : x = <<i, k>>
    BY <1>3
  <2>2. PICK j \in 1 .. Len(t) : \E l \in 1 .. UnitsOf(t[j], type) : y = <<j, l>>
    BY <1>3
  <2>3. PICK k \in 1 .. UnitsOf(t[i], type) : x = <<i, k>>
    BY <2>1
  <2>4. PICK l \in 1 .. UnitsOf(t[j], type) : y = <<j, l>>
    BY <2>2
  <2>5. f[x] = <<i + 1, k>> /\ f[y] = <<j + 1, l>>
    BY <2>3, <2>4
  <2>6. i + 1 = j + 1 /\ k = l
    BY <2>5
  <2>7. i = j
    BY <1>7, <2>6
  <2>8. QED
    BY <2>3, <2>4, <2>6, <2>7
<1>11. \A y \in W \ U : \E x \in V : f[x] = y
  <2> TAKE y \in W \ U
  <2>1. PICK i \in 1 .. Len(wire) : \E k \in 1 .. UnitsOf(wire[i], type) : y = <<i, k>>
    BY <1>4
  <2>2. PICK k \in 1 .. UnitsOf(wire[i], type) : y = <<i, k>>
    BY <2>1
  <2>3. i # 1
    BY <2>2
  <2>4. i \in 2 .. Len(wire)
    BY <1>1, <2>3
  <2>5. i - 1 \in 1 .. Len(t) /\ t[i - 1] = wire[i] /\ (i - 1) + 1 = i
    BY <1>1, <1>8, <2>4
  <2> DEFINE x == <<i - 1, k>>
  <2>6. x \in V
    <3> HIDE DEF f, U
    <3>1. QED
      BY <1>3, <2>2, <2>5
  <2>7. f[x] = <<(i - 1) + 1, k>>
    BY <2>6
  <2>8. QED
    BY <2>2, <2>5, <2>6, <2>7
<1>12. f \in Bijection(V, W \ U)
  <2>1. f \in [V -> W \ U]
    BY <1>9
  <2> HIDE DEF f, U
  <2>2. QED
    BY <1>10, <1>11, <2>1 DEF Bijection, Injection, Surjection, IsInjective
<1>13. U \subseteq W
  <2>1. 1 \in 1 .. Len(wire)
    BY <1>1
  <2>2. QED
    BY <1>4, <2>1
<1>14. IsFiniteSet(U) /\ Cardinality(U) = UnitsOf(wire[1], type)
  BY <1>2, PacketUnits
<1> HIDE DEF U, f
<1>15. Cardinality(W \ U) = Cardinality(V)
  BY <1>5, <1>12, FS_Bijection DEF ExistsBijection
<1>16. Cardinality(W \ U) = Cardinality(W) - Cardinality(W \cap U)
  BY <1>5, FS_Difference
<1>17. W \cap U = U
  BY <1>13
<1>18. Cardinality(W) = Cardinality(V) + Cardinality(U)
  <2>1. Cardinality(W \cap U) = Cardinality(U)
    BY <1>17
  <2>2. Cardinality(U) \in Nat
    BY <1>2, <1>14
  <2> HIDE <1>17
  <2>3. QED
    BY <1>5, <1>15, <1>16, <2>1, <2>2
<1>19. QED
  BY <1>1, <1>14, <1>18 DEF t, V, W

-----------------------------------------------------------------------------
(* Streams. *)

\* A packet that is not a frame leaves the stream alone.
LEMMA StreamTail ==
  ASSUME NEW in, NEW left, NEW r, NEW p, NEW wire \in Seq(Packet), wire # <<>>,
         Streamed(in, left, r, wire, p), Head(wire).type # "frame"
  PROVE  Streamed(in, left, r, Tail(wire), p)
<1> DEFINE t == Tail(wire)
<1>1. /\ Len(wire) \in Nat \ {0} /\ Len(t) = Len(wire) - 1 /\ Head(wire) = wire[1]
      /\ \A i \in 1 .. Len(t) : t[i] = wire[i + 1]
  BY TailElements
<1>2. PICK P \in [0 .. Len(wire) -> Progress] :
        /\ At(P[0], Len(r) + Len(in), LastTotal(in), left)
        /\ \A i \in 1 .. Len(wire) : Advances(P[i - 1], P[i], wire[i])
        /\ At(P[Len(wire)], p.sdu, p.total, p.framesLeft)
  BY DEF Streamed
<1> DEFINE Q == [i \in 0 .. Len(t) |-> P[i + 1]]
<1> HIDE DEF t
<1>3. P[1] = P[0]
  <2>1. 1 \in 1 .. Len(wire) /\ 1 - 1 = 0
    BY <1>1
  <2>2. Advances(P[1 - 1], P[1], wire[1])
    BY <1>2, <2>1
  <2>3. QED
    BY <1>1, <2>1, <2>2 DEF Advances
<1>4. Q \in [0 .. Len(t) -> Progress]
  <2>1. \A i \in 0 .. Len(t) : i + 1 \in 0 .. Len(wire)
    BY <1>1
  <2> HIDE DEF Progress
  <2>2. QED
    BY <1>2, <2>1
<1>5. Q[0] = P[0] /\ Q[Len(t)] = P[Len(wire)]
  BY <1>1, <1>3
<1>6. ASSUME NEW i \in 1 .. Len(t)
      PROVE  Advances(Q[i - 1], Q[i], t[i])
  <2>1. i + 1 \in 1 .. Len(wire) /\ (i + 1) - 1 = i /\ i - 1 \in 0 .. Len(t) /\ (i - 1) + 1 = i
        /\ i \in 0 .. Len(t)
    BY <1>1
  <2>2. Advances(P[(i + 1) - 1], P[i + 1], wire[i + 1])
    BY <1>2, <2>1
  <2>3. Q[i - 1] = P[(i - 1) + 1] /\ Q[i] = P[i + 1]
    BY <2>1
  <2> HIDE DEF Q
  <2>4. Q[i - 1] = P[(i + 1) - 1]
    BY <2>1, <2>3
  <2>5. QED
    BY <1>1, <2>2, <2>3, <2>4
<1> HIDE DEF Q
<1>7. QED
  BY <1>2, <1>4, <1>5, <1>6 DEF Streamed, t

\* The stream goes on at its end: with a packet that is not a frame, or with the next frame.
LEMMA StreamAppend ==
  ASSUME NEW in, NEW left, NEW r, NEW p, NEW wire \in Seq(Packet), NEW packet \in Packet,
         Streamed(in, left, r, wire, p),
         NEW q, NEW to \in Progress, At(to, q.sdu, q.total, q.framesLeft),
         \A from \in Progress : At(from, p.sdu, p.total, p.framesLeft) =>
           \/ Advances(from, to, packet)
           \/ packet.type # "frame" /\ At(from, q.sdu, q.total, q.framesLeft)
  PROVE  Streamed(in, left, r, Append(wire, packet), q)
<1> DEFINE n == Len(wire) + 1
           w == Append(wire, packet)
<1>1. /\ Len(wire) \in Nat /\ Len(w) = n /\ w[n] = packet
      /\ \A i \in 1 .. Len(wire) : w[i] = wire[i]
  BY AppendElements
<1>2. PICK P \in [0 .. Len(wire) -> Progress] :
        /\ At(P[0], Len(r) + Len(in), LastTotal(in), left)
        /\ \A i \in 1 .. Len(wire) : Advances(P[i - 1], P[i], wire[i])
        /\ At(P[Len(wire)], p.sdu, p.total, p.framesLeft)
  BY DEF Streamed
<1>3. P[Len(wire)] \in Progress
  <2> HIDE DEF Progress
  <2>1. QED
    BY <1>1, <1>2
<1>4. PICK last \in Progress :
        At(last, q.sdu, q.total, q.framesLeft) /\ Advances(P[Len(wire)], last, packet)
  <2> HIDE DEF Progress
  <2>1. CASE Advances(P[Len(wire)], to, packet)
    BY <2>1
  <2>2. CASE packet.type # "frame" /\ At(P[Len(wire)], q.sdu, q.total, q.framesLeft)
    BY <1>3, <2>2 DEF Advances
  <2>3. QED
    BY <1>2, <1>3, <2>1, <2>2
<1> HIDE DEF w
<1> DEFINE Q == [i \in 0 .. n |-> IF i = n THEN last ELSE P[i]]
<1>5. Q \in [0 .. n -> Progress]
  <2>1. \A i \in 0 .. n : i # n => i \in 0 .. Len(wire)
    BY <1>1
  <2> HIDE DEF Progress, n
  <2>2. QED
    BY <1>2, <1>4, <2>1
<1>6. Q[n] = last /\ \A i \in 0 .. Len(wire) : Q[i] = P[i]
  BY <1>1
<1>7. 0 \in 0 .. Len(wire) /\ n \in Nat /\ n - 1 = Len(wire) /\ Len(wire) \in 0 .. Len(wire)
  BY <1>1
<1>8. ASSUME NEW i \in 1 .. n
      PROVE  Advances(Q[i - 1], Q[i], w[i])
  <2>1. CASE i = n
    <3>1. Q[i - 1] = P[Len(wire)]
      BY <1>6, <1>7, <2>1
    <3> HIDE DEF Q
    <3>2. QED
      BY <1>1, <1>4, <1>6, <2>1, <3>1
  <2>2. CASE i # n
    <3>1. i \in 1 .. Len(wire) /\ i \in 0 .. Len(wire) /\ i - 1 \in 0 .. Len(wire)
      BY <1>1, <2>2
    <3> HIDE DEF Q
    <3>2. QED
      BY <1>1, <1>2, <1>6, <3>1
  <2>3. QED
    BY <2>1, <2>2
<1> HIDE DEF Q, n
<1>9. Len(w) = n /\ Q[0] = P[0]
  BY <1>1, <1>6, <1>7
<1>10. /\ At(Q[0], Len(r) + Len(in), LastTotal(in), left)
       /\ At(Q[n], q.sdu, q.total, q.framesLeft)
  BY <1>2, <1>4, <1>6, <1>9
<1>11. Streamed(in, left, r, w, q)
  BY <1>5, <1>8, <1>9, <1>10 DEF Streamed
<1>12. QED
  BY <1>11 DEF w

Sdu == [sdu : Sdus, frames : 1 .. MaxFrames, total : 1 .. MaxFrames]

\* What a frame does to the buffered SDUs and to the frames still to come (AddFrame).
BufferWith(in, left, frame) ==
  IF left = 0 THEN Append(in, [sdu |-> frame.sdu, frames |-> 1, total |-> frame.total])
              ELSE [in EXCEPT ![Len(in)].frames = @ + 1]
LeftWith(left, frame) == (IF left = 0 THEN frame.total ELSE left) - 1

\* The fields of a frame.
LEMMA FrameFields ==
  \A f \in Frame :
    /\ f.sdu \in Sdus /\ f.index \in 1 .. MaxFrames /\ f.total \in 1 .. MaxFrames
    /\ f.sdu \in Nat \ {0} /\ f.index \in Nat \ {0} /\ f.total \in Nat \ {0}
BY CocAssumption DEF Frame, Sdus

LEMMA SduFields ==
  /\ \A x \in Sdu :
       /\ x.sdu \in Sdus /\ x.frames \in 1 .. MaxFrames /\ x.total \in 1 .. MaxFrames
       /\ x.sdu \in Nat /\ x.frames \in Nat /\ x.total \in Nat
  /\ \A s \in Sdus, n, m \in 1 .. MaxFrames :
       [sdu |-> s, frames |-> n, total |-> m] \in Sdu
BY CocAssumption DEF Sdu, Sdus

\* The first frame of the next SDU.
LEMMA BufferFirst ==
  ASSUME NEW in \in Seq(Sdu), NEW r \in Seq(Sdu), BufferedOf(in, 0, r),
         NEW frame \in Frame, frame.sdu = Len(r) + Len(in) + 1
  PROVE  /\ BufferWith(in, 0, frame) \in Seq(Sdu)
         /\ BufferedOf(BufferWith(in, 0, frame), frame.total - 1, r)
         /\ Len(BufferWith(in, 0, frame)) = Len(in) + 1
         /\ LastTotal(BufferWith(in, 0, frame)) = frame.total
<1> DEFINE e == [sdu |-> frame.sdu, frames |-> 1, total |-> frame.total]
           b == Append(in, e)
<1>1. e \in Sdu /\ e.sdu = frame.sdu /\ e.frames = 1 /\ e.total = frame.total
  <2>1. 1 \in 1 .. MaxFrames
    BY CocAssumption
  <2>2. QED
    BY <2>1, FrameFields, SduFields
<1> HIDE DEF e
<1>2. /\ b \in Seq(Sdu) /\ Len(in) \in Nat /\ Len(b) = Len(in) + 1 /\ b[Len(in) + 1] = e
      /\ \A i \in 1 .. Len(in) : b[i] = in[i]
  BY <1>1, AppendElements
<1>3. BufferWith(in, 0, frame) = b
  BY DEF BufferWith, e
<1> HIDE DEF b
<1>4. frame.total \in Nat \ {0} /\ Len(r) \in Nat
  BY FrameFields, LenProperties
<1>5. Len(b) # 0 /\ b[Len(b)] = e /\ LastTotal(b) = frame.total
  BY <1>1, <1>2 DEF LastTotal
<1>6. ASSUME NEW i \in 1 .. Len(b)
      PROVE  b[i].sdu = Len(r) + i /\ (i < Len(b) \/ frame.total - 1 = 0 => b[i].frames = b[i].total)
  <2>1. CASE i = Len(in) + 1
    <3>1. b[i] = e /\ ~(i < Len(b))
      BY <1>2, <2>1
    <3>2. b[i].sdu = Len(r) + i
      BY <1>1, <1>2, <1>4, <2>1, <3>1
    <3>3. frame.total - 1 = 0 => b[i].frames = b[i].total
      BY <1>1, <1>4, <3>1
    <3>4. QED
      BY <3>1, <3>2, <3>3
  <2>2. CASE i # Len(in) + 1
    <3>1. i \in 1 .. Len(in)
      BY <1>2, <2>2
    <3>2. QED
      BY <1>2, <3>1 DEF BufferedOf
  <2>3. QED
    BY <2>1, <2>2
<1>7. Expects(b, frame.total - 1)
  BY <1>1, <1>4, <1>5 DEF Expects
<1>8. QED
  BY <1>2, <1>3, <1>5, <1>6, <1>7 DEF BufferedOf

\* A later frame of the last SDU.
LEMMA BufferMore ==
  ASSUME NEW in \in Seq(Sdu), NEW r \in Seq(Sdu), NEW left \in Nat, left # 0, BufferedOf(in, left, r),
         NEW frame
  PROVE  /\ BufferWith(in, left, frame) \in Seq(Sdu)
         /\ BufferedOf(BufferWith(in, left, frame), left - 1, r)
         /\ Len(BufferWith(in, left, frame)) = Len(in)
         /\ LastTotal(BufferWith(in, left, frame)) = LastTotal(in)
<1> DEFINE n == Len(in)
           e == [in[n] EXCEPT !.frames = @ + 1]
           b == [in EXCEPT ![n] = e]
<1>1. n \in Nat \ {0} /\ in[n].frames + left = in[n].total /\ n \in 1 .. Len(in)
  BY LenProperties DEF BufferedOf, Expects
<1>2. in[n] \in Sdu /\ in[n].frames \in Nat /\ in[n].total \in 1 .. MaxFrames
      /\ in[n].sdu \in Sdus /\ in[n].frames \in 1 .. MaxFrames
  BY <1>1, SduFields, ElementOfSeq
<1>3. in[n].frames + 1 \in 1 .. MaxFrames
  BY <1>1, <1>2, CocAssumption
<1>4. /\ e \in Sdu /\ e.sdu = in[n].sdu /\ e.frames = in[n].frames + 1 /\ e.total = in[n].total
  <2> HIDE DEF n
  <2>1. [in[n] EXCEPT !.frames = in[n].frames + 1] \in Sdu
    BY <1>2, <1>3 DEF Sdu
  <2>2. QED
    BY <1>2, <2>1 DEF Sdu
<1>5. BufferWith(in, left, frame) = b
  BY DEF BufferWith
<1> HIDE DEF e
<1>6. b \in Seq(Sdu) /\ Len(b) = n /\ \A i \in 1 .. n : b[i] = IF i = n THEN e ELSE in[i]
  BY <1>1, <1>4, ExceptSeq, LenProperties
<1> HIDE DEF b
<1>7. b[n] = e /\ LastTotal(b) = LastTotal(in)
  BY <1>1, <1>4, <1>6 DEF LastTotal
<1>8. Len(r) \in Nat
  BY LenProperties
<1>9. \A i \in 1 .. n : in[i].sdu = Len(r) + i /\ (i < n => in[i].frames = in[i].total)
  BY DEF BufferedOf
<1>10. ASSUME NEW i \in 1 .. n
       PROVE  b[i].sdu = Len(r) + i /\ (i < n \/ left - 1 = 0 => b[i].frames = b[i].total)
  <2>1. CASE i = n
    <3>1. b[i] = e
      BY <1>7, <2>1
    <3>2. left - 1 = 0 => e.frames = e.total
      BY <1>1, <1>2, <1>4
    <3> HIDE DEF n
    <3>3. e.sdu = Len(r) + i /\ ~(i < n)
      BY <1>1, <1>4, <1>9, <2>1
    <3>4. QED
      BY <3>1, <3>2, <3>3
  <2>2. CASE i # n
    <3> HIDE DEF n
    <3>1. b[i] = in[i] /\ i < n
      BY <1>1, <1>6, <2>2
    <3>2. QED
      BY <1>9, <3>1
  <2>3. QED
    BY <2>1, <2>2
<1>11. Expects(b, left - 1)
  <2>1. e.frames + (left - 1) = e.total
    BY <1>1, <1>2, <1>4
  <2> HIDE DEF n
  <2>2. QED
    BY <1>1, <1>6, <1>7, <2>1 DEF Expects
<1>12. \A i \in DOMAIN r : r[i].sdu = i /\ r[i].frames = r[i].total
  BY DEF BufferedOf
<1>13. BufferedOf(b, left - 1, r)
  BY <1>6, <1>10, <1>11, <1>12 DEF BufferedOf
<1>14. QED
  BY <1>5, <1>6, <1>7, <1>13

\* The next frame arrives.
LEMMA StreamReceive ==
  ASSUME NEW in \in Seq(Sdu), NEW r \in Seq(Sdu), NEW left \in 0 .. MaxFrames,
         BufferedOf(in, left, r), NEW p, NEW wire \in Seq(Packet), wire # <<>>,
         Streamed(in, left, r, wire, p), Head(wire).type = "frame"
  PROVE  /\ BufferWith(in, left, Head(wire).frame) \in Seq(Sdu)
         /\ LeftWith(left, Head(wire).frame) \in 0 .. MaxFrames
         /\ BufferedOf(BufferWith(in, left, Head(wire).frame), LeftWith(left, Head(wire).frame), r)
         /\ Streamed(BufferWith(in, left, Head(wire).frame), LeftWith(left, Head(wire).frame), r,
                     Tail(wire), p)
<1> DEFINE t == Tail(wire)
           frame == Head(wire).frame
           b == BufferWith(in, left, frame)
           m == LeftWith(left, frame)
<1>1. /\ Len(wire) \in Nat \ {0} /\ Len(t) = Len(wire) - 1 /\ Head(wire) = wire[1]
      /\ \A i \in 1 .. Len(t) : t[i] = wire[i + 1] /\ Head(wire) \in Packet
  BY TailElements
<1>2. PICK P \in [0 .. Len(wire) -> Progress] :
        /\ At(P[0], Len(r) + Len(in), LastTotal(in), left)
        /\ \A i \in 1 .. Len(wire) : Advances(P[i - 1], P[i], wire[i])
        /\ At(P[Len(wire)], p.sdu, p.total, p.framesLeft)
  BY DEF Streamed
<1>3. frame \in Frame
  BY TailElements, PacketKinds
<1>4. /\ P[1].sdu = frame.sdu /\ P[1].total = frame.total /\ P[1].left = frame.total - frame.index
      /\ Continues(P[0], frame)
  <2>1. 1 \in 1 .. Len(wire) /\ 1 - 1 = 0
    BY <1>1
  <2>2. Advances(P[1 - 1], P[1], wire[1])
    BY <1>2, <2>1
  <2>3. QED
    BY <1>1, <2>1, <2>2 DEF Advances
<1> DEFINE Q == [i \in 0 .. Len(t) |-> P[i + 1]]
<1> HIDE DEF t, frame
<1>5. /\ left = 0 => frame.sdu = Len(r) + Len(in) + 1 /\ frame.index = 1
      /\ left # 0 => frame.sdu = Len(r) + Len(in) /\ frame.total = LastTotal(in)
                     /\ frame.index = LastTotal(in) - left + 1
  BY <1>2, <1>4 DEF At, Continues
<1>6. frame.total \in 1 .. MaxFrames /\ frame.total \in Nat /\ left \in Nat /\ MaxFrames \in Nat
      /\ frame.index \in Nat
  BY <1>3, FrameFields, CocAssumption
<1>7. /\ b \in Seq(Sdu) /\ BufferedOf(b, m, r) /\ m \in 0 .. MaxFrames
      /\ At(P[1], Len(r) + Len(b), LastTotal(b), m)
  <2>1. CASE left = 0
    <3>1. frame.sdu = Len(r) + Len(in) + 1 /\ frame.index = 1
      BY <1>5, <2>1
    <3>2. m = frame.total - 1 /\ m \in 0 .. MaxFrames
      BY <1>6, <2>1 DEF LeftWith
    <3>3. BufferedOf(in, 0, r)
      BY <2>1
    <3>4. /\ BufferWith(in, 0, frame) \in Seq(Sdu)
          /\ BufferedOf(BufferWith(in, 0, frame), frame.total - 1, r)
          /\ Len(BufferWith(in, 0, frame)) = Len(in) + 1
          /\ LastTotal(BufferWith(in, 0, frame)) = frame.total
      BY <1>3, <3>1, <3>3, BufferFirst
    <3>5. b = BufferWith(in, 0, frame)
      BY <2>1
    <3> HIDE DEF b, m
    <3>6. frame.sdu = Len(r) + (Len(in) + 1)
      BY <3>1, LenProperties
    <3>7. At(P[1], Len(r) + Len(b), LastTotal(b), m)
      BY <1>4, <3>1, <3>2, <3>4, <3>5, <3>6 DEF At
    <3>8. QED
      BY <3>2, <3>4, <3>5, <3>7
  <2>2. CASE left # 0
    <3>1. m = left - 1 /\ m \in 0 .. MaxFrames
      BY <1>6, <2>2 DEF LeftWith
    <3>2. /\ b \in Seq(Sdu) /\ BufferedOf(b, left - 1, r)
          /\ Len(b) = Len(in) /\ LastTotal(b) = LastTotal(in)
      BY <1>6, <2>2, BufferMore
    <3> HIDE DEF b, m
    <3>3. P[1].left = left - 1
      <4> DEFINE total == LastTotal(in)
      <4>1. frame.total = total /\ frame.index = total - left + 1
        BY <1>5, <2>2
      <4> HIDE DEF total
      <4>2. total \in Nat
        BY <1>6, <4>1
      <4>3. total - (total - left + 1) = left - 1
        BY <1>6, <4>2
      <4>4. QED
        BY <1>4, <4>1, <4>3
    <3>4. At(P[1], Len(r) + Len(b), LastTotal(b), m)
      BY <1>4, <1>5, <2>2, <3>1, <3>2, <3>3 DEF At
    <3>5. QED
      BY <3>1, <3>2, <3>4
  <2>3. QED
    BY <2>1, <2>2
<1> HIDE DEF b, m
<1>8. Q \in [0 .. Len(t) -> Progress]
  <2>1. \A i \in 0 .. Len(t) : i + 1 \in 0 .. Len(wire)
    BY <1>1
  <2> HIDE DEF Progress
  <2>2. QED
    BY <1>2, <2>1
<1>9. Q[0] = P[1] /\ Q[Len(t)] = P[Len(wire)]
  BY <1>1
<1>10. ASSUME NEW i \in 1 .. Len(t)
       PROVE  Advances(Q[i - 1], Q[i], t[i])
  <2>1. i + 1 \in 1 .. Len(wire) /\ (i + 1) - 1 = i /\ i - 1 \in 0 .. Len(t) /\ (i - 1) + 1 = i
        /\ i \in 0 .. Len(t)
    BY <1>1
  <2>2. Advances(P[(i + 1) - 1], P[i + 1], wire[i + 1])
    BY <1>2, <2>1
  <2>3. Q[i - 1] = P[(i - 1) + 1] /\ Q[i] = P[i + 1]
    BY <2>1
  <2> HIDE DEF Q
  <2>4. Q[i - 1] = P[(i + 1) - 1]
    BY <2>1, <2>3
  <2>5. QED
    BY <1>1, <2>2, <2>3, <2>4
<1> HIDE DEF Q
<1>11. Streamed(b, m, r, t, p)
  <2>1. /\ At(Q[0], Len(r) + Len(b), LastTotal(b), m)
        /\ At(Q[Len(t)], p.sdu, p.total, p.framesLeft)
    BY <1>2, <1>7, <1>9
  <2>2. QED
    BY <1>8, <1>10, <2>1 DEF Streamed
<1>12. QED
  BY <1>7, <1>11 DEF b, m, t, frame

-----------------------------------------------------------------------------
(* Sending. *)

LEMMA ChannelFields ==
  \A o \in Channel :
    /\ o.txCredits \in Nat /\ o.rxCredits \in 0 .. LowWater + RxGrant
    /\ o.incomingPackets \in Seq(Sdu) /\ o.sduFramesLeft \in 0 .. MaxFrames
    /\ o.isPaused \in BOOLEAN /\ o.isInDataCallback \in BOOLEAN
    /\ o.outgoingPackets \in Seq(Frame) /\ o.pending \in Frame \cup {NoFrame}
    /\ o.hasPendingOutgoingPacket \in BOOLEAN /\ o.isActive \in BOOLEAN
    /\ o.isWaitingForDisconnectResponse \in BOOLEAN
<1> HIDE DEF Frame, NoFrame
<1>1. QED
  BY DEF Channel, Sdu

\* The parts of a channel object that do not take part in sending.
NotSending(o, q) ==
  /\ q.rxCredits = o.rxCredits /\ q.incomingPackets = o.incomingPackets
  /\ q.sduFramesLeft = o.sduFramesLeft /\ q.isPaused = o.isPaused /\ q.isActive = o.isActive
  /\ q.isWaitingForDisconnectResponse = o.isWaitingForDisconnectResponse

\* The next frame goes to the adapter.
Triggered(o, q) ==
  /\ ~o.hasPendingOutgoingPacket /\ o.outgoingPackets # <<>> /\ o.isActive /\ ~disconnected
  /\ o.txCredits > 0 /\ q.txCredits = o.txCredits - 1
  /\ q.hasPendingOutgoingPacket
  /\ q.pending = Head(o.outgoingPackets) /\ q.outgoingPackets = Tail(o.outgoingPackets)
  /\ toPeer' = Append(toPeer, FramePacket(Head(o.outgoingPackets)))

LEMMA TriggerEffects ==
  ASSUME NEW o \in Channel, toPeer \in Seq(Packet), TriggerCocSend(o)
  PROVE  /\ obj' \in Channel /\ toPeer' \in Seq(Packet) /\ NotSending(o, obj')
         /\ (obj' = o /\ toPeer' = toPeer) \/ Triggered(o, obj')
<1>1. CASE ~CanSend(o)
  BY <1>1 DEF TriggerCocSend, NotSending
<1>2. CASE CanSend(o)
  <2>1. /\ obj' = [o EXCEPT !.txCredits = @ - 1, !.hasPendingOutgoingPacket = TRUE,
                            !.pending = Head(o.outgoingPackets), !.outgoingPackets = Tail(@)]
        /\ toPeer' = SendPacket(FramePacket(Head(o.outgoingPackets)))
    BY <1>2 DEF TriggerCocSend
  <2>2. /\ ~o.hasPendingOutgoingPacket /\ o.outgoingPackets # <<>> /\ o.txCredits > 0
        /\ ~disconnected /\ o.isActive
    BY <1>2 DEF CanSend
  <2>3. Head(o.outgoingPackets) \in Frame /\ Tail(o.outgoingPackets) \in Seq(Frame)
    <3> HIDE DEF Frame
    <3>1. QED
      BY <2>2, ChannelFields, TailElements
  <2>4. o.txCredits - 1 \in Nat
    BY <2>2, ChannelFields
  <2>5. obj' \in Channel
    <3> DEFINE h == Head(o.outgoingPackets)
               t == Tail(o.outgoingPackets)
    <3>1. h \in Frame /\ t \in Seq(Frame)
      BY <2>3
    <3>2. obj' = [o EXCEPT !.txCredits = o.txCredits - 1, !.hasPendingOutgoingPacket = TRUE,
                           !.pending = h, !.outgoingPackets = t]
      BY <2>1 DEF Channel
    <3> HIDE DEF Frame, NoFrame, h, t
    <3>3. QED
      BY <2>4, <3>1, <3>2 DEF Channel
  <2>6. Triggered(o, obj') /\ NotSending(o, obj')
    <3> HIDE DEF Frame, NoFrame
    <3>1. toPeer' = Append(toPeer, FramePacket(Head(o.outgoingPackets)))
      BY <2>1, <2>2 DEF SendPacket
    <3>2. /\ obj'.txCredits = o.txCredits - 1 /\ obj'.hasPendingOutgoingPacket
          /\ obj'.pending = Head(o.outgoingPackets) /\ obj'.outgoingPackets = Tail(o.outgoingPackets)
          /\ NotSending(o, obj')
      BY <2>1 DEF Channel, NotSending
    <3>3. QED
      BY <2>2, <3>1, <3>2 DEF Triggered
  <2>7. toPeer' \in Seq(Packet)
    <3> HIDE DEF Frame, Packet
    <3>1. FramePacket(Head(o.outgoingPackets)) \in Packet
      BY <2>3, PacketKinds
    <3>2. QED
      BY <2>6, <3>1, AppendElements DEF Triggered
  <2>8. QED
    BY <2>5, <2>6, <2>7
<1>3. QED
  BY <1>1, <1>2

\* It is the next frame of the SDUs handed in.
LEMMA SendingTriggered ==
  ASSUME NEW o \in Channel, NEW q, NEW s, NEW k, SendingOf(o, s, k), Triggered(o, q)
  PROVE  SendingOf(q, s, k)
<1> DEFINE out == o.outgoingPackets
           t == Tail(out)
<1> HIDE DEF Frame
<1>1. /\ ~o.hasPendingOutgoingPacket /\ out # <<>> /\ q.hasPendingOutgoingPacket
      /\ q.pending = Head(out) /\ q.outgoingPackets = t /\ out \in Seq(Frame)
  BY ChannelFields DEF Triggered
<1>2. /\ Len(out) \in Nat \ {0} /\ Len(t) = Len(out) - 1 /\ t \in Seq(Frame)
      /\ Head(out) = out[1] /\ Head(out) \in Frame
      /\ \A i \in 1 .. Len(t) : t[i] = out[i + 1]
  BY <1>1, TailElements
<1>3. /\ out[1].sdu = Len(s) + 1
      /\ \A i \in 1 .. Len(out) - 1 : Follows(out[i], out[i + 1])
      /\ IsLast(out[Len(out)]) /\ out[Len(out)].sdu = k
      /\ \A i \in DOMAIN s : s[i] = i
  BY <1>1 DEF SendingOf
<1> HIDE DEF out, t
<1>4. CASE t = <<>>
  <2>1. Len(t) = 0 /\ Len(out) = 1
    BY <1>2, <1>4
  <2>2. IsLast(q.pending) /\ q.pending.sdu = k /\ q.pending.sdu = Len(s) + 1 /\ q.pending \in Frame
    BY <1>1, <1>2, <1>3, <2>1
  <2>3. \A i \in 1 .. Len(q.outgoingPackets) - 1 : FALSE
    BY <1>1, <2>1
  <2>4. QED
    BY <1>1, <1>3, <1>4, <2>2, <2>3 DEF SendingOf
<1>5. CASE t # <<>>
  <2>1. Len(t) \in Nat \ {0} /\ Len(out) = Len(t) + 1
    BY <1>2, <1>5, EmptySeq
  <2>2. t[1] = out[2] /\ t[Len(t)] = out[Len(out)] /\ 1 \in 1 .. Len(out) - 1
    <3>1. 1 \in 1 .. Len(t) /\ Len(t) \in 1 .. Len(t)
      BY <2>1
    <3>2. t[1] = out[1 + 1] /\ t[Len(t)] = out[Len(t) + 1]
      BY <1>2, <3>1
    <3>3. 1 + 1 = 2 /\ 1 \in 1 .. Len(out) - 1
      BY <2>1
    <3>4. QED
      BY <2>1, <3>2, <3>3
  <2>3. Follows(q.pending, t[1])
    <3>1. Follows(out[1], out[1 + 1])
      BY <1>3, <2>2
    <3>2. QED
      BY <1>1, <1>2, <2>2, <3>1
  <2>4. ASSUME NEW i \in 1 .. Len(t) - 1
        PROVE  Follows(t[i], t[i + 1])
    <3>1. i \in 1 .. Len(t) /\ i + 1 \in 1 .. Len(t) /\ i + 1 \in 1 .. Len(out) - 1
      BY <2>1
    <3>2. Follows(out[i + 1], out[(i + 1) + 1])
      BY <1>3, <3>1
    <3>3. QED
      BY <1>2, <3>1, <3>2
  <2>5. q.pending.sdu = Len(s) + 1 /\ q.pending \in Frame
    BY <1>1, <1>2, <1>3
  <2>6. QED
    BY <1>1, <1>3, <1>5, <2>2, <2>3, <2>4, <2>5 DEF SendingOf
<1>6. QED
  BY <1>4, <1>5

\* The frame with the adapter is written: o without it, and its SDU acknowledged if complete.
LEMMA SendingWritten ==
  ASSUME NEW o \in Channel, NEW q, NEW s \in Seq(Sdus), NEW k \in Nat, SendingOf(o, s, k),
         o.hasPendingOutgoingPacket, ~q.hasPendingOutgoingPacket,
         q.outgoingPackets = o.outgoingPackets
  PROVE  /\ o.pending \in Frame /\ o.pending.sdu = Len(s) + 1
         /\ IsLast(o.pending) =>
              Append(s, o.pending.sdu) \in Seq(Sdus) /\ SendingOf(q, Append(s, o.pending.sdu), k)
         /\ ~IsLast(o.pending) => SendingOf(q, s, k)
<1> DEFINE out == o.outgoingPackets
           f == o.pending
           a == Append(s, f.sdu)
<1> HIDE DEF Frame, Sdus
<1>1. /\ f \in Frame /\ f.sdu = Len(s) + 1
      /\ out # <<>> => Follows(f, out[1])
      /\ out = <<>> => IsLast(f) /\ f.sdu = k
      /\ \A i \in 1 .. Len(out) - 1 : Follows(out[i], out[i + 1])
      /\ out # <<>> => IsLast(out[Len(out)]) /\ out[Len(out)].sdu = k
      /\ \A i \in DOMAIN s : s[i] = i
  BY DEF SendingOf
<1>2. f.sdu \in Sdus
  BY <1>1, FrameFields
<1>3. /\ a \in Seq(Sdus) /\ Len(s) \in Nat /\ Len(a) = Len(s) + 1
      /\ a[Len(s) + 1] = f.sdu /\ \A i \in 1 .. Len(s) : a[i] = s[i]
  BY <1>2, AppendElements
<1> HIDE DEF a
<1>4. \A i \in DOMAIN a : a[i] = i
  <2>1. DOMAIN a = 1 .. Len(s) + 1 /\ DOMAIN s = 1 .. Len(s)
    BY <1>3, LenProperties
  <2>2. \A i \in 1 .. Len(s) + 1 : i = Len(s) + 1 \/ i \in 1 .. Len(s)
    BY <1>3
  <2>3. QED
    BY <1>1, <1>3, <2>1, <2>2
<1> HIDE DEF f, out
<1>5. q.outgoingPackets = out
  BY DEF out
<1>6. ASSUME IsLast(f)
      PROVE  SendingOf(q, a, k)
  <2>1. out # <<>> => out[1].sdu = Len(a) + 1
    BY <1>1, <1>3, <1>6 DEF Follows
  <2>2. out = <<>> => Len(a) = k
    BY <1>1, <1>3
  <2>3. QED
    BY <1>1, <1>4, <1>5, <2>1, <2>2 DEF SendingOf
<1>7. ASSUME ~IsLast(f)
      PROVE  SendingOf(q, s, k)
  <2>1. out # <<>> /\ out[1].sdu = Len(s) + 1
    BY <1>1, <1>7 DEF Follows
  <2>2. QED
    BY <1>1, <1>5, <2>1 DEF SendingOf
<1>8. QED
  BY <1>1, <1>3, <1>6, <1>7 DEF f, a

\* An SDU is handed in: its frames follow the others.
LEMMA SendingMore ==
  ASSUME NEW o \in Channel, NEW q, NEW s \in Seq(Sdus), NEW k \in Nat, k < MaxSdus,
         SendingOf(o, s, k), NEW n \in 1 .. MaxFrames,
         q.outgoingPackets = o.outgoingPackets \o Frames(k + 1, n),
         q.pending = o.pending, q.hasPendingOutgoingPacket = o.hasPendingOutgoingPacket
  PROVE  q.outgoingPackets \in Seq(Frame) /\ SendingOf(q, s, k + 1)
<1> DEFINE out == o.outgoingPackets
           new == Frames(k + 1, n)
           both == out \o new
<1>1. n \in Nat \ {0} /\ k + 1 \in Sdus /\ k + 1 \in Nat /\ n \in 1 .. MaxFrames
  BY CocAssumption DEF Sdus
<1>2. /\ \A i \in 1 .. n :
           new[i] \in Frame /\ new[i].sdu = k + 1 /\ new[i].index = i /\ new[i].total = n
      /\ new = [i \in 1 .. n |-> new[i]]
  <2>1. \A i \in 1 .. n : i \in 1 .. MaxFrames
    BY <1>1, CocAssumption
  <2>2. QED
    BY <1>1, <2>1 DEF Frames, Frame
<1>3. new \in Seq(Frame) /\ Len(new) = n
  <2> HIDE DEF new, Frame
  <2>1. new \in [1 .. n -> Frame]
    BY <1>2
  <2>2. new \in Seq(Frame)
    BY <1>1, <2>1, IsASeq
  <2>3. DOMAIN new = 1 .. n /\ DOMAIN new = 1 .. Len(new) /\ Len(new) \in Nat
    BY <2>1, <2>2, LenProperties
  <2>4. QED
    BY <1>1, <2>2, <2>3
<1>4. out \in Seq(Frame) /\ Len(out) \in Nat
  BY ChannelFields, LenProperties
<1> HIDE DEF new, out, Frame
<1>5. /\ both \in Seq(Frame) /\ Len(both) = Len(out) + n
      /\ \A i \in 1 .. Len(out) + n : both[i] = IF i <= Len(out) THEN out[i] ELSE new[i - Len(out)]
  BY <1>3, <1>4, ConcatProperties
<1> HIDE DEF both
<1>6. /\ \A i \in 1 .. Len(out) : both[i] = out[i]
      /\ \A i \in 1 .. n : both[Len(out) + i] = new[i]
  <2>1. \A i \in 1 .. Len(out) : i \in 1 .. Len(out) + n /\ i <= Len(out)
    BY <1>1, <1>4
  <2>2. \A i \in 1 .. n : Len(out) + i \in 1 .. Len(out) + n /\ ~(Len(out) + i <= Len(out))
                       /\ (Len(out) + i) - Len(out) = i
    BY <1>1, <1>4
  <2>3. QED
    BY <1>5, <2>1, <2>2
<1>7. both # <<>> /\ 1 \in 1 .. Len(both) /\ Len(both) \in Nat
  BY <1>1, <1>4, <1>5, EmptySeq
<1>8. IsLast(both[Len(both)]) /\ both[Len(both)].sdu = k + 1
  <2>1. n \in 1 .. n
    BY <1>1
  <2>2. both[Len(both)] = new[n]
    BY <1>5, <1>6, <2>1
  <2>3. QED
    BY <1>2, <2>1, <2>2 DEF IsLast
<1>9. out = <<>> => both[1] = new[1] /\ both[1].sdu = k + 1
  <2>1. 1 \in 1 .. n
    BY <1>1
  <2>2. ASSUME out = <<>>
        PROVE  both[1] = new[1]
    <3>1. Len(out) = 0
      BY <1>4, <2>2, EmptySeq
    <3>2. both[Len(out) + 1] = new[1]
      BY <1>6, <2>1
    <3>3. Len(out) + 1 = 1
      BY <3>1
    <3>4. QED
      BY <3>2, <3>3
  <2>3. QED
    BY <1>2, <2>1, <2>2
<1>10. out # <<>> => Len(out) \in Nat \ {0} /\ both[1] = out[1]
  <2>1. out # <<>> => Len(out) \in Nat \ {0}
    BY <1>4, EmptySeq
  <2>2. Len(out) \in Nat \ {0} => 1 \in 1 .. Len(out)
    BY <1>4
  <2>3. QED
    BY <1>6, <2>1, <2>2
<1>11. /\ \A i \in 1 .. Len(out) - 1 : Follows(out[i], out[i + 1])
       /\ out # <<>> => IsLast(out[Len(out)]) /\ out[Len(out)].sdu = k
       /\ \A i \in DOMAIN s : s[i] = i
  BY DEF SendingOf, out
<1>12. ASSUME NEW i \in 1 .. Len(both) - 1
       PROVE  Follows(both[i], both[i + 1])
  <2>0. i \in Nat \ {0} /\ i <= Len(out) + n - 1
    BY <1>1, <1>4, <1>5
  <2>1. CASE i < Len(out)
    <3>1. i \in 1 .. Len(out) - 1 /\ i \in 1 .. Len(out) /\ i + 1 \in 1 .. Len(out)
      BY <1>4, <2>0, <2>1
    <3>2. QED
      BY <1>6, <1>11, <3>1
  <2>2. CASE i = Len(out)
    <3>1. i \in 1 .. Len(out) /\ 1 \in 1 .. n /\ out # <<>>
      BY <1>1, <1>4, <2>0, <2>2, EmptySeq
    <3>2. both[i] = out[Len(out)] /\ both[i + 1] = new[1]
      BY <1>6, <2>2, <3>1
    <3>3. IsLast(both[i]) /\ both[i].sdu = k /\ both[i + 1].sdu = k + 1
      BY <1>2, <1>11, <3>1, <3>2
    <3>4. QED
      BY <3>3 DEF Follows
  <2>3. CASE i > Len(out)
    <3> DEFINE j == i - Len(out)
    <3>1. j \in 1 .. n /\ j + 1 \in 1 .. n /\ Len(out) + j = i /\ Len(out) + (j + 1) = i + 1
          /\ j # n
      BY <1>1, <1>4, <2>0, <2>3
    <3> HIDE DEF j
    <3>2. both[i] = new[j] /\ both[i + 1] = new[j + 1]
      BY <1>6, <3>1
    <3>3. ~IsLast(both[i]) /\ both[i].sdu = k + 1 /\ both[i + 1].sdu = k + 1
      BY <1>2, <3>1, <3>2 DEF IsLast
    <3>4. QED
      BY <3>3 DEF Follows
  <2>4. QED
    BY <1>4, <2>0, <2>1, <2>2, <2>3
<1>13. /\ o.hasPendingOutgoingPacket =>
            /\ o.pending \in Frame
            /\ o.pending.sdu = Len(s) + 1
            /\ out # <<>> => Follows(o.pending, out[1])
            /\ out = <<>> => IsLast(o.pending) /\ o.pending.sdu = k
       /\ ~o.hasPendingOutgoingPacket =>
            /\ out # <<>> => out[1].sdu = Len(s) + 1
            /\ out = <<>> => Len(s) = k
  BY DEF SendingOf, out
<1>14. q.outgoingPackets = both /\ q.pending = o.pending
       /\ q.hasPendingOutgoingPacket = o.hasPendingOutgoingPacket
  BY DEF both, out, new
<1>15. q.hasPendingOutgoingPacket => Follows(q.pending, both[1])
  BY <1>9, <1>10, <1>13, <1>14 DEF Follows
<1>16. ~q.hasPendingOutgoingPacket => both[1].sdu = Len(s) + 1
  BY <1>9, <1>10, <1>13, <1>14
<1>17. SendingOf(q, s, k + 1)
  BY <1>7, <1>8, <1>11, <1>12, <1>13, <1>14, <1>15, <1>16 DEF SendingOf
<1>18. QED
  BY <1>5, <1>14, <1>17

-----------------------------------------------------------------------------
(* What a step has to leave alone to keep a part of the invariant. *)

LEMMA KeepSending ==
  ASSUME Sending, sent' = sent, submitted' = submitted, obj'.pending = obj.pending,
         obj'.outgoingPackets = obj.outgoingPackets,
         obj'.hasPendingOutgoingPacket = obj.hasPendingOutgoingPacket
  PROVE  Sending'
BY DEF Sending, SendingOf

LEMMA KeepBuffered ==
  ASSUME Buffered, received' = received, obj'.incomingPackets = obj.incomingPackets,
         obj'.sduFramesLeft = obj.sduFramesLeft
  PROVE  Buffered'
BY DEF Buffered

LEMMA KeepRegistered ==
  ASSUME Registered, inCocMap' = inCocMap, inTxCidToRxCid' = inTxCidToRxCid, numCoc' = numCoc,
         obj'.isActive = obj.isActive,
         obj'.isWaitingForDisconnectResponse = obj.isWaitingForDisconnectResponse
  PROVE  Registered'
BY DEF Registered, ReleasedOnce

\* The stream is where it was, or nothing can be received any more.
SameReceived ==
  /\ received' = received /\ obj'.incomingPackets = obj.incomingPackets
  /\ obj'.sduFramesLeft = obj.sduFramesLeft

LEMMA KeepStreaming ==
  ASSUME Streaming, SameReceived, toLocal' = toLocal, peer'.sdu = peer.sdu,
         peer'.total = peer.total, peer'.framesLeft = peer.framesLeft, crashed' = crashed,
         disconnected' = disconnected, disconnected => toPeer' = toPeer, Carries' => Carries
  PROVE  Streaming'
BY DEF Streaming, SameReceived, Streamed

LEMMA KeepCovered ==
  ASSUME Covered, peer'.rxCredits = peer.rxCredits, FramesIn(toPeer)' = FramesIn(toPeer),
         Carries' => Carries /\ CreditsIn(toLocal)' = CreditsIn(toLocal) /\ obj'.txCredits = obj.txCredits
  PROVE  Covered'
BY DEF Covered

LEMMA KeepFed ==
  ASSUME Fed, Carries' => Carries, peer'.violations = peer.violations,
         Carries' => /\ obj'.rxCredits = obj.rxCredits /\ peer'.txCredits = peer.txCredits
                     /\ FramesIn(toLocal)' = FramesIn(toLocal) /\ CreditsIn(toPeer)' = CreditsIn(toPeer)
                     /\ NoLoop' /\ ~obj'.isPaused => NoLoop /\ ~obj.isPaused,
         peer'.sdu = peer.sdu
  PROVE  Fed'
BY DEF Fed

-----------------------------------------------------------------------------
(* The host sends. *)

Activations == {"loop", "data", "sent", "credits"}

LEMMA HostTypes ==
  TypeOK =>
    /\ obj \in Channel /\ numCoc \in {0, 1} /\ callStack \in Seq(Activations)
    /\ inCocMap \in BOOLEAN /\ inTxCidToRxCid \in BOOLEAN /\ requestPending \in BOOLEAN
    /\ disconnected \in BOOLEAN /\ crashed \in BOOLEAN
    /\ toPeer \in Seq(Packet) /\ toLocal \in Seq(Packet) /\ peer \in Peer
    /\ submitted \in Nat /\ sent \in Seq(Sdus) /\ received \in Seq(Sdu)
<1> HIDE DEF Channel, Packet, Peer
<1>1. QED
  BY CocAssumption DEF TypeOK, Activations, Sdu

LEMMA PeerFields ==
  \A p \in Peer :
    /\ p.txCredits \in Nat /\ p.rxCredits \in Nat /\ p.sdu \in 0 .. MaxSdus
    /\ p.total \in 0 .. MaxFrames /\ p.framesLeft \in 0 .. MaxFrames /\ p.grants \in 0 .. MaxGrants
    /\ p.violations \in 0 .. MaxViolations /\ p.state \in {"none", "open", "closing", "closed"}
    /\ p.sdu \in Nat /\ p.total \in Nat /\ p.framesLeft \in Nat /\ p.violations \in Nat
BY CocAssumption DEF Peer

\* What is under way, in numbers.
LEMMA UnderWay ==
  ASSUME TypeOK
  PROVE  /\ FramesIn(toPeer) \in Nat /\ FramesIn(toLocal) \in Nat
         /\ CreditsIn(toPeer) \in Nat /\ CreditsIn(toLocal) \in Nat
BY HostTypes, UnitsFinite DEF FramesIn, CreditsIn

LEMMA SentTo ==
  ASSUME NEW packet \in Packet, toPeer \in Seq(Packet), toPeer' = Append(toPeer, packet)
  PROVE  /\ toPeer' \in Seq(Packet)
         /\ FramesIn(toPeer)' = FramesIn(toPeer) + UnitsOf(packet, "frame")
         /\ CreditsIn(toPeer)' = CreditsIn(toPeer) + UnitsOf(packet, "credits")
BY UnitsAppend, AppendElements DEF FramesIn, CreditsIn

LEMMA SentBack ==
  ASSUME NEW packet \in Packet, toLocal \in Seq(Packet), toLocal' = Append(toLocal, packet)
  PROVE  /\ toLocal' \in Seq(Packet)
         /\ FramesIn(toLocal)' = FramesIn(toLocal) + UnitsOf(packet, "frame")
         /\ CreditsIn(toLocal)' = CreditsIn(toLocal) + UnitsOf(packet, "credits")
BY UnitsAppend, AppendElements DEF FramesIn, CreditsIn

LEMMA PeerTakes ==
  ASSUME toPeer \in Seq(Packet), toPeer # <<>>, toPeer' = Tail(toPeer)
  PROVE  /\ toPeer' \in Seq(Packet) /\ Head(toPeer) \in Packet
         /\ FramesIn(toPeer) = FramesIn(toPeer)' + UnitsOf(Head(toPeer), "frame")
         /\ CreditsIn(toPeer) = CreditsIn(toPeer)' + UnitsOf(Head(toPeer), "credits")
BY UnitsTail, TailElements DEF FramesIn, CreditsIn

LEMMA HostTakes ==
  ASSUME toLocal \in Seq(Packet), toLocal # <<>>, toLocal' = Tail(toLocal)
  PROVE  /\ toLocal' \in Seq(Packet) /\ Head(toLocal) \in Packet
         /\ FramesIn(toLocal) = FramesIn(toLocal)' + UnitsOf(Head(toLocal), "frame")
         /\ CreditsIn(toLocal) = CreditsIn(toLocal)' + UnitsOf(Head(toLocal), "credits")
BY UnitsTail, TailElements DEF FramesIn, CreditsIn

\* A step in which the sending half of the channel goes on from o.
SenderStep(o) ==
  /\ o \in Channel /\ NotSending(obj, o) /\ o.txCredits = obj.txCredits
  /\ TriggerCocSend(o) \/ (obj' = o /\ toPeer' = toPeer)
  /\ SendingOf(o, sent', submitted')
  /\ sent' \in Seq(Sdus) /\ submitted' \in 0 .. MaxSdus
  /\ callStack' \in Seq(Activations) /\ (NoLoop' => NoLoop)
  /\ peer.state # "none"
  /\ UNCHANGED <<registry, failures, toLocal, peer, received>>

LEMMA SenderKeeps ==
  ASSUME CocInv, NEW o, SenderStep(o)
  PROVE  CocInv'
<1> USE DEF registry, failures
<1> HIDE DEF Channel, Packet, Frame, Peer, NoFrame, Sdus
<1>1. /\ obj \in Channel /\ toPeer \in Seq(Packet) /\ peer \in Peer
      /\ o \in Channel /\ NotSending(obj, o) /\ o.txCredits = obj.txCredits
  BY HostTypes DEF CocInv, SenderStep
<1>2. /\ obj' \in Channel /\ toPeer' \in Seq(Packet) /\ NotSending(o, obj')
      /\ (obj' = o /\ toPeer' = toPeer) \/ Triggered(o, obj')
  <2>1. CASE TriggerCocSend(o)
    BY <1>1, <2>1, TriggerEffects
  <2>2. CASE obj' = o /\ toPeer' = toPeer
    BY <1>1, <2>2 DEF NotSending
  <2>3. QED
    BY <2>1, <2>2 DEF SenderStep
<1>3. NotSending(obj, obj')
  BY <1>1, <1>2 DEF NotSending
<1>4. TypeOK'
  BY <1>2 DEF CocInv, TypeOK, SenderStep, Activations
<1>5. Carries' = Carries
  BY <1>3 DEF Carries, NotSending, SenderStep
<1>6. Unused'
  BY DEF Unused, SenderStep
<1>7. Registered'
  BY <1>3, KeepRegistered DEF CocInv, SenderStep, NotSending
<1>8. Buffered'
  BY <1>3, KeepBuffered DEF CocInv, SenderStep, NotSending
<1>9. Sending'
  <2>1. SendingOf(obj', sent', submitted')
    <3>1. CASE obj' = o
      BY <3>1 DEF SenderStep
    <3>2. CASE Triggered(o, obj')
      BY <1>1, <3>2, SendingTriggered DEF SenderStep
    <3>3. QED
      BY <1>2, <3>1, <3>2
  <2>2. QED
    BY <2>1 DEF Sending
<1>10. \/ toPeer' = toPeer /\ obj'.txCredits = obj.txCredits
       \/ /\ FramesIn(toPeer)' = FramesIn(toPeer) + 1 /\ CreditsIn(toPeer)' = CreditsIn(toPeer)
          /\ obj'.txCredits = obj.txCredits - 1 /\ obj'.isActive /\ ~disconnected
  <2>1. CASE obj' = o /\ toPeer' = toPeer
    BY <1>1, <2>1
  <2>2. CASE Triggered(o, obj')
    <3> DEFINE f == Head(o.outgoingPackets)
               packet == FramePacket(f)
    <3>1. f \in Frame
      BY <1>1, <2>2, ChannelFields, TailElements DEF Triggered
    <3>2. /\ packet \in Packet /\ toPeer' = Append(toPeer, packet)
          /\ UnitsOf(packet, "frame") = 1 /\ UnitsOf(packet, "credits") = 0
      BY <2>2, <3>1, PacketKinds, UnitsOfPackets DEF Triggered
    <3> HIDE DEF packet
    <3>3. /\ FramesIn(toPeer)' = FramesIn(toPeer) + 1
          /\ CreditsIn(toPeer)' = CreditsIn(toPeer) + 0
      BY <1>1, <3>2, SentTo
    <3>4. CreditsIn(toPeer) \in Nat
      BY UnderWay DEF CocInv
    <3>5. obj'.txCredits = obj.txCredits - 1 /\ obj'.isActive /\ ~disconnected
      BY <1>1, <1>2, <2>2 DEF Triggered, NotSending
    <3>6. QED
      BY <3>3, <3>4, <3>5
  <2>3. QED
    BY <1>2, <2>1, <2>2
<1>11. disconnected => toPeer' = toPeer
  BY <1>2 DEF Triggered
<1>12. Streaming'
  <2>1. SameReceived
    BY <1>3 DEF SameReceived, NotSending, SenderStep
  <2>2. QED
    BY <1>5, <1>11, <2>1, KeepStreaming DEF CocInv, SenderStep
<1>13. FramesIn(toLocal)' = FramesIn(toLocal) /\ CreditsIn(toLocal)' = CreditsIn(toLocal)
  BY DEF SenderStep, FramesIn, CreditsIn
<1>14. CreditsIn(toPeer)' = CreditsIn(toPeer)
  BY <1>10 DEF CreditsIn
<1>15. Covered'
  <2>1. CASE toPeer' = toPeer /\ obj'.txCredits = obj.txCredits
    <3>1. FramesIn(toPeer)' = FramesIn(toPeer)
      BY <2>1 DEF FramesIn
    <3>2. QED
      BY <1>5, <1>13, <2>1, <3>1, KeepCovered DEF CocInv, SenderStep
  <2>2. CASE /\ FramesIn(toPeer)' = FramesIn(toPeer) + 1 /\ obj'.txCredits = obj.txCredits - 1
             /\ obj'.isActive /\ ~disconnected
    <3>1. Carries
      BY <1>5, <2>2 DEF Carries, SenderStep
    <3>2. obj.txCredits + FramesIn(toPeer) + CreditsIn(toLocal) <= peer.rxCredits
      BY <3>1 DEF CocInv, Covered
    <3>3. /\ FramesIn(toPeer) \in Nat /\ CreditsIn(toLocal) \in Nat /\ obj.txCredits \in Nat
          /\ peer.rxCredits \in Nat /\ obj'.txCredits \in Nat
      BY <1>1, <1>2, ChannelFields, PeerFields, UnderWay DEF CocInv
    <3>4. /\ obj'.txCredits + FramesIn(toPeer)' + CreditsIn(toLocal)' <= peer'.rxCredits
          /\ FramesIn(toPeer)' <= peer'.rxCredits
      <4>1. peer'.rxCredits = peer.rxCredits
        BY DEF SenderStep
      <4>2. QED
        BY <1>13, <2>2, <3>2, <3>3, <4>1
    <3>5. QED
      BY <3>4 DEF Covered
  <2>3. QED
    BY <1>10, <2>1, <2>2
<1>16. Fed'
  BY <1>3, <1>5, <1>13, <1>14, KeepFed DEF CocInv, SenderStep, NotSending
<1>17. QED
  BY <1>4, <1>6, <1>7, <1>8, <1>9, <1>12, <1>15, <1>16 DEF CocInv

\* A channel that is active, or has something under way, was established.
LEMMA Established ==
  CocInv /\ (obj.isActive \/ callStack # <<>> \/ toLocal # <<>> \/ toPeer # <<>> \/ inCocMap) =>
    peer.state # "none"
BY DEF CocInv, Unused

LEMMA SendKeeps ==
  ASSUME CocInv, NEW n \in 1 .. MaxFrames, Send(n)
  PROVE  CocInv'
<1> HIDE DEF Channel, Packet, Frame, Peer, NoFrame, Sdus
<1> DEFINE out == obj.outgoingPackets \o Frames(submitted + 1, n)
           o == [obj EXCEPT !.outgoingPackets = out]
<1>1. /\ obj \in Channel /\ submitted \in Nat /\ sent \in Seq(Sdus) /\ callStack \in Seq(Activations)
  BY HostTypes DEF CocInv
<1>2. /\ submitted < MaxSdus /\ submitted' = submitted + 1 /\ obj.isActive /\ TriggerCocSend(o)
      /\ sent' = sent /\ callStack' = callStack
      /\ UNCHANGED <<registry, failures, toLocal, peer, received>>
  BY DEF Send
<1> HIDE DEF out
<1>3. /\ o.outgoingPackets = out /\ o.pending = obj.pending /\ o.txCredits = obj.txCredits
      /\ o.hasPendingOutgoingPacket = obj.hasPendingOutgoingPacket /\ NotSending(obj, o)
  BY <1>1 DEF Channel, NotSending
<1>4. out \in Seq(Frame) /\ SendingOf(o, sent, submitted + 1)
  <2>1. SendingOf(obj, sent, submitted)
    BY DEF CocInv, Sending
  <2> HIDE DEF o
  <2>2. o.outgoingPackets = obj.outgoingPackets \o Frames(submitted + 1, n)
    BY <1>3 DEF out
  <2>3. o.outgoingPackets \in Seq(Frame) /\ SendingOf(o, sent, submitted + 1)
    BY <1>1, <1>2, <1>3, <2>1, <2>2, SendingMore
  <2>4. QED
    BY <1>3, <2>3
<1>5. o \in Channel
  BY <1>1, <1>4 DEF Channel
<1> HIDE DEF o
<1>6. submitted' \in 0 .. MaxSdus
  BY <1>1, <1>2, CocAssumption
<1>7. NoLoop' => NoLoop
  BY <1>2 DEF NoLoop
<1>8. peer.state # "none"
  BY <1>2, Established
<1>9. SenderStep(o)
  BY <1>1, <1>2, <1>3, <1>4, <1>5, <1>6, <1>7, <1>8 DEF SenderStep
<1>10. QED
  BY <1>9, SenderKeeps

\* A pop of something else than the loop keeps the loop where it is.
LEMMA PopsOther ==
  ASSUME TypeOK, callStack # <<>>, callStack' = Pop, Top # "loop"
  PROVE  callStack' \in Seq(Activations) /\ (NoLoop' => NoLoop)
<1>1. /\ Pop \in Seq(Activations) /\ Len(callStack) \in Nat \ {0} /\ Len(Pop) = Len(callStack) - 1
      /\ \A i \in 1 .. Len(callStack) - 1 : Pop[i] = callStack[i]
  BY HostTypes, PopProperties DEF Pop
<1>2. ASSUME NoLoop', NEW i \in 1 .. Len(callStack)
      PROVE  callStack[i] # "loop"
  <2>1. CASE i = Len(callStack)
    BY <2>1 DEF Top
  <2>2. CASE i # Len(callStack)
    <3>1. i \in 1 .. Len(callStack) - 1
      BY <1>1, <2>2
    <3>2. i \in 1 .. Len(callStack')
      BY <1>1, <3>1
    <3>3. callStack'[i] # "loop"
      BY <1>2, <3>2 DEF NoLoop
    <3>4. QED
      BY <1>1, <3>1, <3>3
  <2>3. QED
    BY <2>1, <2>2
<1>3. QED
  BY <1>1, <1>2 DEF NoLoop

LEMMA PushesOther ==
  ASSUME TypeOK, NEW a \in Activations, callStack' = Append(callStack, a)
  PROVE  callStack' \in Seq(Activations) /\ (NoLoop' => NoLoop) /\ (a = "loop" => ~NoLoop')
<1>1. callStack \in Seq(Activations)
  BY HostTypes
<1>2. /\ callStack' \in Seq(Activations) /\ Len(callStack) \in Nat /\ Len(callStack') = Len(callStack) + 1
      /\ callStack'[Len(callStack) + 1] = a
      /\ \A i \in 1 .. Len(callStack) : callStack'[i] = callStack[i]
  BY <1>1, AppendElements
<1>3. /\ \A i \in 1 .. Len(callStack) : i \in 1 .. Len(callStack')
      /\ Len(callStack) + 1 \in 1 .. Len(callStack')
  BY <1>2
<1>4. QED
  BY <1>2, <1>3 DEF NoLoop

LEMMA SenderResumesKeeps == CocInv /\ SenderResumes => CocInv'
<1> SUFFICES ASSUME CocInv, SenderResumes
             PROVE  CocInv'
  OBVIOUS
<1> HIDE DEF Channel, Packet, Frame, Peer, NoFrame, Sdus
<1>1. /\ obj \in Channel /\ TypeOK /\ sent \in Seq(Sdus)
  BY HostTypes DEF CocInv
<1>2. /\ callStack # <<>> /\ Top # "loop" /\ callStack' = Pop /\ TriggerCocSend(obj)
      /\ UNCHANGED <<registry, failures, toLocal, peer, historyVars>>
  BY DEF SenderResumes
<1>3. callStack' \in Seq(Activations) /\ (NoLoop' => NoLoop)
  BY <1>1, <1>2, PopsOther
<1>4. peer.state # "none"
  BY <1>2, Established
<1>5. sent' = sent /\ submitted' = submitted /\ received' = received /\ submitted \in 0 .. MaxSdus
  BY <1>1, <1>2 DEF historyVars, TypeOK
<1>6. SendingOf(obj, sent', submitted')
  BY <1>5 DEF CocInv, Sending
<1>7. SenderStep(obj)
  BY <1>1, <1>2, <1>3, <1>4, <1>5, <1>6 DEF SenderStep, NotSending
<1>8. QED
  BY <1>7, SenderKeeps

LEMMA FrameWrittenKeeps == CocInv /\ FrameWritten => CocInv'
<1> SUFFICES ASSUME CocInv, FrameWritten
             PROVE  CocInv'
  OBVIOUS
<1> HIDE DEF Channel, Packet, Frame, Peer, Sdus
<1> DEFINE o == [obj EXCEPT !.hasPendingOutgoingPacket = FALSE, !.pending = NoFrame]
<1>1. /\ obj \in Channel /\ TypeOK /\ sent \in Seq(Sdus) /\ submitted \in Nat
      /\ submitted \in 0 .. MaxSdus /\ callStack \in Seq(Activations)
  BY HostTypes DEF CocInv, TypeOK
<1>2. /\ obj.hasPendingOutgoingPacket
      /\ IF IsLast(obj.pending)
         THEN /\ sent' = Append(sent, obj.pending.sdu)
              /\ callStack' = Append(callStack, "sent")
              /\ obj' = o /\ toPeer' = toPeer
         ELSE TriggerCocSend(o) /\ sent' = sent /\ callStack' = callStack
      /\ submitted' = submitted
      /\ UNCHANGED <<registry, failures, toLocal, peer, received>>
  BY DEF FrameWritten
<1>3. /\ o.outgoingPackets = obj.outgoingPackets /\ o.txCredits = obj.txCredits
      /\ ~o.hasPendingOutgoingPacket /\ NotSending(obj, o) /\ o \in Channel
  <2> HIDE DEF NoFrame
  <2>1. QED
    BY <1>1 DEF Channel, NotSending
<1> HIDE DEF o
<1>4. SendingOf(obj, sent, submitted)
  BY DEF CocInv, Sending
<1>5. /\ IsLast(obj.pending) =>
           /\ Append(sent, obj.pending.sdu) \in Seq(Sdus)
           /\ SendingOf(o, Append(sent, obj.pending.sdu), submitted)
      /\ ~IsLast(obj.pending) => SendingOf(o, sent, submitted)
  BY <1>1, <1>2, <1>3, <1>4, SendingWritten
<1>6. SendingOf(o, sent', submitted') /\ sent' \in Seq(Sdus)
  BY <1>1, <1>2, <1>5
<1>7. callStack' \in Seq(Activations) /\ (NoLoop' => NoLoop)
  <2>1. CASE callStack' = callStack
    BY <1>1, <2>1 DEF NoLoop
  <2>2. CASE callStack' = Append(callStack, "sent")
    <3>1. "sent" \in Activations
      BY DEF Activations
    <3>2. QED
      BY <1>1, <2>2, <3>1, PushesOther
  <2>3. QED
    BY <1>2, <2>1, <2>2
<1>8. peer.state # "none"
  BY <1>2 DEF CocInv, Unused
<1>9. SenderStep(o)
  BY <1>1, <1>2, <1>3, <1>6, <1>7, <1>8 DEF SenderStep
<1>10. QED
  BY <1>9, SenderKeeps

-----------------------------------------------------------------------------
(* Signals and credits. *)

\* A packet other than a frame is taken from the wire.
TakesOther ==
  toLocal # <<>> /\ Head(toLocal).type # "frame" /\ toLocal' = Tail(toLocal)

LEMMA OtherTaken ==
  ASSUME CocInv, TakesOther
  PROVE  /\ toLocal' \in Seq(Packet) /\ ~disconnected /\ peer.state # "none"
         /\ FramesIn(toLocal)' = FramesIn(toLocal)
         /\ CreditsIn(toLocal)' \in Nat
         /\ CreditsIn(toLocal) =
              CreditsIn(toLocal)' + (IF Head(toLocal).type = "credits" THEN Head(toLocal).credits ELSE 0)
         /\ Head(toLocal).type = "credits" => Head(toLocal).credits \in Nat
<1> HIDE DEF Packet
<1>1. toLocal \in Seq(Packet) /\ toLocal # <<>> /\ Head(toLocal).type # "frame" /\ toLocal' = Tail(toLocal)
  BY HostTypes DEF CocInv, TakesOther
<1>2. /\ toLocal' \in Seq(Packet) /\ Head(toLocal) \in Packet
      /\ FramesIn(toLocal) = FramesIn(toLocal)' + UnitsOf(Head(toLocal), "frame")
      /\ CreditsIn(toLocal) = CreditsIn(toLocal)' + UnitsOf(Head(toLocal), "credits")
  BY <1>1, HostTakes
<1>3. FramesIn(toLocal)' \in Nat /\ CreditsIn(toLocal)' \in Nat
  BY <1>2, UnitsFinite DEF FramesIn, CreditsIn
<1>4. UnitsOf(Head(toLocal), "frame") = 0
      /\ UnitsOf(Head(toLocal), "credits") =
           (IF Head(toLocal).type = "credits" THEN Head(toLocal).credits ELSE 0)
      /\ (Head(toLocal).type = "credits" => Head(toLocal).credits \in Nat)
  BY <1>1, <1>2, UnitsOfPackets, PacketKinds
<1>5. ~disconnected
  BY <1>1 DEF CocInv, Streaming
<1>6. peer.state # "none"
  BY <1>1, Established
<1>7. QED
  BY <1>1, <1>2, <1>3, <1>4, <1>5, <1>6

LEMMA OtherStreaming ==
  ASSUME CocInv, TakesOther, SameReceived, peer' = peer, crashed' = crashed,
         disconnected' = disconnected, Carries' => Carries
  PROVE  Streaming'
<1>1. ~disconnected /\ FramesIn(toLocal)' = FramesIn(toLocal) /\ toLocal \in Seq(Packet) /\ Streaming
  BY OtherTaken, HostTypes DEF CocInv
<1>2. ASSUME Carries', ~crashed'
      PROVE  Streamed(obj'.incomingPackets, obj'.sduFramesLeft, received', toLocal', peer')
  <2>1. Streamed(obj.incomingPackets, obj.sduFramesLeft, received, toLocal, peer)
    BY <1>1, <1>2 DEF Streaming
  <2>2. Streamed(obj.incomingPackets, obj.sduFramesLeft, received, Tail(toLocal), peer)
    BY <1>1, <2>1, StreamTail DEF TakesOther
  <2>3. QED
    BY <2>2 DEF SameReceived, TakesOther
<1>3. QED
  BY <1>1, <1>2 DEF Streaming

\* A step after which no frame or credit passes: what is left is kept.
LEMMA InactiveKeeps ==
  ASSUME CocInv, TypeOK', Registered', ~Carries', peer' = peer, peer.state # "none",
         sent' = sent, submitted' = submitted, SameReceived, obj'.pending = obj.pending,
         obj'.outgoingPackets = obj.outgoingPackets,
         obj'.hasPendingOutgoingPacket = obj.hasPendingOutgoingPacket,
         FramesIn(toPeer)' = FramesIn(toPeer), FramesIn(toLocal)' = FramesIn(toLocal),
         disconnected' = disconnected,
         disconnected => toPeer' = toPeer /\ toLocal' = toLocal
  PROVE  CocInv'
<1>1. Sending'
  BY KeepSending DEF CocInv
<1>2. Buffered'
  BY KeepBuffered DEF CocInv, SameReceived
<1>3. Streaming'
  BY DEF CocInv, Streaming
<1>4. Covered'
  BY KeepCovered DEF CocInv
<1>5. Fed'
  BY DEF Fed
<1>6. Unused'
  BY DEF Unused
<1>7. QED
  BY <1>1, <1>2, <1>3, <1>4, <1>5, <1>6 DEF CocInv

\* The effects of disconnectCoc.
LEMMA DisconnectEffects ==
  ASSUME NEW o \in Channel, toPeer \in Seq(Packet), DisconnectCoc(o)
  PROVE  /\ obj' \in Channel /\ ~obj'.isActive /\ obj'.isWaitingForDisconnectResponse
         /\ obj'.pending = o.pending /\ obj'.outgoingPackets = o.outgoingPackets
         /\ obj'.hasPendingOutgoingPacket = o.hasPendingOutgoingPacket
         /\ obj'.incomingPackets = o.incomingPackets /\ obj'.sduFramesLeft = o.sduFramesLeft
         /\ requestPending' = TRUE
         /\ toPeer' \in Seq(Packet) /\ FramesIn(toPeer)' = FramesIn(toPeer)
         /\ disconnected => toPeer' = toPeer
<1>1. /\ obj' \in Channel /\ ~obj'.isActive /\ obj'.isWaitingForDisconnectResponse
      /\ obj'.pending = o.pending /\ obj'.outgoingPackets = o.outgoingPackets
      /\ obj'.hasPendingOutgoingPacket = o.hasPendingOutgoingPacket
      /\ obj'.incomingPackets = o.incomingPackets /\ obj'.sduFramesLeft = o.sduFramesLeft
  <2> HIDE DEF Frame, NoFrame
  <2>1. QED
    BY DEF DisconnectCoc, Channel
<1> HIDE DEF Channel, Packet
<1> DEFINE packet == Signal("disconnectionRequest")
<1>2. packet \in Packet /\ UnitsOf(packet, "frame") = 0
  BY PacketKinds, UnitsOfPackets
<1> HIDE DEF packet
<1>3. toPeer' = toPeer \/ (toPeer' = Append(toPeer, packet) /\ ~disconnected)
  BY DEF DisconnectCoc, SendPacket, packet
<1>4. CASE toPeer' = toPeer
  BY <1>1, <1>4 DEF FramesIn, DisconnectCoc
<1>5. CASE toPeer' = Append(toPeer, packet) /\ ~disconnected
  <2>1. toPeer' \in Seq(Packet) /\ FramesIn(toPeer)' = FramesIn(toPeer) + 0
    BY <1>2, <1>5, SentTo
  <2>2. FramesIn(toPeer) \in Nat
    BY UnitsFinite DEF FramesIn
  <2>3. QED
    BY <1>1, <1>5, <2>1, <2>2 DEF DisconnectCoc
<1>6. QED
  BY <1>3, <1>4, <1>5

\* An active channel that begins to end stays in cocMap, waiting for the answer.
LEMMA DisconnectRegistered ==
  ASSUME Registered, obj.isActive, ~obj'.isActive, inCocMap' = inCocMap,
         inTxCidToRxCid' = inTxCidToRxCid, numCoc' = numCoc
  PROVE  Registered'
BY DEF Registered, ReleasedOnce

LEMMA DisconnectKeeps == CocInv /\ Disconnect => CocInv'
<1> SUFFICES ASSUME CocInv, Disconnect
             PROVE  CocInv'
  OBVIOUS
<1> HIDE DEF Channel, Packet, Frame, Peer, Sdus
<1>1. obj \in Channel /\ toPeer \in Seq(Packet)
  BY HostTypes DEF CocInv
<1>2. /\ obj.isActive /\ DisconnectCoc(obj)
      /\ UNCHANGED <<inCocMap, inTxCidToRxCid, numCoc, failures, callStack, toLocal, peer, historyVars>>
  BY DEF Disconnect
<1>3. /\ obj' \in Channel /\ ~obj'.isActive /\ obj'.isWaitingForDisconnectResponse
      /\ obj'.pending = obj.pending /\ obj'.outgoingPackets = obj.outgoingPackets
      /\ obj'.hasPendingOutgoingPacket = obj.hasPendingOutgoingPacket
      /\ obj'.incomingPackets = obj.incomingPackets /\ obj'.sduFramesLeft = obj.sduFramesLeft
      /\ requestPending' = TRUE
      /\ toPeer' \in Seq(Packet) /\ FramesIn(toPeer)' = FramesIn(toPeer)
      /\ disconnected => toPeer' = toPeer
  BY <1>1, <1>2, DisconnectEffects
<1>4. TypeOK'
  BY <1>2, <1>3 DEF CocInv, TypeOK, failures, historyVars
<1>5. Registered'
  BY <1>2, <1>3, DisconnectRegistered DEF CocInv
<1>6. ~Carries' /\ SameReceived
  BY <1>2, <1>3 DEF Carries, SameReceived, historyVars
<1>7. FramesIn(toLocal)' = FramesIn(toLocal)
  BY <1>2 DEF FramesIn
<1>8. peer.state # "none"
  BY <1>2, Established
<1>9. QED
  BY <1>2, <1>3, <1>4, <1>5, <1>6, <1>7, <1>8, InactiveKeeps DEF failures, historyVars

\* Giving the channel up, or not because that was done already.
ReleaseEffects ==
  /\ obj' \in Channel /\ obj'.isActive = obj.isActive /\ SameReceived
  /\ obj'.pending = obj.pending /\ obj'.outgoingPackets = obj.outgoingPackets
  /\ obj'.hasPendingOutgoingPacket = obj.hasPendingOutgoingPacket
  /\ obj'.txCredits = obj.txCredits /\ obj'.rxCredits = obj.rxCredits /\ obj'.isPaused = obj.isPaused
  /\ numCoc' \in {0, 1} /\ inCocMap' \in BOOLEAN /\ inTxCidToRxCid' \in BOOLEAN
  /\ Registered'

LEMMA ReleaseProperties ==
  ASSUME CocInv, Release \/ UNCHANGED <<requestPending, numCoc, inCocMap, inTxCidToRxCid, obj>>,
         received' = received
  PROVE  ReleaseEffects
<1> HIDE DEF Packet, Frame, Peer, NoFrame, Sdus
<1>1. obj \in Channel /\ numCoc \in {0, 1} /\ inCocMap \in BOOLEAN /\ inTxCidToRxCid \in BOOLEAN
      /\ Registered
  BY HostTypes DEF CocInv
<1>2. CASE UNCHANGED <<numCoc, inCocMap, inTxCidToRxCid, obj>>
  <2> HIDE DEF Channel
  <2>1. Registered'
    BY <1>1, <1>2, KeepRegistered
  <2>2. QED
    BY <1>1, <1>2, <2>1 DEF ReleaseEffects, SameReceived
<1>3. CASE /\ obj.isWaitingForDisconnectResponse
           /\ numCoc' = numCoc - 1 /\ inCocMap' = FALSE /\ inTxCidToRxCid' = FALSE
           /\ obj' = [obj EXCEPT !.isWaitingForDisconnectResponse = FALSE]
  <2>1. /\ obj' \in Channel /\ obj'.isActive = obj.isActive
        /\ obj'.pending = obj.pending /\ obj'.outgoingPackets = obj.outgoingPackets
        /\ obj'.hasPendingOutgoingPacket = obj.hasPendingOutgoingPacket
        /\ obj'.incomingPackets = obj.incomingPackets /\ obj'.sduFramesLeft = obj.sduFramesLeft
        /\ obj'.txCredits = obj.txCredits /\ obj'.rxCredits = obj.rxCredits
        /\ obj'.isPaused = obj.isPaused /\ obj'.isWaitingForDisconnectResponse = FALSE
    BY <1>1, <1>3 DEF Channel
  <2> HIDE DEF Channel
  <2>2. inCocMap /\ numCoc = 1 /\ ~obj.isActive
    BY <1>1, <1>3 DEF Registered, ReleasedOnce
  <2>3. numCoc' = 0 /\ Registered'
    BY <1>3, <2>1, <2>2 DEF Registered, ReleasedOnce
  <2>4. QED
    BY <1>3, <2>1, <2>3 DEF ReleaseEffects, SameReceived
<1>4. QED
  BY <1>2, <1>3 DEF Release, IsNotReleased

\* A step that gives the channel up, and otherwise at most takes a signal from the wire.
LEMMA ReleaseKeeps ==
  ASSUME CocInv, ReleaseEffects, TypeOK', peer.state # "none",
         TakesOther \/ toLocal' = toLocal,
         UNCHANGED <<failures, callStack, toPeer, peer, historyVars>>
  PROVE  CocInv'
<1> USE DEF failures, historyVars
<1> HIDE DEF Channel, Packet, Frame, Peer, NoFrame, Sdus
<1>1. Carries' = Carries /\ (NoLoop' => NoLoop) /\ SameReceived
  BY DEF ReleaseEffects, Carries, NoLoop
<1>2. FramesIn(toPeer)' = FramesIn(toPeer) /\ CreditsIn(toPeer)' = CreditsIn(toPeer)
  BY DEF FramesIn, CreditsIn
<1>3. Streaming'
  <2>1. CASE TakesOther
    BY <1>1, <2>1, OtherStreaming
  <2>2. CASE toLocal' = toLocal
    BY <1>1, <2>2, KeepStreaming DEF CocInv
  <2>3. QED
    BY <2>1, <2>2
<1>4. /\ FramesIn(toLocal)' = FramesIn(toLocal)
      /\ CreditsIn(toLocal)' <= CreditsIn(toLocal) /\ CreditsIn(toLocal)' \in Nat
  <2>1. CASE TakesOther
    BY <2>1, OtherTaken
  <2>2. CASE toLocal' = toLocal
    <3>1. CreditsIn(toLocal) \in Nat
      BY UnderWay DEF CocInv
    <3>2. CreditsIn(toLocal)' = CreditsIn(toLocal) /\ FramesIn(toLocal)' = FramesIn(toLocal)
      BY <2>2 DEF FramesIn, CreditsIn
    <3>3. QED
      BY <3>1, <3>2
  <2>3. QED
    BY <2>1, <2>2
<1>5. Covered'
  <2>1. /\ FramesIn(toPeer) \in Nat /\ CreditsIn(toLocal) \in Nat /\ obj.txCredits \in Nat
        /\ peer.rxCredits \in Nat
    BY HostTypes, UnderWay, ChannelFields, PeerFields DEF CocInv
  <2>2. obj'.txCredits = obj.txCredits /\ peer'.rxCredits = peer.rxCredits
    BY DEF ReleaseEffects
  <2>3. FramesIn(toPeer)' <= peer'.rxCredits
    BY <1>2, <2>2 DEF CocInv, Covered
  <2>4. ASSUME Carries
        PROVE  obj'.txCredits + FramesIn(toPeer)' + CreditsIn(toLocal)' <= peer'.rxCredits
    <3>1. obj.txCredits + FramesIn(toPeer) + CreditsIn(toLocal) <= peer.rxCredits
      BY <2>4 DEF CocInv, Covered
    <3>2. QED
      BY <1>2, <1>4, <2>1, <2>2, <3>1
  <2>5. QED
    BY <1>1, <2>3, <2>4 DEF Covered
<1>6. Fed'
  BY <1>1, <1>2, <1>4, KeepFed DEF CocInv, ReleaseEffects
<1>7. Sending'
  BY KeepSending DEF CocInv, ReleaseEffects
<1>8. Buffered'
  BY <1>1, KeepBuffered DEF CocInv, SameReceived
<1>9. Unused'
  BY DEF Unused
<1>10. QED
  BY <1>3, <1>5, <1>6, <1>7, <1>8, <1>9 DEF CocInv, ReleaseEffects

LEMMA HandleDisconnectionResponseKeeps == CocInv /\ HandleDisconnectionResponse => CocInv'
<1> SUFFICES ASSUME CocInv, HandleDisconnectionResponse
             PROVE  CocInv'
  OBVIOUS
<1> HIDE DEF Channel, Packet, Frame, Peer, NoFrame, Sdus
<1>1. /\ TakesOther
      /\ Release \/ UNCHANGED <<requestPending, numCoc, inCocMap, inTxCidToRxCid, obj>>
      /\ UNCHANGED <<failures, callStack, toPeer, peer, historyVars>>
  BY DEF HandleDisconnectionResponse, TakesOther
<1>2. ReleaseEffects
  BY <1>1, ReleaseProperties DEF historyVars
<1>3. toLocal' \in Seq(Packet) /\ peer.state # "none"
  BY <1>1, OtherTaken
<1>4. requestPending' \in BOOLEAN
  BY <1>1 DEF Release, CocInv, TypeOK
<1>5. TypeOK'
  BY <1>1, <1>2, <1>3, <1>4 DEF CocInv, TypeOK, ReleaseEffects, failures, historyVars
<1>6. QED
  BY <1>1, <1>2, <1>3, <1>5, ReleaseKeeps

LEMMA DisconnectTimesOutKeeps == CocInv /\ DisconnectTimesOut => CocInv'
<1> SUFFICES ASSUME CocInv, DisconnectTimesOut
             PROVE  CocInv'
  OBVIOUS
<1> HIDE DEF Channel, Packet, Frame, Peer, NoFrame, Sdus
<1>1. Release /\ requestPending /\ UNCHANGED <<failures, callStack, wires, peer, historyVars>>
  BY DEF DisconnectTimesOut
<1>2. ReleaseEffects
  BY <1>1, ReleaseProperties DEF historyVars
<1>3. peer.state # "none"
  BY <1>1 DEF CocInv, Unused
<1>4. requestPending' \in BOOLEAN
  BY <1>1 DEF Release
<1>5. TypeOK'
  BY <1>1, <1>2, <1>4 DEF CocInv, TypeOK, ReleaseEffects, failures, historyVars, wires
<1>6. QED
  BY <1>1, <1>2, <1>3, <1>5, ReleaseKeeps DEF wires

LEMMA HandleDisconnectionRequestKeeps == CocInv /\ HandleDisconnectionRequest => CocInv'
<1> SUFFICES ASSUME CocInv, HandleDisconnectionRequest
             PROVE  CocInv'
  OBVIOUS
<1> USE DEF failures, historyVars
<1> HIDE DEF Packet, Frame, Peer, NoFrame, Sdus
<1> DEFINE reply == IF ~inCocMap \/ (~obj.isActive /\ ~obj.isWaitingForDisconnectResponse)
                     THEN Signal("reject") ELSE Signal("disconnectionResponse")
<1>1. /\ TakesOther
      /\ UNCHANGED <<requestPending, failures, callStack, peer, historyVars>>
  BY DEF HandleDisconnectionRequest, TakesOther
<1>2. /\ toLocal' \in Seq(Packet) /\ ~disconnected /\ peer.state # "none"
      /\ FramesIn(toLocal)' = FramesIn(toLocal)
      /\ CreditsIn(toLocal)' \in Nat /\ CreditsIn(toLocal)' <= CreditsIn(toLocal)
  <2> HIDE DEF Channel
  <2>1. Head(toLocal).type # "credits"
    BY DEF HandleDisconnectionRequest
  <2>2. QED
    BY <1>1, <2>1, OtherTaken
<1>3. reply \in Packet /\ UnitsOf(reply, "frame") = 0 /\ UnitsOf(reply, "credits") = 0
  BY PacketKinds, UnitsOfPackets
<1>4. toPeer' = Append(toPeer, reply)
  BY <1>2 DEF HandleDisconnectionRequest, SendPacket
<1> HIDE DEF reply
<1>5. /\ toPeer' \in Seq(Packet) /\ FramesIn(toPeer)' = FramesIn(toPeer)
      /\ CreditsIn(toPeer)' = CreditsIn(toPeer)
  <2> HIDE DEF Channel
  <2>1. toPeer \in Seq(Packet) /\ FramesIn(toPeer) \in Nat /\ CreditsIn(toPeer) \in Nat
    BY HostTypes, UnderWay DEF CocInv
  <2>2. QED
    BY <1>3, <1>4, <2>1, SentTo
<1>6. obj \in Channel /\ Registered /\ numCoc \in {0, 1}
  BY HostTypes DEF CocInv
<1>7. CASE ~inCocMap \/ (~obj.isActive /\ ~obj.isWaitingForDisconnectResponse)
  <2> HIDE DEF Channel
  <2>1. UNCHANGED <<numCoc, inCocMap, inTxCidToRxCid, obj>>
    BY <1>7 DEF HandleDisconnectionRequest
  <2>2. ~obj.isActive
    BY <1>6, <1>7 DEF Registered, ReleasedOnce
  <2>3. TypeOK'
    BY <1>1, <1>2, <1>5, <2>1 DEF CocInv, TypeOK
  <2>4. Registered'
    BY <1>6, <2>1, KeepRegistered
  <2>5. ~Carries' /\ SameReceived
    BY <1>1, <2>1, <2>2 DEF Carries, SameReceived
  <2>6. QED
    BY <1>1, <1>2, <1>5, <2>1, <2>3, <2>4, <2>5, InactiveKeeps
<1>8. CASE inCocMap /\ (obj.isActive \/ obj.isWaitingForDisconnectResponse)
  <2>1. /\ numCoc' = numCoc - 1 /\ inCocMap' = FALSE /\ inTxCidToRxCid' = FALSE
        /\ obj' = [obj EXCEPT !.isActive = FALSE, !.isWaitingForDisconnectResponse = FALSE]
    BY <1>6, <1>8 DEF HandleDisconnectionRequest
  <2>2. /\ obj' \in Channel /\ obj'.isActive = FALSE /\ obj'.isWaitingForDisconnectResponse = FALSE
        /\ obj'.pending = obj.pending /\ obj'.outgoingPackets = obj.outgoingPackets
        /\ obj'.hasPendingOutgoingPacket = obj.hasPendingOutgoingPacket
        /\ obj'.incomingPackets = obj.incomingPackets /\ obj'.sduFramesLeft = obj.sduFramesLeft
    BY <1>6, <2>1 DEF Channel
  <2> HIDE DEF Channel
  <2>3. numCoc' = 0
    BY <1>6, <1>8, <2>1 DEF Registered, ReleasedOnce
  <2>4. TypeOK'
    BY <1>1, <1>2, <1>5, <2>1, <2>2, <2>3 DEF CocInv, TypeOK
  <2>5. Registered'
    BY <2>1, <2>2, <2>3 DEF Registered, ReleasedOnce
  <2>6. ~Carries' /\ SameReceived
    BY <1>1, <2>2 DEF Carries, SameReceived
  <2>7. QED
    BY <1>1, <1>2, <1>5, <2>2, <2>4, <2>5, <2>6, InactiveKeeps
<1>9. QED
  BY <1>7, <1>8

LEMMA LinkDownKeeps == CocInv /\ LinkDown => CocInv'
<1> SUFFICES ASSUME CocInv, LinkDown
             PROVE  CocInv'
  OBVIOUS
<1> USE DEF historyVars
<1> HIDE DEF Channel, Packet, Frame, Peer, NoFrame, Sdus
<1>1. /\ disconnected' = TRUE /\ toPeer' = <<>> /\ toLocal' = <<>> /\ requestPending' = FALSE
      /\ UNCHANGED <<obj, inCocMap, inTxCidToRxCid, numCoc, crashed, callStack, peer, historyVars>>
  BY DEF LinkDown
<1>2. FramesIn(toPeer)' = 0 /\ FramesIn(toLocal)' = 0
  <2>1. \A type : Units(<<>>, type) = {}
    BY DEF Units
  <2>2. QED
    BY <1>1, <2>1, FS_EmptySet DEF FramesIn
<1>3. <<>> \in Seq(Packet)
  BY EmptySeq
<1>4. TypeOK'
  BY <1>1, <1>3 DEF CocInv, TypeOK
<1>5. Sending' /\ Buffered' /\ Registered'
  BY <1>1, KeepSending, KeepBuffered, KeepRegistered DEF CocInv
<1>6. ~Carries'
  BY <1>1 DEF Carries
<1>7. Streaming'
  BY <1>1, <1>2, <1>6 DEF CocInv, Streaming
<1>8. Covered'
  <2>1. peer.rxCredits \in Nat
    BY HostTypes, PeerFields DEF CocInv
  <2>2. QED
    BY <1>1, <1>2, <1>6, <2>1 DEF Covered
<1>9. Fed' /\ Unused'
  BY <1>1, <1>6 DEF Fed, CocInv, Unused
<1>10. QED
  BY <1>4, <1>5, <1>7, <1>8, <1>9 DEF CocInv

LEMMA HandleCreditsKeeps == CocInv /\ HandleCredits => CocInv'
<1> SUFFICES ASSUME CocInv, HandleCredits
             PROVE  CocInv'
  OBVIOUS
<1> USE DEF failures, historyVars
<1> HIDE DEF Packet, Frame, Peer, NoFrame, Sdus
<1> DEFINE c == Head(toLocal).credits
           o == [obj EXCEPT !.txCredits = @ + c]
<1>1. /\ TakesOther /\ Head(toLocal).type = "credits" /\ callStack = <<>>
      /\ UNCHANGED <<inCocMap, inTxCidToRxCid, numCoc, failures, peer, historyVars>>
  BY DEF HandleCredits, TakesOther, EventLoop
<1>2. /\ toLocal' \in Seq(Packet) /\ ~disconnected /\ peer.state # "none"
      /\ FramesIn(toLocal)' = FramesIn(toLocal)
      /\ CreditsIn(toLocal)' \in Nat /\ c \in Nat /\ CreditsIn(toLocal) = CreditsIn(toLocal)' + c
  <2> HIDE DEF Channel
  <2>1. QED
    BY <1>1, OtherTaken
<1>3. obj \in Channel /\ toPeer \in Seq(Packet) /\ Registered
  BY HostTypes DEF CocInv
<1> HIDE DEF c
<1>4. /\ o \in Channel /\ NotSending(obj, o) /\ o.txCredits = obj.txCredits + c
      /\ o.pending = obj.pending /\ o.outgoingPackets = obj.outgoingPackets
      /\ o.hasPendingOutgoingPacket = obj.hasPendingOutgoingPacket
  <2>1. obj.txCredits + c \in Nat
    BY <1>2, <1>3, ChannelFields
  <2>2. QED
    BY <1>3, <2>1 DEF Channel, NotSending
<1>5. CASE ~inTxCidToRxCid \/ ~obj.isActive
  <2> HIDE DEF Channel
  <2>1. UNCHANGED <<obj, requestPending, toPeer, callStack>>
    BY <1>5 DEF HandleCredits
  <2>2. ReleaseEffects
    BY <1>1, <2>1, ReleaseProperties
  <2>3. TypeOK'
    BY <1>1, <1>2, <2>1 DEF CocInv, TypeOK
  <2>4. QED
    BY <1>1, <1>2, <2>1, <2>2, <2>3, ReleaseKeeps
<1>6. CASE ~(~inTxCidToRxCid \/ ~obj.isActive) /\ o.txCredits > CreditLimit
  <2>1. DisconnectCoc(o) /\ callStack' = callStack /\ obj.isActive
    BY <1>6 DEF HandleCredits, c
  <2> HIDE DEF o, Channel
  <2>2. /\ obj' \in Channel /\ ~obj'.isActive /\ obj'.isWaitingForDisconnectResponse
        /\ obj'.pending = o.pending /\ obj'.outgoingPackets = o.outgoingPackets
        /\ obj'.hasPendingOutgoingPacket = o.hasPendingOutgoingPacket
        /\ obj'.incomingPackets = o.incomingPackets /\ obj'.sduFramesLeft = o.sduFramesLeft
        /\ requestPending' = TRUE
        /\ toPeer' \in Seq(Packet) /\ FramesIn(toPeer)' = FramesIn(toPeer)
    BY <1>3, <1>4, <2>1, DisconnectEffects
  <2>3. TypeOK'
    BY <1>1, <1>2, <2>1, <2>2 DEF CocInv, TypeOK
  <2>4. Registered'
    BY <1>1, <1>3, <2>1, <2>2, DisconnectRegistered
  <2>5. ~Carries' /\ SameReceived
    BY <1>1, <1>4, <2>2 DEF Carries, SameReceived, NotSending
  <2>6. QED
    BY <1>1, <1>2, <1>4, <2>2, <2>3, <2>4, <2>5, InactiveKeeps
<1>7. CASE ~(~inTxCidToRxCid \/ ~obj.isActive) /\ ~(o.txCredits > CreditLimit)
  <2>1. obj' = o /\ callStack' = <<"credits">> /\ UNCHANGED <<requestPending, toPeer>>
    BY <1>7 DEF HandleCredits, c
  <2> HIDE DEF o, Channel
  <2>2. <<"credits">> \in Seq(Activations)
    BY DEF Activations
  <2>3. TypeOK'
    BY <1>1, <1>2, <1>4, <2>1, <2>2 DEF CocInv, TypeOK, Activations
  <2>4. Carries' = Carries /\ SameReceived /\ NoLoop /\ Carries
    <3>1. NoLoop
      BY <1>1, EmptySeq DEF NoLoop
    <3>2. QED
      BY <1>1, <1>2, <1>4, <1>7, <2>1, <3>1 DEF Carries, SameReceived, NotSending
  <2>5. Registered'
    BY <1>1, <1>3, <1>4, <2>1, KeepRegistered DEF NotSending
  <2>6. Sending' /\ Buffered'
    BY <1>1, <1>4, <2>1, <2>4, KeepSending, KeepBuffered DEF CocInv, SameReceived
  <2>7. Streaming'
    BY <1>1, <2>4, OtherStreaming
  <2>8. FramesIn(toPeer)' = FramesIn(toPeer) /\ CreditsIn(toPeer)' = CreditsIn(toPeer)
    BY <2>1 DEF FramesIn, CreditsIn
  <2>9. Covered'
    <3>1. /\ FramesIn(toPeer) \in Nat /\ obj.txCredits \in Nat /\ peer.rxCredits \in Nat
      BY <1>3, HostTypes, UnderWay, ChannelFields, PeerFields DEF CocInv
    <3>2. /\ FramesIn(toPeer) <= peer.rxCredits
          /\ obj.txCredits + FramesIn(toPeer) + CreditsIn(toLocal) <= peer.rxCredits
      BY <2>4 DEF CocInv, Covered
    <3>3. obj'.txCredits = obj.txCredits + c /\ peer'.rxCredits = peer.rxCredits
      BY <1>1, <1>4, <2>1
    <3>4. obj'.txCredits + FramesIn(toPeer)' + CreditsIn(toLocal)' <= peer'.rxCredits
      BY <1>2, <2>8, <3>1, <3>2, <3>3
    <3>5. FramesIn(toPeer)' <= peer'.rxCredits
      BY <2>8, <3>2, <3>3
    <3>6. QED
      BY <3>4, <3>5 DEF Covered
  <2>10. Fed'
    BY <1>1, <1>2, <1>4, <2>1, <2>4, <2>8, KeepFed DEF CocInv, NotSending
  <2>11. Unused'
    BY <1>1, <1>2 DEF Unused
  <2>12. QED
    BY <2>3, <2>5, <2>6, <2>7, <2>9, <2>10, <2>11 DEF CocInv
<1>8. QED
  BY <1>5, <1>6, <1>7

-----------------------------------------------------------------------------
(* Listeners, and what the application does from them. *)

Aside(o, q) ==
  /\ q.rxCredits = o.rxCredits /\ q.incomingPackets = o.incomingPackets
  /\ q.sduFramesLeft = o.sduFramesLeft /\ q.isActive = o.isActive
  /\ q.isWaitingForDisconnectResponse = o.isWaitingForDisconnectResponse

\* A step that touches nothing but the stack and the flags of the receiving half.
LEMMA QuietKeeps ==
  ASSUME CocInv, peer.state # "none", obj' \in Channel, Aside(obj, obj'),
         callStack' \in Seq(Activations),
         obj'.pending = obj.pending, obj'.outgoingPackets = obj.outgoingPackets,
         obj'.hasPendingOutgoingPacket = obj.hasPendingOutgoingPacket,
         obj'.txCredits = obj.txCredits,
         NoLoop' /\ ~obj'.isPaused => NoLoop /\ ~obj.isPaused,
         UNCHANGED <<registry, failures, wires, peer, historyVars>>
  PROVE  CocInv'
<1> USE DEF registry, failures, wires, historyVars
<1> HIDE DEF Packet, Frame, Peer, NoFrame, Sdus
<1>1. /\ obj'.rxCredits = obj.rxCredits /\ obj'.incomingPackets = obj.incomingPackets
      /\ obj'.sduFramesLeft = obj.sduFramesLeft /\ obj'.isActive = obj.isActive
      /\ obj'.isWaitingForDisconnectResponse = obj.isWaitingForDisconnectResponse
  BY DEF Aside
<1> HIDE DEF Channel
<1>2. TypeOK'
  BY DEF CocInv, TypeOK, Activations
<1>3. Carries' = Carries /\ SameReceived
  BY <1>1 DEF Carries, SameReceived
<1>4. /\ FramesIn(toPeer)' = FramesIn(toPeer) /\ CreditsIn(toPeer)' = CreditsIn(toPeer)
      /\ FramesIn(toLocal)' = FramesIn(toLocal) /\ CreditsIn(toLocal)' = CreditsIn(toLocal)
  BY DEF FramesIn, CreditsIn
<1>5. Sending' /\ Buffered' /\ Registered'
  BY <1>1, KeepSending, KeepBuffered, KeepRegistered DEF CocInv
<1>6. Streaming'
  BY <1>3, KeepStreaming DEF CocInv
<1>7. Covered'
  BY <1>3, <1>4, KeepCovered DEF CocInv
<1>8. Fed'
  BY <1>1, <1>3, <1>4, KeepFed DEF CocInv
<1>9. Unused'
  BY DEF Unused
<1>10. QED
  BY <1>2, <1>5, <1>6, <1>7, <1>8, <1>9 DEF CocInv

LEMMA PauseKeeps == CocInv /\ Pause => CocInv'
<1> SUFFICES ASSUME CocInv, Pause
             PROVE  CocInv'
  OBVIOUS
<1> HIDE DEF Packet, Frame, Peer, NoFrame, Sdus
<1>1. obj \in Channel /\ callStack \in Seq(Activations)
  BY HostTypes DEF CocInv
<1>2. /\ peer.state # "none" /\ obj' = [obj EXCEPT !.isPaused = TRUE] /\ callStack' = callStack
      /\ UNCHANGED <<registry, failures, wires, peer, historyVars>>
  BY DEF Pause
<1>3. /\ obj' \in Channel /\ Aside(obj, obj')
      /\ obj'.pending = obj.pending /\ obj'.outgoingPackets = obj.outgoingPackets
      /\ obj'.hasPendingOutgoingPacket = obj.hasPendingOutgoingPacket
      /\ obj'.txCredits = obj.txCredits /\ obj'.isPaused
  BY <1>1, <1>2 DEF Channel, Aside
<1> HIDE DEF Channel
<1>4. QED
  BY <1>1, <1>2, <1>3, QuietKeeps

LEMMA ResumeKeeps == CocInv /\ Resume => CocInv'
<1> SUFFICES ASSUME CocInv, Resume
             PROVE  CocInv'
  OBVIOUS
<1> HIDE DEF Packet, Frame, Peer, NoFrame, Sdus
<1>1. obj \in Channel /\ TypeOK
  BY HostTypes DEF CocInv
<1>2. /\ peer.state # "none" /\ obj' = [obj EXCEPT !.isPaused = FALSE]
      /\ callStack' = Append(callStack, "loop")
      /\ UNCHANGED <<registry, failures, wires, peer, historyVars>>
  BY DEF Resume
<1>3. /\ obj' \in Channel /\ Aside(obj, obj')
      /\ obj'.pending = obj.pending /\ obj'.outgoingPackets = obj.outgoingPackets
      /\ obj'.hasPendingOutgoingPacket = obj.hasPendingOutgoingPacket
      /\ obj'.txCredits = obj.txCredits
  BY <1>1, <1>2 DEF Channel, Aside
<1> HIDE DEF Channel
<1>4. callStack' \in Seq(Activations) /\ ~NoLoop'
  <2>1. "loop" \in Activations
    BY DEF Activations
  <2>2. QED
    BY <1>1, <1>2, <2>1, PushesOther
<1>5. QED
  BY <1>2, <1>3, <1>4, QuietKeeps

LEMMA DataCallbackReturnsKeeps == CocInv /\ DataCallbackReturns => CocInv'
<1> SUFFICES ASSUME CocInv, DataCallbackReturns
             PROVE  CocInv'
  OBVIOUS
<1> HIDE DEF Packet, Frame, Peer, NoFrame, Sdus
<1>1. obj \in Channel /\ TypeOK
  BY HostTypes DEF CocInv
<1>2. /\ obj' = [obj EXCEPT !.isInDataCallback = FALSE] /\ callStack # <<>> /\ Top # "loop"
      /\ callStack' = Pop /\ UNCHANGED <<registry, failures, wires, peer, historyVars>>
  BY DEF DataCallbackReturns
<1>3. /\ obj' \in Channel /\ Aside(obj, obj')
      /\ obj'.pending = obj.pending /\ obj'.outgoingPackets = obj.outgoingPackets
      /\ obj'.hasPendingOutgoingPacket = obj.hasPendingOutgoingPacket
      /\ obj'.txCredits = obj.txCredits /\ obj'.isPaused = obj.isPaused
  BY <1>1, <1>2 DEF Channel, Aside
<1> HIDE DEF Channel
<1>4. callStack' \in Seq(Activations) /\ (NoLoop' => NoLoop)
  BY <1>1, <1>2, PopsOther
<1>5. peer.state # "none"
  BY <1>2, Established
<1>6. QED
  BY <1>2, <1>3, <1>4, <1>5, QuietKeeps

LEMMA LoopDeliversKeeps == CocInv /\ LoopDelivers => CocInv'
<1> SUFFICES ASSUME CocInv, LoopDelivers
             PROVE  CocInv'
  OBVIOUS
<1> USE DEF registry, failures, wires
<1> HIDE DEF Packet, Frame, Peer, NoFrame, Sdus
<1> DEFINE in == obj.incomingPackets
           left == obj.sduFramesLeft
           rest == Tail(in)
           x == Head(in)
           r == Append(received, x)
<1>1. /\ obj \in Channel /\ TypeOK /\ in \in Seq(Sdu) /\ received \in Seq(Sdu) /\ left \in Nat
      /\ BufferedOf(in, left, received)
  <2> HIDE DEF Channel
  <2>1. obj \in Channel /\ TypeOK /\ received \in Seq(Sdu) /\ BufferedOf(in, left, received)
    BY HostTypes DEF CocInv, Buffered
  <2>2. in \in Seq(Sdu) /\ left \in Nat
    BY <2>1, ChannelFields, CocAssumption
  <2>3. QED
    BY <2>1, <2>2
<1>2. /\ callStack # <<>> /\ Len(in) - (IF left # 0 THEN 1 ELSE 0) > 0
      /\ received' = r
      /\ obj' = [obj EXCEPT !.incomingPackets = Tail(@), !.isInDataCallback = TRUE]
      /\ callStack' = Append(callStack, "data")
      /\ UNCHANGED <<registry, failures, wires, peer, submitted, sent>>
  BY DEF LoopDelivers, InLoop, MayDeliver, NumComplete
<1>3. /\ in # <<>> /\ rest \in Seq(Sdu) /\ Len(in) \in Nat \ {0} /\ Len(rest) = Len(in) - 1
      /\ x = in[1] /\ x \in Sdu /\ \A i \in 1 .. Len(rest) : rest[i] = in[i + 1]
      /\ left # 0 => Len(rest) # 0
  <2>1. Len(in) \in Nat
    BY <1>1, LenProperties
  <2> HIDE DEF in, left
  <2>2. Len(in) # 0
    BY <1>2, <2>1
  <2>3. in # <<>>
    BY <2>2
  <2>4. /\ rest \in Seq(Sdu) /\ Len(in) \in Nat \ {0} /\ Len(rest) = Len(in) - 1
        /\ x = in[1] /\ x \in Sdu /\ \A i \in 1 .. Len(rest) : rest[i] = in[i + 1]
    BY <1>1, <2>3, TailElements
  <2>5. left # 0 => Len(rest) # 0
    BY <1>2, <2>4
  <2>6. QED
    BY <2>3, <2>4, <2>5
<1>4. /\ r \in Seq(Sdu) /\ Len(received) \in Nat /\ Len(r) = Len(received) + 1
      /\ r[Len(received) + 1] = x /\ \A i \in 1 .. Len(received) : r[i] = received[i]
  BY <1>1, <1>3, AppendElements
<1>5. /\ obj' \in Channel /\ obj'.incomingPackets = rest /\ obj'.sduFramesLeft = left
      /\ obj'.rxCredits = obj.rxCredits /\ obj'.txCredits = obj.txCredits
      /\ obj'.isPaused = obj.isPaused /\ obj'.isActive = obj.isActive
      /\ obj'.isWaitingForDisconnectResponse = obj.isWaitingForDisconnectResponse
      /\ obj'.pending = obj.pending /\ obj'.outgoingPackets = obj.outgoingPackets
      /\ obj'.hasPendingOutgoingPacket = obj.hasPendingOutgoingPacket
  <2>1. obj' = [obj EXCEPT !.incomingPackets = rest, !.isInDataCallback = TRUE]
    BY <1>1, <1>2 DEF Channel
  <2>2. rest \in Seq([sdu : Sdus, frames : 1 .. MaxFrames, total : 1 .. MaxFrames])
    BY <1>3 DEF Sdu
  <2> HIDE DEF rest
  <2>3. QED
    BY <1>1, <2>1, <2>2 DEF Channel
<1> HIDE DEF Channel
<1>6. callStack' \in Seq(Activations) /\ (NoLoop' => NoLoop)
  <2>1. "data" \in Activations
    BY DEF Activations
  <2>2. QED
    BY <1>1, <1>2, <2>1, PushesOther
<1>7. TypeOK'
  <2>1. r \in Seq([sdu : Sdus, frames : 1 .. MaxFrames, total : 1 .. MaxFrames])
    BY <1>4 DEF Sdu
  <2> HIDE DEF r, rest, x, in, left
  <2>2. QED
    BY <1>2, <1>5, <1>6, <2>1 DEF CocInv, TypeOK, Activations
<1> HIDE DEF rest, r, x, left, in
<1>8. /\ \A i \in 1 .. Len(in) :
           /\ in[i].sdu = Len(received) + i
           /\ i < Len(in) \/ left = 0 => in[i].frames = in[i].total
      /\ left # 0 => Len(in) # 0 /\ in[Len(in)].frames + left = in[Len(in)].total
      /\ \A i \in DOMAIN received : received[i].sdu = i /\ received[i].frames = received[i].total
  BY <1>1 DEF BufferedOf, Expects
<1>9. Len(rest) # 0 => rest[Len(rest)] = in[Len(in)] /\ Len(rest) \in 1 .. Len(rest)
  <2>1. Len(rest) # 0 => Len(rest) \in 1 .. Len(rest) /\ Len(rest) + 1 = Len(in)
    BY <1>3
  <2>2. QED
    BY <1>3, <2>1
<1>10. BufferedOf(rest, left, r)
  <2>1. ASSUME NEW i \in 1 .. Len(rest)
        PROVE  /\ rest[i].sdu = Len(r) + i
               /\ i < Len(rest) \/ left = 0 => rest[i].frames = rest[i].total
    <3>1. i + 1 \in 1 .. Len(in) /\ (i < Len(rest) => i + 1 < Len(in)) /\ rest[i] = in[i + 1]
      BY <1>3
    <3>2. in[i + 1].sdu = Len(received) + (i + 1)
          /\ (i + 1 < Len(in) \/ left = 0 => in[i + 1].frames = in[i + 1].total)
      <4> DEFINE j == i + 1
      <4>1. j \in 1 .. Len(in)
        BY <3>1
      <4> HIDE DEF j
      <4>2. in[j].sdu = Len(received) + j /\ (j < Len(in) \/ left = 0 => in[j].frames = in[j].total)
        BY <1>8, <4>1
      <4>3. QED
        BY <4>2 DEF j
    <3>3. Len(received) + (i + 1) = Len(r) + i
      BY <1>4
    <3>4. QED
      BY <3>1, <3>2, <3>3
  <2>2. Expects(rest, left)
    BY <1>3, <1>8, <1>9 DEF Expects
  <2>3. ASSUME NEW i \in DOMAIN r
        PROVE  r[i].sdu = i /\ r[i].frames = r[i].total
    <3>1. i \in 1 .. Len(received) + 1 /\ DOMAIN received = 1 .. Len(received)
      BY <1>1, <1>4, <2>3, LenProperties
    <3>2. CASE i = Len(received) + 1
      <4>1. 1 \in 1 .. Len(in) /\ (1 < Len(in) \/ left = 0)
        BY <1>3
      <4>2. in[1].sdu = Len(received) + 1 /\ in[1].frames = in[1].total
        <5> DEFINE j == 1
        <5>1. j \in 1 .. Len(in) /\ (j < Len(in) \/ left = 0)
          BY <4>1
        <5> HIDE DEF j
        <5>2. in[j].sdu = Len(received) + j /\ in[j].frames = in[j].total
          BY <1>8, <5>1
        <5>3. QED
          BY <5>2 DEF j
      <4>3. QED
        BY <1>3, <1>4, <3>2, <4>2
    <3>3. CASE i # Len(received) + 1
      <4>1. i \in 1 .. Len(received)
        BY <1>4, <3>1, <3>3
      <4>2. QED
        BY <1>4, <1>8, <3>1, <4>1
    <3>4. QED
      BY <3>2, <3>3
  <2>4. QED
    BY <2>1, <2>2, <2>3 DEF BufferedOf
<1>11. Buffered'
  BY <1>2, <1>5, <1>10 DEF Buffered
<1>12. Carries' = Carries
  BY <1>2, <1>5 DEF Carries
<1>13. Streaming'
  <2>1. ASSUME Carries, ~crashed
        PROVE  Streamed(rest, left, r, toLocal, peer)
    <3>1. Streamed(in, left, received, toLocal, peer)
      BY <2>1 DEF CocInv, Streaming, in, left
    <3>2. Len(received) + Len(in) = Len(r) + Len(rest)
      BY <1>3, <1>4
    <3>3. left # 0 => LastTotal(rest) = LastTotal(in)
      BY <1>3, <1>9 DEF LastTotal
    <3>4. PICK P \in [0 .. Len(toLocal) -> Progress] :
            /\ At(P[0], Len(received) + Len(in), LastTotal(in), left)
            /\ \A i \in 1 .. Len(toLocal) : Advances(P[i - 1], P[i], toLocal[i])
            /\ At(P[Len(toLocal)], peer.sdu, peer.total, peer.framesLeft)
      BY <3>1 DEF Streamed
    <3>5. At(P[0], Len(r) + Len(rest), LastTotal(rest), left)
      BY <3>2, <3>3, <3>4 DEF At
    <3>6. QED
      BY <3>4, <3>5 DEF Streamed
  <2>2. Streamed(rest, left, r, toLocal, peer) =>
          Streamed(obj'.incomingPackets, obj'.sduFramesLeft, received', toLocal', peer')
    BY <1>2, <1>5
  <2>3. FramesIn(toLocal)' = FramesIn(toLocal)
    BY <1>2 DEF FramesIn
  <2>4. QED
    BY <1>2, <1>12, <2>1, <2>2, <2>3 DEF CocInv, Streaming
<1>14. /\ FramesIn(toPeer)' = FramesIn(toPeer) /\ CreditsIn(toPeer)' = CreditsIn(toPeer)
       /\ FramesIn(toLocal)' = FramesIn(toLocal) /\ CreditsIn(toLocal)' = CreditsIn(toLocal)
  BY <1>2 DEF FramesIn, CreditsIn
<1>15. Sending' /\ Registered'
  BY <1>2, <1>5, KeepSending, KeepRegistered DEF CocInv
<1>16. Covered' /\ Fed'
  <2>1. Covered'
    BY <1>2, <1>5, <1>12, <1>14, KeepCovered DEF CocInv
  <2>2. Fed'
    BY <1>2, <1>5, <1>6, <1>12, <1>14, KeepFed DEF CocInv
  <2>3. QED
    BY <2>1, <2>2
<1>17. Unused'
  <2>1. peer.state # "none"
    BY <1>2, Established
  <2>2. QED
    BY <1>2, <2>1 DEF Unused
<1>18. QED
  BY <1>7, <1>11, <1>13, <1>15, <1>16, <1>17 DEF CocInv

LEMMA LoopEndsKeeps == CocInv /\ LoopEnds => CocInv'
<1> SUFFICES ASSUME CocInv, LoopEnds
             PROVE  CocInv'
  OBVIOUS
<1> USE DEF registry, failures, historyVars
<1> HIDE DEF Packet, Frame, Peer, NoFrame, Sdus
<1>1. /\ obj \in Channel /\ TypeOK /\ callStack \in Seq(Activations) /\ toPeer \in Seq(Packet)
      /\ peer \in Peer /\ disconnected \in BOOLEAN
      /\ RxGrant \in Nat /\ LowWater \in Nat /\ LowWater < RxGrant /\ obj.rxCredits \in Nat
  <2> HIDE DEF Channel
  <2>1. obj \in Channel
    BY HostTypes DEF CocInv
  <2>2. obj.rxCredits \in 0 .. LowWater + RxGrant
    BY <2>1, ChannelFields
  <2>3. QED
    BY <2>1, <2>2, HostTypes, CocAssumption DEF CocInv
<1>2. /\ callStack # <<>> /\ callStack' = Pop
      /\ IF NeedsCredits
         THEN /\ obj' = [obj EXCEPT !.rxCredits = @ + RxGrant]
              /\ toPeer' = SendPacket(Credits(RxGrant))
         ELSE UNCHANGED <<obj, toPeer>>
      /\ UNCHANGED <<registry, failures, toLocal, peer, historyVars>>
  BY DEF LoopEnds, InLoop
<1>3. callStack' \in Seq(Activations)
  BY <1>1, <1>2, PopProperties DEF Pop
<1>4. /\ obj' \in Channel /\ obj'.txCredits = obj.txCredits
      /\ obj'.incomingPackets = obj.incomingPackets /\ obj'.sduFramesLeft = obj.sduFramesLeft
      /\ obj'.isPaused = obj.isPaused /\ obj'.isActive = obj.isActive
      /\ obj'.isWaitingForDisconnectResponse = obj.isWaitingForDisconnectResponse
      /\ obj'.pending = obj.pending /\ obj'.outgoingPackets = obj.outgoingPackets
      /\ obj'.hasPendingOutgoingPacket = obj.hasPendingOutgoingPacket
      /\ obj'.rxCredits = IF NeedsCredits THEN obj.rxCredits + RxGrant ELSE obj.rxCredits
  <2>1. CASE NeedsCredits
    <3>1. obj.rxCredits + RxGrant \in 0 .. LowWater + RxGrant
      BY <1>1, <2>1 DEF NeedsCredits
    <3>2. obj' = [obj EXCEPT !.rxCredits = obj.rxCredits + RxGrant]
      BY <1>1, <1>2, <2>1 DEF Channel
    <3>3. QED
      BY <1>1, <2>1, <3>1, <3>2 DEF Channel
  <2>2. CASE ~NeedsCredits
    BY <1>1, <1>2, <2>2
  <2>3. QED
    BY <2>1, <2>2
<1> HIDE DEF Channel
<1>5. /\ toPeer' \in Seq(Packet) /\ FramesIn(toPeer)' = FramesIn(toPeer)
      /\ CreditsIn(toPeer)' = IF NeedsCredits THEN CreditsIn(toPeer) + RxGrant ELSE CreditsIn(toPeer)
      /\ disconnected => toPeer' = toPeer
  <2>1. FramesIn(toPeer) \in Nat /\ CreditsIn(toPeer) \in Nat
    BY UnderWay DEF CocInv
  <2>2. CASE NeedsCredits
    <3> DEFINE packet == Credits(RxGrant)
    <3>1. packet \in Packet /\ UnitsOf(packet, "frame") = 0 /\ UnitsOf(packet, "credits") = RxGrant
      BY <1>1, PacketKinds, UnitsOfPackets
    <3>2. toPeer' = Append(toPeer, packet) /\ ~disconnected
      BY <1>2, <2>2 DEF NeedsCredits, SendPacket
    <3> HIDE DEF packet
    <3>3. /\ toPeer' \in Seq(Packet) /\ FramesIn(toPeer)' = FramesIn(toPeer) + 0
          /\ CreditsIn(toPeer)' = CreditsIn(toPeer) + RxGrant
      BY <1>1, <3>1, <3>2, SentTo
    <3>4. QED
      BY <2>1, <2>2, <3>2, <3>3
  <2>3. CASE ~NeedsCredits
    BY <1>1, <1>2, <2>3 DEF FramesIn, CreditsIn
  <2>4. QED
    BY <2>2, <2>3
<1>6. TypeOK'
  BY <1>2, <1>3, <1>4, <1>5 DEF CocInv, TypeOK, Activations
<1>7. Carries' = Carries /\ SameReceived
  BY <1>2, <1>4 DEF Carries, SameReceived
<1>8. Sending' /\ Buffered' /\ Registered'
  BY <1>2, <1>4, KeepSending, KeepBuffered, KeepRegistered DEF CocInv
<1>9. Streaming'
  BY <1>2, <1>5, <1>7, KeepStreaming DEF CocInv
<1>10. FramesIn(toLocal)' = FramesIn(toLocal) /\ CreditsIn(toLocal)' = CreditsIn(toLocal)
  BY <1>2 DEF FramesIn, CreditsIn
<1>11. Covered'
  BY <1>2, <1>4, <1>5, <1>7, <1>10, KeepCovered DEF CocInv
<1>12. Fed'
  <2>1. SUFFICES ASSUME Carries, peer.violations = 0
                 PROVE  /\ obj'.rxCredits = peer.txCredits + FramesIn(toLocal) + CreditsIn(toPeer)'
                        /\ peer.sdu = 0 => obj'.rxCredits = 0 \/ obj'.rxCredits = RxGrant
                        /\ ~obj.isPaused => obj'.rxCredits > LowWater
    BY <1>2, <1>4, <1>7, <1>10 DEF Fed
  <2>2. /\ obj.rxCredits = peer.txCredits + FramesIn(toLocal) + CreditsIn(toPeer)
        /\ peer.sdu = 0 => obj.rxCredits = 0 \/ obj.rxCredits = RxGrant
    BY <2>1 DEF CocInv, Fed
  <2>3. /\ FramesIn(toLocal) \in Nat /\ CreditsIn(toPeer) \in Nat /\ peer.txCredits \in Nat
    BY <1>1, UnderWay, PeerFields DEF CocInv
  <2>4. CASE NeedsCredits
    <3>1. obj.rxCredits <= LowWater /\ obj'.rxCredits = obj.rxCredits + RxGrant
          /\ CreditsIn(toPeer)' = CreditsIn(toPeer) + RxGrant
      BY <1>4, <1>5, <2>4 DEF NeedsCredits
    <3>2. peer.sdu = 0 => obj.rxCredits = 0
      BY <1>1, <2>2, <3>1
    <3>3. QED
      BY <1>1, <2>2, <2>3, <3>1, <3>2
  <2>5. CASE ~NeedsCredits
    <3>1. obj'.rxCredits = obj.rxCredits /\ CreditsIn(toPeer)' = CreditsIn(toPeer)
      BY <1>4, <1>5, <2>5
    <3>2. ~obj.isPaused => ~(obj.rxCredits <= LowWater)
      BY <2>1, <2>5 DEF NeedsCredits, Carries
    <3>3. QED
      BY <1>1, <2>2, <3>1, <3>2
  <2>6. QED
    BY <2>4, <2>5
<1>13. Unused'
  <2>1. peer.state # "none"
    BY <1>2, Established
  <2>2. QED
    BY <1>2, <2>1 DEF Unused
<1>14. QED
  BY <1>6, <1>8, <1>9, <1>11, <1>12, <1>13 DEF CocInv

-----------------------------------------------------------------------------
(* Frames arrive. *)

LEMMA HandleFrameKeeps == CocInv /\ HandleFrame => CocInv'
<1> SUFFICES ASSUME CocInv, HandleFrame
             PROVE  CocInv'
  OBVIOUS
<1> USE DEF registry, historyVars
<1> HIDE DEF Packet, Frame, Peer, NoFrame, Sdus
<1> DEFINE in == obj.incomingPackets
           left == obj.sduFramesLeft
           frame == Head(toLocal).frame
           b == BufferWith(in, left, frame)
           m == LeftWith(left, frame)
<1>1. /\ obj \in Channel /\ TypeOK /\ received \in Seq(Sdu) /\ toLocal \in Seq(Packet)
      /\ BufferedOf(in, left, received) /\ peer \in Peer /\ in \in Seq(Sdu) /\ left \in 0 .. MaxFrames
      /\ obj.rxCredits \in Nat /\ obj.rxCredits \in 0 .. LowWater + RxGrant
  <2> HIDE DEF Channel
  <2>1. obj \in Channel
    BY HostTypes DEF CocInv
  <2>2. obj.rxCredits \in 0 .. LowWater + RxGrant /\ in \in Seq(Sdu) /\ left \in 0 .. MaxFrames
    BY <2>1, ChannelFields
  <2>3. QED
    BY <2>1, <2>2, HostTypes, CocAssumption DEF CocInv, Buffered
<1>2. /\ ~crashed /\ callStack = <<>> /\ toLocal # <<>> /\ Head(toLocal).type = "frame"
      /\ toLocal' = Tail(toLocal)
      /\ UNCHANGED <<registry, disconnected, toPeer, peer, historyVars>>
  BY DEF HandleFrame, EventLoop
<1>3. ~disconnected /\ peer.state # "none"
  BY <1>2, Established DEF CocInv, Streaming
<1>4. /\ toLocal' \in Seq(Packet) /\ Head(toLocal) \in Packet
      /\ FramesIn(toLocal) = FramesIn(toLocal)' + 1 /\ CreditsIn(toLocal)' = CreditsIn(toLocal)
      /\ FramesIn(toLocal)' \in Nat
  <2>1. /\ toLocal' \in Seq(Packet) /\ Head(toLocal) \in Packet
        /\ FramesIn(toLocal) = FramesIn(toLocal)' + UnitsOf(Head(toLocal), "frame")
        /\ CreditsIn(toLocal) = CreditsIn(toLocal)' + UnitsOf(Head(toLocal), "credits")
    BY <1>1, <1>2, HostTakes
  <2>2. UnitsOf(Head(toLocal), "frame") = 1 /\ UnitsOf(Head(toLocal), "credits") = 0
    BY <1>2, <2>1, UnitsOfPackets
  <2>3. FramesIn(toLocal)' \in Nat /\ CreditsIn(toLocal)' \in Nat
    BY <2>1, UnitsFinite DEF FramesIn, CreditsIn
  <2>4. QED
    BY <2>1, <2>2, <2>3
<1>5. FramesIn(toPeer)' = FramesIn(toPeer) /\ CreditsIn(toPeer)' = CreditsIn(toPeer)
  BY <1>2 DEF FramesIn, CreditsIn
<1>6. peer.sdu # 0
  <2>1. FramesIn(toLocal) # 0
    BY <1>4
  <2>2. QED
    BY <2>1 DEF CocInv, Streaming
<1>7. Unused'
  BY <1>2, <1>3 DEF Unused
<1>8. CASE ~obj.isActive \/ obj.rxCredits = 0
  <2> HIDE DEF Channel, in, left, frame, b, m
  <2>1. /\ obj' = obj /\ callStack' = callStack /\ crashed' \in BOOLEAN
        /\ obj.isActive => crashed' = TRUE
    BY <1>1, <1>2, <1>8 DEF HandleFrame, CocInv, TypeOK
  <2>2. TypeOK'
    BY <1>2, <1>4, <2>1 DEF CocInv, TypeOK
  <2>3. Sending' /\ Buffered' /\ Registered'
    BY <1>2, <2>1, KeepSending, KeepBuffered, KeepRegistered DEF CocInv
  <2>4. Streaming'
    <3>1. ~(Carries' /\ ~crashed')
      BY <1>2, <2>1 DEF Carries
    <3>2. QED
      BY <1>2, <1>3, <1>6, <3>1 DEF CocInv, Streaming
  <2>5. Carries' = Carries
    BY <1>2, <2>1 DEF Carries
  <2>6. Covered'
    BY <1>2, <1>4, <1>5, <2>1, <2>5, KeepCovered DEF CocInv
  <2>7. Fed'
    <3>1. ASSUME Carries, peer.violations = 0
          PROVE  FALSE
      <4>1. obj.rxCredits = peer.txCredits + FramesIn(toLocal) + CreditsIn(toPeer)
        BY <3>1 DEF CocInv, Fed
      <4>2. peer.txCredits \in Nat /\ CreditsIn(toPeer) \in Nat
        BY <1>1, UnderWay, PeerFields DEF CocInv
      <4>3. obj.rxCredits = 0
        BY <1>8, <3>1 DEF Carries
      <4>4. QED
        BY <1>4, <4>1, <4>2, <4>3
    <3>2. QED
      BY <1>2, <2>5, <3>1 DEF Fed
  <2>8. QED
    BY <1>7, <2>2, <2>3, <2>4, <2>6, <2>7 DEF CocInv
<1>9. CASE obj.isActive /\ obj.rxCredits # 0
  <2>1. /\ obj' = AddFrame(obj, frame) /\ callStack' = <<"loop">> /\ crashed' = crashed
    BY <1>9 DEF HandleFrame
  <2>2. /\ b \in Seq(Sdu) /\ m \in 0 .. MaxFrames /\ BufferedOf(b, m, received)
        /\ Streamed(b, m, received, Tail(toLocal), peer)
    <3>1. Streamed(in, left, received, toLocal, peer)
      BY <1>2, <1>3, <1>9 DEF CocInv, Streaming, Carries
    <3> HIDE DEF in, left
    <3>2. QED
      BY <1>1, <1>2, <3>1, StreamReceive
  <2>3. obj.rxCredits - 1 \in 0 .. LowWater + RxGrant /\ obj.rxCredits - 1 \in Nat
    <3> DEFINE c == obj.rxCredits
               max == LowWater + RxGrant
    <3>1. c \in Nat /\ c # 0 /\ max \in Nat /\ c \in 0 .. max
      BY <1>1, <1>9, CocAssumption
    <3> HIDE DEF c, max
    <3>2. c - 1 \in 0 .. max /\ c - 1 \in Nat
      BY <3>1
    <3>3. QED
      BY <3>2 DEF c, max
  <2>4. /\ obj' \in Channel /\ obj'.txCredits = obj.txCredits /\ obj'.rxCredits = obj.rxCredits - 1
        /\ obj'.incomingPackets = b /\ obj'.sduFramesLeft = m
        /\ obj'.isPaused = obj.isPaused /\ obj'.isActive = obj.isActive
        /\ obj'.isWaitingForDisconnectResponse = obj.isWaitingForDisconnectResponse
        /\ obj'.pending = obj.pending /\ obj'.outgoingPackets = obj.outgoingPackets
        /\ obj'.hasPendingOutgoingPacket = obj.hasPendingOutgoingPacket
    <3>1. obj' = [obj EXCEPT !.rxCredits = obj.rxCredits - 1, !.sduFramesLeft = m, !.incomingPackets = b]
      <4>1. CASE left = 0
        BY <1>1, <2>1, <4>1 DEF AddFrame, BufferWith, LeftWith, Channel
      <4>2. CASE left # 0
        <5> DEFINE begun == [in EXCEPT ![Len(in)].frames = @ + 1]
        <5>1. b = begun /\ m = left - 1
          BY <4>2 DEF BufferWith, LeftWith
        <5>2. obj' = [obj EXCEPT !.rxCredits = @ - 1, !.sduFramesLeft = left - 1,
                                 !.incomingPackets = begun]
          BY <1>1, <2>1, <4>2 DEF AddFrame, Channel
        <5> HIDE DEF begun, b, m
        <5>3. QED
          BY <1>1, <5>1, <5>2 DEF Channel
      <4>3. QED
        BY <4>1, <4>2
    <3>2. b \in Seq([sdu : Sdus, frames : 1 .. MaxFrames, total : 1 .. MaxFrames])
      BY <2>2 DEF Sdu
    <3> HIDE DEF b, m
    <3>3. QED
      BY <1>1, <2>2, <2>3, <3>1, <3>2 DEF Channel
  <2> HIDE DEF Channel, in, left, frame, b, m
  <2>5. <<"loop">> \in Seq(Activations) /\ ~NoLoop'
    <3>1. <<"loop">> \in Seq(Activations)
      BY DEF Activations
    <3>2. 1 \in 1 .. Len(callStack') /\ callStack'[1] = "loop"
      BY <2>1
    <3>3. QED
      BY <3>1, <3>2 DEF NoLoop
  <2>6. TypeOK'
    BY <1>2, <1>4, <2>1, <2>4, <2>5 DEF CocInv, TypeOK, Activations
  <2>7. Carries' = Carries
    BY <1>2, <2>4 DEF Carries
  <2>8. Sending' /\ Registered'
    BY <1>2, <2>4, KeepSending, KeepRegistered DEF CocInv
  <2>9. Buffered'
    BY <1>2, <2>2, <2>4 DEF Buffered
  <2>10. Streaming'
    BY <1>2, <1>3, <1>6, <2>2, <2>4 DEF CocInv, Streaming
  <2>11. Covered'
    BY <1>2, <1>4, <1>5, <2>4, <2>7, KeepCovered DEF CocInv
  <2>12. Fed'
    <3>1. SUFFICES ASSUME Carries, peer.violations = 0
                   PROVE  obj'.rxCredits = peer.txCredits + FramesIn(toLocal)' + CreditsIn(toPeer)
      BY <1>2, <1>5, <1>6, <2>5, <2>7 DEF Fed
    <3>2. obj.rxCredits = peer.txCredits + FramesIn(toLocal) + CreditsIn(toPeer)
      BY <3>1 DEF CocInv, Fed
    <3>3. peer.txCredits \in Nat /\ CreditsIn(toPeer) \in Nat
      BY <1>1, UnderWay, PeerFields DEF CocInv
    <3>4. QED
      BY <1>4, <2>4, <3>2, <3>3
  <2>13. QED
    BY <1>7, <2>6, <2>8, <2>9, <2>10, <2>11, <2>12 DEF CocInv
<1>10. QED
  BY <1>8, <1>9

-----------------------------------------------------------------------------
(* The channel is established. *)

LEMMA EmptyWire ==
  \A type : Cardinality(Units(<<>>, type)) = 0
<1>1. \A type : Units(<<>>, type) = {}
  BY DEF Units
<1>2. QED
  BY <1>1, FS_EmptySet

\* A peer with these values.
PeerWith(tx, rx, sdu, total, left, grants, violations, state) ==
  [txCredits |-> tx, rxCredits |-> rx, sdu |-> sdu, total |-> total, framesLeft |-> left,
   grants |-> grants, violations |-> violations, state |-> state]
IsPeerWith(p, tx, rx, sdu, total, left, grants, violations, state) ==
  /\ p.txCredits = tx /\ p.rxCredits = rx /\ p.sdu = sdu /\ p.total = total
  /\ p.framesLeft = left /\ p.grants = grants /\ p.violations = violations /\ p.state = state

LEMMA PeerBuilt ==
  ASSUME NEW tx \in Nat, NEW rx \in Nat, NEW sdu \in 0 .. MaxSdus,
         NEW total \in 0 .. MaxFrames, NEW left \in 0 .. MaxFrames, NEW grants \in 0 .. MaxGrants,
         NEW violations \in 0 .. MaxViolations, NEW state \in {"none", "open", "closing", "closed"}
  PROVE  /\ PeerWith(tx, rx, sdu, total, left, grants, violations, state) \in Peer
         /\ IsPeerWith(PeerWith(tx, rx, sdu, total, left, grants, violations, state),
                       tx, rx, sdu, total, left, grants, violations, state)
BY DEF Peer, PeerWith, IsPeerWith

LEMMA EstablishKeeps ==
  ASSUME CocInv, NEW initiator \in Initiators, NEW paused \in BOOLEAN, Establish(initiator, paused)
  PROVE  CocInv'
<1> USE DEF failures, wires, historyVars
<1> HIDE DEF Packet, Frame, NoFrame, Sdus
<1> DEFINE credits == IF paused THEN 0 ELSE RxGrant
<1>1. obj \in Channel /\ peer \in Peer /\ TypeOK /\ Registered /\ obj.sduFramesLeft \in 0 .. MaxFrames
  <2> HIDE DEF Channel, Peer
  <2>1. QED
    BY HostTypes, ChannelFields DEF CocInv
<1>2. /\ ~disconnected /\ peer.state = "none"
      /\ inCocMap' = TRUE /\ inTxCidToRxCid' = EntersTxCid(initiator) /\ numCoc' = numCoc + 1
      /\ obj' = [obj EXCEPT !.isActive = TRUE, !.txCredits = InitialTxCredits, !.rxCredits = credits]
      /\ peer' = [peer EXCEPT !.state = "open", !.txCredits = credits, !.rxCredits = InitialTxCredits]
      /\ UNCHANGED <<requestPending, failures, callStack, wires, historyVars>>
  BY DEF Establish
<1>3. /\ ~inCocMap /\ toPeer = <<>> /\ toLocal = <<>> /\ obj.incomingPackets = <<>>
      /\ obj.sduFramesLeft = 0 /\ received = <<>> /\ peer.sdu = 0 /\ peer.framesLeft = 0
  BY <1>2 DEF CocInv, Unused
<1>4. /\ credits \in Nat /\ credits \in 0 .. LowWater + RxGrant /\ InitialTxCredits \in Nat
      /\ credits = 0 \/ (credits = RxGrant /\ credits > LowWater)
  BY CocAssumption
<1> HIDE DEF credits
<1>5. /\ obj' \in Channel /\ obj'.txCredits = InitialTxCredits /\ obj'.rxCredits = credits
      /\ obj'.incomingPackets = obj.incomingPackets /\ obj'.sduFramesLeft = obj.sduFramesLeft
      /\ obj'.isActive = TRUE
      /\ obj'.isWaitingForDisconnectResponse = obj.isWaitingForDisconnectResponse
      /\ obj'.pending = obj.pending /\ obj'.outgoingPackets = obj.outgoingPackets
      /\ obj'.hasPendingOutgoingPacket = obj.hasPendingOutgoingPacket
  BY <1>1, <1>2, <1>4 DEF Channel
<1>6. /\ peer' \in Peer /\ peer'.state = "open" /\ peer'.txCredits = credits
      /\ peer'.rxCredits = InitialTxCredits /\ peer'.sdu = peer.sdu /\ peer'.total = peer.total
      /\ peer'.framesLeft = peer.framesLeft /\ peer'.violations = peer.violations
      /\ peer.total \in Nat
  <2>1. /\ peer.sdu \in 0 .. MaxSdus /\ peer.total \in 0 .. MaxFrames
        /\ peer.framesLeft \in 0 .. MaxFrames /\ peer.grants \in 0 .. MaxGrants
        /\ peer.violations \in 0 .. MaxViolations /\ peer.total \in Nat
    <3> HIDE DEF Peer
    <3>1. QED
      BY <1>1, PeerFields
  <2> DEFINE q == PeerWith(credits, InitialTxCredits, peer.sdu, peer.total, peer.framesLeft,
                           peer.grants, peer.violations, "open")
  <2>2. peer' = q
    BY <1>1, <1>2 DEF Peer, PeerWith
  <2> HIDE DEF Peer
  <2>3. /\ q \in Peer
        /\ IsPeerWith(q, credits, InitialTxCredits, peer.sdu, peer.total, peer.framesLeft,
                      peer.grants, peer.violations, "open")
    BY <1>4, <2>1, PeerBuilt
  <2> HIDE DEF q
  <2>4. QED
    BY <2>1, <2>2, <2>3 DEF IsPeerWith
<1> HIDE DEF Channel, Peer
<1>7. numCoc = 0 /\ ~obj.isWaitingForDisconnectResponse
  BY <1>1, <1>3 DEF Registered, ReleasedOnce
<1>8. TypeOK'
  BY <1>2, <1>5, <1>6, <1>7 DEF CocInv, TypeOK, EntersTxCid
<1>9. Registered'
  BY <1>2, <1>5, <1>7 DEF Registered, ReleasedOnce
<1>10. Sending' /\ Buffered'
  BY <1>2, <1>5, KeepSending, KeepBuffered DEF CocInv
<1>11. /\ FramesIn(toPeer)' = 0 /\ CreditsIn(toPeer)' = 0
       /\ FramesIn(toLocal)' = 0 /\ CreditsIn(toLocal)' = 0
  BY <1>2, <1>3, EmptyWire DEF FramesIn, CreditsIn
<1>12. Streamed(<<>>, 0, <<>>, <<>>, peer')
  <2> DEFINE start == [sdu |-> 0, total |-> 0, left |-> 0]
             P == [i \in 0 .. 0 |-> start]
  <2>1. start \in Progress /\ start.sdu = 0 /\ start.left = 0
    BY DEF Progress
  <2>2. Len(<<>>) = 0
    OBVIOUS
  <2>3. P \in [0 .. Len(<<>>) -> Progress] /\ P[0] = start /\ P[Len(<<>>)] = start
    <3> HIDE DEF start
    <3>1. QED
      BY <2>1, <2>2
  <2> HIDE DEF P
  <2>4. At(P[0], Len(<<>>) + Len(<<>>), LastTotal(<<>>), 0)
    BY <2>1, <2>2, <2>3 DEF At
  <2>5. At(P[Len(<<>>)], peer'.sdu, peer'.total, peer'.framesLeft)
    BY <1>3, <1>6, <2>1, <2>3 DEF At
  <2>6. \A i \in 1 .. Len(<<>>) : Advances(P[i - 1], P[i], <<>>[i])
    BY <2>2
  <2>7. QED
    BY <2>3, <2>4, <2>5, <2>6 DEF Streamed
<1>13. Streaming'
  <2>1. peer'.framesLeft <= peer'.total /\ peer'.framesLeft = 0
    BY <1>3, <1>6
  <2>2. Streamed(obj'.incomingPackets, obj'.sduFramesLeft, received', toLocal', peer')
    BY <1>2, <1>3, <1>5, <1>12
  <2>3. QED
    BY <1>2, <1>3, <1>11, <2>1, <2>2 DEF Streaming
<1>14. Covered'
  BY <1>4, <1>5, <1>6, <1>11 DEF Covered
<1>15. Fed'
  <2>1. obj'.rxCredits = peer'.txCredits + FramesIn(toLocal)' + CreditsIn(toPeer)'
    BY <1>4, <1>5, <1>6, <1>11
  <2>2. /\ peer'.sdu = 0 /\ (obj'.rxCredits = 0 \/ obj'.rxCredits = RxGrant)
        /\ obj'.rxCredits > LowWater \/ obj'.rxCredits = 0
    BY <1>3, <1>4, <1>5, <1>6
  <2>3. QED
    BY <2>1, <2>2 DEF Fed
<1>16. Unused'
  BY <1>6 DEF Unused
<1>17. QED
  BY <1>8, <1>9, <1>10, <1>13, <1>14, <1>15, <1>16 DEF CocInv

-----------------------------------------------------------------------------
(* The peer. *)

\* A packet of the peer that is not a frame.
LEMMA PeerStreaming ==
  ASSUME CocInv, UNCHANGED hostVars, ~disconnected, NEW packet \in Packet, packet.type # "frame",
         toLocal' = Append(toLocal, packet), received' = received,
         peer'.sdu = peer.sdu, peer'.total = peer.total, peer'.framesLeft = peer.framesLeft
  PROVE  Streaming'
<1> USE DEF hostVars, failures
<1> HIDE DEF Packet
<1>1. toLocal \in Seq(Packet) /\ peer \in Peer
  BY HostTypes DEF CocInv
<1>2. FramesIn(toLocal)' = FramesIn(toLocal)
  <2>1. FramesIn(toLocal)' = FramesIn(toLocal) + UnitsOf(packet, "frame")
    BY <1>1, SentBack
  <2>2. UnitsOf(packet, "frame") = 0 /\ FramesIn(toLocal) \in Nat
    BY UnitsOfPackets, UnderWay DEF CocInv
  <2>3. QED
    BY <2>1, <2>2
<1>3. ASSUME Streamed(obj.incomingPackets, obj.sduFramesLeft, received, toLocal, peer)
      PROVE  Streamed(obj.incomingPackets, obj.sduFramesLeft, received, Append(toLocal, packet), peer')
  <2> DEFINE to == [sdu |-> peer.sdu, total |-> peer.total, left |-> peer.framesLeft]
  <2>1. to \in Progress /\ to.sdu = peer.sdu /\ to.total = peer.total /\ to.left = peer.framesLeft
    <3> HIDE DEF Peer
    <3>1. peer.sdu \in Nat /\ peer.total \in Nat /\ peer.framesLeft \in Nat
      BY <1>1, PeerFields
    <3>2. QED
      BY <3>1 DEF Progress
  <2> HIDE DEF to
  <2>2. At(to, peer'.sdu, peer'.total, peer'.framesLeft)
    BY <2>1 DEF At
  <2>3. \A from \in Progress : At(from, peer.sdu, peer.total, peer.framesLeft) =>
          \/ Advances(from, to, packet)
          \/ packet.type # "frame" /\ At(from, peer'.sdu, peer'.total, peer'.framesLeft)
    OBVIOUS
  <2>4. QED
    BY <1>1, <1>3, <2>1, <2>2, <2>3, StreamAppend
<1>4. Carries' = Carries
  BY DEF Carries
<1>5. Streaming
  BY DEF CocInv
<1>6. QED
  BY <1>2, <1>3, <1>4, <1>5 DEF Streaming

\* A step of the peer leaves the host's own parts of the invariant alone.
LEMMA PeerStepKeeps ==
  ASSUME CocInv, UNCHANGED <<hostVars, historyVars>>, peer.state # "none", peer'.state # "none"
  PROVE  /\ Unused' /\ Registered' /\ Sending' /\ Buffered' /\ Carries' = Carries
         /\ (NoLoop' <=> NoLoop)
<1> USE DEF hostVars, registry, failures, historyVars
<1>1. Registered' /\ Sending' /\ Buffered'
  BY KeepRegistered, KeepSending, KeepBuffered DEF CocInv
<1>2. Unused'
  BY DEF Unused
<1>3. Carries' = Carries /\ (NoLoop' <=> NoLoop)
  BY DEF Carries, NoLoop
<1>4. QED
  BY <1>1, <1>2, <1>3

LEMMA PeerGrantsKeeps == CocInv /\ PeerGrants => CocInv'
<1> SUFFICES ASSUME CocInv, PeerGrants
             PROVE  CocInv'
  OBVIOUS
<1> USE DEF hostVars, registry, failures, historyVars
<1> HIDE DEF Packet, Frame, NoFrame, Sdus, Channel
<1> DEFINE packet == Credits(1)
<1>1. peer \in Peer /\ TypeOK /\ toLocal \in Seq(Packet) /\ obj \in Channel
  <2> HIDE DEF Peer
  <2>1. QED
    BY HostTypes DEF CocInv
<1>2. /\ peer.state = "open" /\ peer.grants < MaxGrants /\ ~disconnected
      /\ toLocal' = Append(toLocal, packet)
      /\ peer' = [peer EXCEPT !.grants = @ + 1, !.rxCredits = @ + 1]
      /\ UNCHANGED <<hostVars, toPeer, historyVars>>
  BY DEF PeerGrants, PeerSends
<1>3. /\ packet \in Packet /\ packet.type # "frame"
      /\ UnitsOf(packet, "frame") = 0 /\ UnitsOf(packet, "credits") = 1
  BY PacketKinds, UnitsOfPackets
<1> HIDE DEF packet
<1>4. /\ peer' \in Peer /\ peer'.rxCredits = peer.rxCredits + 1 /\ peer'.txCredits = peer.txCredits
      /\ peer'.sdu = peer.sdu /\ peer'.total = peer.total /\ peer'.framesLeft = peer.framesLeft
      /\ peer'.violations = peer.violations /\ peer'.state = "open" /\ peer.rxCredits \in Nat
  <2> DEFINE rx == peer.rxCredits + 1
             grants == peer.grants + 1
  <2>1. /\ peer.txCredits \in Nat /\ peer.sdu \in 0 .. MaxSdus /\ peer.total \in 0 .. MaxFrames
        /\ peer.framesLeft \in 0 .. MaxFrames /\ peer.violations \in 0 .. MaxViolations
        /\ peer.rxCredits \in Nat /\ peer.grants \in 0 .. MaxGrants
    <3> HIDE DEF Peer
    <3>1. QED
      BY <1>1, PeerFields
  <2>2. rx \in Nat /\ grants \in 0 .. MaxGrants
    <3> DEFINE g == peer.grants
    <3>1. g \in 0 .. MaxGrants /\ g < MaxGrants /\ MaxGrants \in Nat /\ rx \in Nat
      BY <1>2, <2>1, CocAssumption
    <3> HIDE DEF g, rx
    <3>2. g + 1 \in 0 .. MaxGrants
      BY <3>1
    <3>3. QED
      BY <3>1, <3>2 DEF g
  <2>3. peer' = [peer EXCEPT !.rxCredits = rx, !.grants = grants]
    BY <1>1, <1>2 DEF Peer
  <2> HIDE DEF rx, grants
  <2> DEFINE q == PeerWith(peer.txCredits, rx, peer.sdu, peer.total, peer.framesLeft, grants,
                           peer.violations, "open")
  <2>4. peer' = q
    BY <1>1, <1>2, <2>3 DEF Peer, PeerWith
  <2> HIDE DEF Peer
  <2>5. /\ q \in Peer
        /\ IsPeerWith(q, peer.txCredits, rx, peer.sdu, peer.total, peer.framesLeft, grants,
                      peer.violations, "open")
    BY <2>1, <2>2, PeerBuilt
  <2> HIDE DEF q
  <2>6. QED
    BY <2>1, <2>4, <2>5 DEF IsPeerWith, rx
<1> HIDE DEF Peer
<1>5. /\ Unused' /\ Registered' /\ Sending' /\ Buffered' /\ Carries' = Carries
      /\ (NoLoop' <=> NoLoop)
  BY <1>2, <1>4, PeerStepKeeps
<1>6. Streaming'
  BY <1>2, <1>3, <1>4, PeerStreaming
<1>7. /\ toLocal' \in Seq(Packet) /\ FramesIn(toLocal)' = FramesIn(toLocal) + 0
      /\ CreditsIn(toLocal)' = CreditsIn(toLocal) + 1
  BY <1>1, <1>2, <1>3, SentBack
<1>8. /\ FramesIn(toPeer) \in Nat /\ FramesIn(toLocal) \in Nat /\ CreditsIn(toLocal) \in Nat
      /\ obj.txCredits \in Nat
  BY <1>1, UnderWay, ChannelFields
<1>9. FramesIn(toPeer)' = FramesIn(toPeer) /\ CreditsIn(toPeer)' = CreditsIn(toPeer)
  BY <1>2 DEF FramesIn, CreditsIn
<1>10. TypeOK'
  BY <1>2, <1>4, <1>7 DEF CocInv, TypeOK
<1>11. Covered'
  <2>1. FramesIn(toPeer) <= peer.rxCredits
        /\ (Carries => obj.txCredits + FramesIn(toPeer) + CreditsIn(toLocal) <= peer.rxCredits)
    BY DEF CocInv, Covered
  <2>2. obj'.txCredits = obj.txCredits
    BY <1>2
  <2>3. FramesIn(toPeer)' <= peer'.rxCredits
        /\ (Carries => obj'.txCredits + FramesIn(toPeer)' + CreditsIn(toLocal)' <= peer'.rxCredits)
    BY <1>4, <1>7, <1>8, <1>9, <2>1, <2>2
  <2>4. QED
    BY <1>5, <2>3 DEF Covered
<1>12. Fed'
  <2>1. FramesIn(toLocal)' = FramesIn(toLocal)
    BY <1>7, <1>8
  <2>2. obj' = obj
    BY <1>2
  <2>3. QED
    BY <1>4, <1>5, <1>9, <2>1, <2>2, KeepFed DEF CocInv
<1>13. QED
  BY <1>5, <1>6, <1>10, <1>11, <1>12 DEF CocInv

LEMMA PeerDisconnectsKeeps == CocInv /\ PeerDisconnects => CocInv'
<1> SUFFICES ASSUME CocInv, PeerDisconnects
             PROVE  CocInv'
  OBVIOUS
<1> USE DEF hostVars, registry, failures, historyVars
<1> HIDE DEF Packet, Frame, NoFrame, Sdus, Channel
<1> DEFINE packet == Signal("disconnectionRequest")
           q == PeerWith(peer.txCredits, peer.rxCredits, peer.sdu, peer.total, peer.framesLeft,
                         peer.grants, peer.violations, "closing")
<1>1. peer \in Peer /\ TypeOK /\ toLocal \in Seq(Packet)
  <2> HIDE DEF Peer
  <2>1. QED
    BY HostTypes DEF CocInv
<1>2. /\ peer.state = "open" /\ ~disconnected /\ toLocal' = Append(toLocal, packet)
      /\ peer' = [peer EXCEPT !.state = "closing"]
      /\ UNCHANGED <<hostVars, toPeer, historyVars>>
  BY DEF PeerDisconnects, PeerSends
<1>3. peer' = q
  BY <1>1, <1>2 DEF Peer, PeerWith
<1>4. /\ packet \in Packet /\ packet.type # "frame"
      /\ UnitsOf(packet, "frame") = 0 /\ UnitsOf(packet, "credits") = 0
  BY PacketKinds, UnitsOfPackets
<1> HIDE DEF packet, Peer
<1>5. /\ q \in Peer
      /\ IsPeerWith(q, peer.txCredits, peer.rxCredits, peer.sdu, peer.total, peer.framesLeft,
                    peer.grants, peer.violations, "closing")
  BY <1>1, PeerFields, PeerBuilt
<1> HIDE DEF q
<1>6. /\ peer' \in Peer /\ peer'.txCredits = peer.txCredits /\ peer'.rxCredits = peer.rxCredits
      /\ peer'.sdu = peer.sdu /\ peer'.total = peer.total /\ peer'.framesLeft = peer.framesLeft
      /\ peer'.violations = peer.violations /\ peer'.state = "closing"
  BY <1>3, <1>5 DEF IsPeerWith
<1>7. /\ Unused' /\ Registered' /\ Sending' /\ Buffered' /\ Carries' = Carries
      /\ (NoLoop' <=> NoLoop)
  BY <1>2, <1>6, PeerStepKeeps
<1>8. Streaming'
  BY <1>2, <1>4, <1>6, PeerStreaming
<1>9. /\ toLocal' \in Seq(Packet)
      /\ FramesIn(toLocal)' = FramesIn(toLocal) /\ CreditsIn(toLocal)' = CreditsIn(toLocal)
  <2>1. /\ toLocal' \in Seq(Packet) /\ FramesIn(toLocal)' = FramesIn(toLocal) + 0
        /\ CreditsIn(toLocal)' = CreditsIn(toLocal) + 0
    BY <1>1, <1>2, <1>4, SentBack
  <2>2. FramesIn(toLocal) \in Nat /\ CreditsIn(toLocal) \in Nat
    BY <1>1, UnderWay
  <2>3. QED
    BY <2>1, <2>2
<1>10. FramesIn(toPeer)' = FramesIn(toPeer) /\ CreditsIn(toPeer)' = CreditsIn(toPeer)
  BY <1>2 DEF FramesIn, CreditsIn
<1>11. TypeOK'
  BY <1>2, <1>6, <1>9 DEF CocInv, TypeOK
<1>12. obj' = obj
  BY <1>2
<1>13. Covered'
  BY <1>6, <1>7, <1>9, <1>10, <1>12, KeepCovered DEF CocInv
<1>14. Fed'
  BY <1>6, <1>7, <1>9, <1>10, <1>12, KeepFed DEF CocInv
<1>15. QED
  BY <1>7, <1>8, <1>11, <1>13, <1>14 DEF CocInv

LEMMA PeerReceivesKeeps == CocInv /\ PeerReceives => CocInv'
<1> SUFFICES ASSUME CocInv, PeerReceives
             PROVE  CocInv'
  OBVIOUS
<1> USE DEF hostVars, registry, failures, historyVars
<1> HIDE DEF Packet, Frame, NoFrame, Sdus, Channel
<1> DEFINE packet == Head(toPeer)
<1>1. peer \in Peer /\ TypeOK /\ toPeer \in Seq(Packet) /\ toLocal \in Seq(Packet) /\ obj \in Channel
  <2> HIDE DEF Peer
  <2>1. QED
    BY HostTypes DEF CocInv
<1>2. /\ ~disconnected /\ toPeer # <<>> /\ toPeer' = Tail(toPeer)
      /\ UNCHANGED <<hostVars, historyVars>>
  BY DEF PeerReceives
<1>3. /\ toPeer' \in Seq(Packet) /\ packet \in Packet
      /\ FramesIn(toPeer) = FramesIn(toPeer)' + UnitsOf(packet, "frame")
      /\ CreditsIn(toPeer) = CreditsIn(toPeer)' + UnitsOf(packet, "credits")
  BY <1>1, <1>2, PeerTakes
<1>4. /\ FramesIn(toPeer)' \in Nat /\ CreditsIn(toPeer)' \in Nat
      /\ FramesIn(toLocal) \in Nat /\ CreditsIn(toLocal) \in Nat
      /\ obj.txCredits \in Nat /\ peer.txCredits \in Nat /\ peer.rxCredits \in Nat
  <2> HIDE DEF Peer
  <2>1. FramesIn(toPeer)' \in Nat /\ CreditsIn(toPeer)' \in Nat
    BY <1>3, UnitsFinite DEF FramesIn, CreditsIn
  <2>2. QED
    BY <1>1, <2>1, UnderWay, ChannelFields, PeerFields
<1>5. peer.state # "none" /\ obj' = obj
  BY <1>2 DEF CocInv, Unused
<1>6. /\ FramesIn(toPeer)' <= FramesIn(toPeer) /\ FramesIn(toPeer) <= peer.rxCredits
      /\ Carries => obj.txCredits + FramesIn(toPeer) + CreditsIn(toLocal) <= peer.rxCredits
      /\ Carries /\ peer.violations = 0 =>
           obj.rxCredits = peer.txCredits + FramesIn(toLocal) + CreditsIn(toPeer)
  <2>1. UnitsOf(packet, "frame") \in Nat
    BY <1>3, UnitsOfPackets
  <2>2. FramesIn(toPeer)' <= FramesIn(toPeer)
    BY <1>3, <1>4, <2>1
  <2>3. QED
    BY <2>2 DEF CocInv, Covered, Fed
\* The balances of the peer, its state and what comes back, in each case.
<1>7. ASSUME NEW tx \in Nat, NEW rx \in Nat, NEW state \in {"open", "closing", "closed"},
             peer' = [peer EXCEPT !.txCredits = tx, !.rxCredits = rx, !.state = state],
             toLocal' = toLocal
               \/ \E p \in Packet : /\ p.type # "frame" /\ toLocal' = Append(toLocal, p)
                                    /\ UnitsOf(p, "frame") = 0 /\ UnitsOf(p, "credits") = 0,
             tx + CreditsIn(toPeer)' = peer.txCredits + CreditsIn(toPeer),
             rx + FramesIn(toPeer) = peer.rxCredits + FramesIn(toPeer)'
      PROVE  CocInv'
  <2> DEFINE q == PeerWith(tx, rx, peer.sdu, peer.total, peer.framesLeft,
                           peer.grants, peer.violations, state)
  <2>1. peer' = q
    BY <1>1, <1>7 DEF Peer, PeerWith
  <2> HIDE DEF Peer
  <2>2. /\ q \in Peer
        /\ IsPeerWith(q, tx, rx, peer.sdu, peer.total, peer.framesLeft,
                      peer.grants, peer.violations, state)
    <3>1. /\ peer.sdu \in 0 .. MaxSdus /\ peer.total \in 0 .. MaxFrames
          /\ peer.framesLeft \in 0 .. MaxFrames /\ peer.grants \in 0 .. MaxGrants
          /\ peer.violations \in 0 .. MaxViolations
      BY <1>1, PeerFields
    <3>2. state \in {"none", "open", "closing", "closed"}
      OBVIOUS
    <3>3. QED
      BY <3>1, <3>2, PeerBuilt
  <2> HIDE DEF q, packet
  <2>3. /\ peer' \in Peer /\ peer'.txCredits = tx /\ peer'.rxCredits = rx
        /\ peer'.sdu = peer.sdu /\ peer'.total = peer.total /\ peer'.framesLeft = peer.framesLeft
        /\ peer'.violations = peer.violations /\ peer'.state # "none"
    BY <1>7, <2>1, <2>2 DEF IsPeerWith
  <2>4. /\ Unused' /\ Registered' /\ Sending' /\ Buffered' /\ Carries' = Carries
        /\ (NoLoop' <=> NoLoop)
    BY <1>2, <1>5, <2>3, PeerStepKeeps
  <2>5. /\ Streaming' /\ toLocal' \in Seq(Packet)
        /\ FramesIn(toLocal)' = FramesIn(toLocal) /\ CreditsIn(toLocal)' = CreditsIn(toLocal)
    <3>1. CASE toLocal' = toLocal
      <4>1. FramesIn(toLocal)' = FramesIn(toLocal) /\ CreditsIn(toLocal)' = CreditsIn(toLocal)
        BY <3>1 DEF FramesIn, CreditsIn
      <4>2. Streaming'
        BY <1>2, <1>5, <2>3, <2>4, <3>1, KeepStreaming DEF CocInv, SameReceived
      <4>3. QED
        BY <1>1, <3>1, <4>1, <4>2
    <3>2. CASE toLocal' # toLocal
      <4>1. PICK p \in Packet : /\ p.type # "frame" /\ toLocal' = Append(toLocal, p)
                                /\ UnitsOf(p, "frame") = 0 /\ UnitsOf(p, "credits") = 0
        BY <1>7, <3>2
      <4>2. /\ toLocal' \in Seq(Packet) /\ FramesIn(toLocal)' = FramesIn(toLocal) + 0
            /\ CreditsIn(toLocal)' = CreditsIn(toLocal) + 0
        BY <1>1, <4>1, SentBack
      <4>3. Streaming'
        BY <1>2, <2>3, <4>1, PeerStreaming
      <4>4. QED
        BY <1>4, <4>2, <4>3
    <3>3. QED
      BY <3>1, <3>2
  <2>6. TypeOK'
    BY <1>2, <1>3, <2>3, <2>5 DEF CocInv, TypeOK
  <2>7. Covered'
    <3> DEFINE f == FramesIn(toPeer)
               g == FramesIn(toPeer)'
               c == CreditsIn(toLocal)
               r == peer.rxCredits
               t == obj.txCredits
    <3>1. f \in Nat /\ g \in Nat /\ c \in Nat /\ r \in Nat /\ t \in Nat /\ g <= f /\ f <= r
          /\ rx + f = r + g /\ (Carries => t + f + c <= r)
      <4>1. f \in Nat
        BY <1>1, UnderWay
      <4>2. QED
        BY <1>4, <1>6, <1>7, <4>1
    <3> HIDE DEF f, g, c, r, t
    <3>2. g <= rx /\ (Carries => t + g + c <= rx)
      BY <1>7, <3>1
    <3>3. QED
      BY <1>5, <2>3, <2>4, <2>5, <3>2 DEF Covered, f, g, c, r, t
  <2>8. Fed'
    <3>1. Carries /\ peer.violations = 0 =>
            obj.rxCredits = tx + FramesIn(toLocal) + CreditsIn(toPeer)'
      <4> DEFINE f == FramesIn(toLocal)
                 c == CreditsIn(toPeer)
                 d == CreditsIn(toPeer)'
                 t == peer.txCredits
      <4>1. f \in Nat /\ c \in Nat /\ d \in Nat /\ t \in Nat /\ tx + d = t + c
        BY <1>1, <1>4, <1>7, UnderWay
      <4>2. Carries /\ peer.violations = 0 => obj.rxCredits = t + f + c
        BY <1>6
      <4> HIDE DEF f, c, d, t
      <4>3. Carries /\ peer.violations = 0 => obj.rxCredits = tx + f + d
        BY <1>7, <4>1, <4>2
      <4>4. QED
        BY <4>3 DEF f, d
    <3>2. Fed
      BY DEF CocInv
    <3>3. QED
      BY <1>5, <2>3, <2>4, <2>5, <3>1, <3>2 DEF Fed
  <2>9. QED
    BY <2>4, <2>5, <2>6, <2>7, <2>8 DEF CocInv
<1>8. /\ packet.type \in {"frame", "credits", "disconnectionRequest", "disconnectionResponse", "reject"}
      /\ UnitsOf(packet, "frame") = IF packet.type = "frame" THEN 1 ELSE 0
      /\ UnitsOf(packet, "credits") = IF packet.type = "credits" THEN packet.credits ELSE 0
      /\ packet.type = "credits" => packet.credits \in Nat
      /\ peer.state \in {"open", "closing", "closed"}
  <2> HIDE DEF Peer, packet
  <2>1. peer.state \in {"open", "closing", "closed"}
    BY <1>1, <1>5, PeerFields
  <2>2. QED
    BY <1>3, <2>1, PacketKinds, UnitsOfPackets
<1>9. CASE packet.type = "frame"
  <2>1. peer' = [peer EXCEPT !.rxCredits = @ - 1] /\ toLocal' = toLocal
    BY <1>9 DEF PeerReceives
  <2> DEFINE rx == peer.rxCredits - 1
  <2>2. /\ rx \in Nat /\ rx + FramesIn(toPeer) = peer.rxCredits + FramesIn(toPeer)'
        /\ CreditsIn(toPeer)' = CreditsIn(toPeer)
    <3> HIDE DEF Peer, packet
    <3>1. FramesIn(toPeer) = FramesIn(toPeer)' + 1 /\ CreditsIn(toPeer) = CreditsIn(toPeer)' + 0
      BY <1>3, <1>8, <1>9
    <3>2. QED
      BY <1>4, <1>6, <3>1
  <2>3. peer' = [peer EXCEPT !.txCredits = peer.txCredits, !.rxCredits = rx, !.state = peer.state]
    <3>1. peer' = [peer EXCEPT !.rxCredits = rx]
      BY <1>1, <2>1 DEF Peer
    <3> HIDE DEF rx
    <3>2. QED
      BY <1>1, <3>1 DEF Peer
  <2> HIDE DEF rx, Peer, packet
  <2>4. QED
    BY <1>4, <1>7, <1>8, <2>1, <2>2, <2>3
<1>10. CASE packet.type = "credits"
  <2>1. peer' = [peer EXCEPT !.txCredits = @ + packet.credits] /\ toLocal' = toLocal
    BY <1>10 DEF PeerReceives
  <2> DEFINE tx == peer.txCredits + packet.credits
  <2>2. /\ tx \in Nat /\ tx + CreditsIn(toPeer)' = peer.txCredits + CreditsIn(toPeer)
        /\ FramesIn(toPeer)' = FramesIn(toPeer)
    <3> HIDE DEF Peer, packet
    <3>1. /\ FramesIn(toPeer) = FramesIn(toPeer)' + 0
          /\ CreditsIn(toPeer) = CreditsIn(toPeer)' + packet.credits
          /\ packet.credits \in Nat
      BY <1>3, <1>8, <1>10
    <3>2. QED
      BY <1>4, <3>1
  <2>3. peer' = [peer EXCEPT !.txCredits = tx, !.rxCredits = peer.rxCredits, !.state = peer.state]
    <3>1. peer' = [peer EXCEPT !.txCredits = tx]
      BY <1>1, <2>1 DEF Peer
    <3> HIDE DEF tx
    <3>2. QED
      BY <1>1, <3>1 DEF Peer
  <2> HIDE DEF tx, Peer, packet
  <2>4. QED
    BY <1>4, <1>7, <1>8, <2>1, <2>2, <2>3
<1>11. CASE packet.type \in {"disconnectionRequest", "disconnectionResponse", "reject"}
  <2>1. peer' = [peer EXCEPT !.state = "closed"]
    BY <1>11 DEF PeerReceives
  <2>2. peer' = [peer EXCEPT !.txCredits = peer.txCredits, !.rxCredits = peer.rxCredits,
                             !.state = "closed"]
    BY <1>1, <2>1 DEF Peer
  <2>3. \/ toLocal' = toLocal
        \/ \E p \in Packet : /\ p.type # "frame" /\ toLocal' = Append(toLocal, p)
                             /\ UnitsOf(p, "frame") = 0 /\ UnitsOf(p, "credits") = 0
    <3>1. CASE packet.type = "disconnectionRequest"
      <4> DEFINE reply == Signal(IF peer.state = "closed" THEN "reject" ELSE "disconnectionResponse")
      <4>1. toLocal' = Append(toLocal, reply)
        BY <3>1 DEF PeerReceives
      <4>2. /\ reply \in Packet /\ reply.type # "frame"
            /\ UnitsOf(reply, "frame") = 0 /\ UnitsOf(reply, "credits") = 0
        BY PacketKinds, UnitsOfPackets
      <4> HIDE DEF reply
      <4>3. QED
        BY <4>1, <4>2
    <3>2. CASE packet.type \in {"disconnectionResponse", "reject"}
      BY <3>2 DEF PeerReceives
    <3>3. QED
      BY <1>11, <3>1, <3>2
  <2> HIDE DEF Peer, packet
  <2>4. FramesIn(toPeer)' = FramesIn(toPeer) /\ CreditsIn(toPeer)' = CreditsIn(toPeer)
    <3>1. FramesIn(toPeer) = FramesIn(toPeer)' + 0 /\ CreditsIn(toPeer) = CreditsIn(toPeer)' + 0
      BY <1>3, <1>8, <1>11
    <3>2. QED
      BY <1>4, <3>1
  <2>5. QED
    BY <1>4, <1>7, <2>2, <2>3, <2>4
<1>12. QED
  BY <1>8, <1>9, <1>10, <1>11

\* The next frame of a peer, and what is left of its SDU after it.
LEMMA NextFrameFields ==
  ASSUME NEW n \in 1 .. MaxFrames, peer \in Peer,
         peer.framesLeft = 0 => peer.sdu < MaxSdus,
         peer.framesLeft # 0 => n = peer.total /\ peer.sdu # 0 /\ peer.framesLeft <= peer.total
  PROVE  /\ NextFrame(n) \in Frame /\ NextFrame(n).total = n
         /\ n - NextFrame(n).index \in 0 .. MaxFrames /\ n - NextFrame(n).index \in Nat
         /\ n - NextFrame(n).index <= n
         /\ NextFrame(n).sdu \in 0 .. MaxSdus /\ NextFrame(n).sdu \in Nat /\ NextFrame(n).sdu # 0
         /\ peer.framesLeft = 0 => NextFrame(n).sdu = peer.sdu + 1 /\ NextFrame(n).index = 1
         /\ peer.framesLeft # 0 =>
              /\ NextFrame(n).sdu = peer.sdu
              /\ NextFrame(n).index = peer.total - peer.framesLeft + 1
<1> DEFINE s == peer.sdu
           l == peer.framesLeft
           t == peer.total
<1>1. /\ s \in 0 .. MaxSdus /\ l \in 0 .. MaxFrames /\ t \in 0 .. MaxFrames
      /\ MaxSdus \in Nat /\ MaxFrames \in Nat
  <2> HIDE DEF Peer
  <2>1. QED
    BY PeerFields, CocAssumption
<1>2. CASE l = 0
  <2> DEFINE s1 == s + 1
             m == n - 1
  <2>1. NextFrame(n) = [sdu |-> s1, index |-> 1, total |-> n]
    BY <1>2 DEF NextFrame
  <2>2. s < MaxSdus
    BY <1>2
  <2> HIDE DEF s, l, t
  <2>3. s1 \in 1 .. MaxSdus /\ s1 \in 0 .. MaxSdus /\ s1 \in Nat /\ s1 # 0
        /\ m \in 0 .. MaxFrames /\ m \in Nat /\ m <= n /\ 1 \in 1 .. MaxFrames
    BY <1>1, <2>2
  <2>4. NextFrame(n).sdu = s1 /\ NextFrame(n).index = 1 /\ NextFrame(n).total = n
    BY <2>1
  <2> HIDE DEF s1
  <2>5. NextFrame(n) \in Frame
    BY <2>1, <2>3 DEF Frame, Sdus
  <2> HIDE DEF Frame
  <2>6. n - NextFrame(n).index = m
    BY <2>4
  <2> HIDE DEF m
  <2>7. QED
    BY <1>2, <2>3, <2>4, <2>5, <2>6 DEF s1, s, l, t
<1>3. CASE l # 0
  <2> DEFINE i == t - l + 1
             m == n - i
  <2>1. NextFrame(n) = [sdu |-> s, index |-> i, total |-> t]
    BY <1>3 DEF NextFrame
  <2>2. n = t /\ s # 0 /\ l <= t
    BY <1>3
  <2> HIDE DEF s, l, t
  <2>3. s \in 1 .. MaxSdus /\ s \in Nat /\ i \in 1 .. MaxFrames /\ i \in Nat
        /\ t \in 1 .. MaxFrames /\ m \in 0 .. MaxFrames /\ m \in Nat /\ m <= n
    BY <1>1, <1>3, <2>2
  <2>4. NextFrame(n).sdu = s /\ NextFrame(n).index = i /\ NextFrame(n).total = t
    BY <2>1
  <2> HIDE DEF i
  <2>5. NextFrame(n) \in Frame
    BY <2>1, <2>3 DEF Frame, Sdus
  <2> HIDE DEF Frame
  <2>6. n - NextFrame(n).index = m
    BY <2>4
  <2> HIDE DEF m
  <2>7. QED
    BY <1>1, <1>3, <2>2, <2>3, <2>4, <2>5, <2>6 DEF i, s, l, t
<1>4. QED
  BY <1>2, <1>3

LEMMA PeerSendsFrameKeeps ==
  ASSUME CocInv, NEW n \in 1 .. MaxFrames, PeerSendsFrame(n)
  PROVE  CocInv'
<1> USE DEF hostVars, registry, failures, historyVars
<1> HIDE DEF Packet, Frame, NoFrame, Sdus, Channel
<1> DEFINE frame == NextFrame(n)
           packet == FramePacket(frame)
           left == n - frame.index
           tx == IF peer.txCredits = 0 THEN 0 ELSE peer.txCredits - 1
           violations == IF peer.txCredits = 0 THEN peer.violations + 1 ELSE peer.violations
           q == PeerWith(tx, peer.rxCredits, frame.sdu, n, left, peer.grants, violations, "open")
<1>1. peer \in Peer /\ TypeOK /\ toLocal \in Seq(Packet) /\ obj \in Channel
  <2> HIDE DEF Peer
  <2>1. QED
    BY HostTypes DEF CocInv
<1>2. /\ peer.state = "open" /\ ~disconnected /\ toLocal' = Append(toLocal, packet)
      /\ peer.framesLeft = 0 => peer.sdu < MaxSdus
      /\ peer.framesLeft # 0 => n = peer.total
      /\ peer.txCredits > 0 \/ peer.violations < MaxViolations
      /\ UNCHANGED <<hostVars, toPeer, historyVars>>
  BY DEF PeerSendsFrame, PeerSends
<1>3. peer' = [peer EXCEPT !.sdu = frame.sdu, !.total = n, !.framesLeft = left,
                           !.txCredits = tx, !.violations = violations]
  <2>1. peer' = [peer EXCEPT !.sdu = frame.sdu, !.total = n, !.framesLeft = left,
                             !.txCredits = IF @ = 0 THEN 0 ELSE @ - 1,
                             !.violations = IF peer.txCredits = 0 THEN @ + 1 ELSE @]
    BY DEF PeerSendsFrame, PeerSends
  <2> HIDE DEF frame, left
  <2>2. QED
    BY <1>1, <2>1 DEF Peer
<1>4. /\ frame \in Frame /\ frame.total = n /\ left \in 0 .. MaxFrames /\ left \in Nat /\ left <= n
      /\ frame.sdu \in 0 .. MaxSdus /\ frame.sdu \in Nat /\ frame.sdu # 0
      /\ peer.framesLeft = 0 => frame.sdu = peer.sdu + 1 /\ frame.index = 1
      /\ peer.framesLeft # 0 =>
           frame.sdu = peer.sdu /\ frame.index = peer.total - peer.framesLeft + 1
  <2> HIDE DEF Peer
  <2>1. peer.framesLeft # 0 => n = peer.total /\ peer.sdu # 0 /\ peer.framesLeft <= peer.total
    BY <1>2 DEF CocInv, Streaming
  <2>2. QED
    BY <1>1, <1>2, <2>1, NextFrameFields
<1>5. /\ peer.txCredits \in Nat /\ peer.rxCredits \in Nat /\ peer.violations \in 0 .. MaxViolations
      /\ peer.violations \in Nat /\ peer.grants \in 0 .. MaxGrants /\ peer.sdu \in Nat
      /\ peer.total \in Nat /\ peer.framesLeft \in Nat /\ n \in 0 .. MaxFrames /\ n \in Nat
  <2> HIDE DEF Peer
  <2>1. QED
    BY <1>1, PeerFields, CocAssumption
<1>6. tx \in Nat /\ violations \in 0 .. MaxViolations
  <2> DEFINE v == peer.violations
             c == peer.txCredits
  <2>1. v \in 0 .. MaxViolations /\ c \in Nat /\ (c > 0 \/ v < MaxViolations) /\ MaxViolations \in Nat
    BY <1>2, <1>5, CocAssumption
  <2> HIDE DEF v, c
  <2>2. /\ (IF c = 0 THEN 0 ELSE c - 1) \in Nat
        /\ (IF c = 0 THEN v + 1 ELSE v) \in 0 .. MaxViolations
    BY <2>1
  <2>3. QED
    BY <2>2 DEF v, c
<1>7. violations = 0 => peer.violations = 0 /\ peer.txCredits # 0 /\ tx + 1 = peer.txCredits
  BY <1>5
<1> HIDE DEF left, frame, tx, violations
<1>8. peer' = q
  <2>1. peer.state = "open"
    BY <1>2
  <2>2. QED
    BY <1>1, <1>3, <2>1 DEF Peer, PeerWith
<1> HIDE DEF Peer
<1>9. /\ q \in Peer
      /\ IsPeerWith(q, tx, peer.rxCredits, frame.sdu, n, left, peer.grants, violations, "open")
  BY <1>2, <1>4, <1>5, <1>6, PeerBuilt
<1> HIDE DEF q
<1>10. /\ peer' \in Peer /\ peer'.txCredits = tx /\ peer'.rxCredits = peer.rxCredits
       /\ peer'.sdu = frame.sdu /\ peer'.total = n /\ peer'.framesLeft = left
       /\ peer'.violations = violations /\ peer'.state = "open"
  BY <1>2, <1>8, <1>9 DEF IsPeerWith
<1>11. /\ packet \in Packet /\ packet.type = "frame" /\ packet.frame = frame
       /\ UnitsOf(packet, "frame") = 1 /\ UnitsOf(packet, "credits") = 0
  BY <1>4, PacketKinds, UnitsOfPackets
<1> HIDE DEF packet
<1>12. /\ Unused' /\ Registered' /\ Sending' /\ Buffered' /\ Carries' = Carries
       /\ (NoLoop' <=> NoLoop)
  BY <1>2, <1>10, PeerStepKeeps
<1>13. /\ toLocal' \in Seq(Packet)
       /\ FramesIn(toLocal)' = FramesIn(toLocal) + 1 /\ CreditsIn(toLocal)' = CreditsIn(toLocal)
       /\ FramesIn(toLocal) \in Nat /\ CreditsIn(toPeer) \in Nat
  <2>1. /\ toLocal' \in Seq(Packet) /\ FramesIn(toLocal)' = FramesIn(toLocal) + 1
        /\ CreditsIn(toLocal)' = CreditsIn(toLocal) + 0
    BY <1>1, <1>2, <1>11, SentBack
  <2>2. /\ FramesIn(toLocal) \in Nat /\ CreditsIn(toLocal) \in Nat /\ CreditsIn(toPeer) \in Nat
    BY <1>1, UnderWay
  <2>3. QED
    BY <2>1, <2>2
<1>14. FramesIn(toPeer)' = FramesIn(toPeer) /\ CreditsIn(toPeer)' = CreditsIn(toPeer)
  BY <1>2 DEF FramesIn, CreditsIn
<1>15. TypeOK'
  BY <1>2, <1>10, <1>13 DEF CocInv, TypeOK
<1>16. obj' = obj
  BY <1>2
<1>17. Covered'
  BY <1>10, <1>12, <1>13, <1>14, <1>16, KeepCovered DEF CocInv
<1>18. ASSUME Streamed(obj.incomingPackets, obj.sduFramesLeft, received, toLocal, peer)
       PROVE  Streamed(obj.incomingPackets, obj.sduFramesLeft, received, Append(toLocal, packet), peer')
  <2> DEFINE to == [sdu |-> frame.sdu, total |-> n, left |-> left]
  <2>1. to \in Progress /\ to.sdu = frame.sdu /\ to.total = n /\ to.left = left
    BY <1>4, <1>5 DEF Progress
  <2> HIDE DEF to
  <2>2. At(to, peer'.sdu, peer'.total, peer'.framesLeft)
    BY <1>10, <2>1 DEF At
  <2>3. ASSUME NEW from \in Progress, At(from, peer.sdu, peer.total, peer.framesLeft)
        PROVE  Advances(from, to, packet)
    <3>1. /\ from.sdu = peer.sdu /\ from.left = peer.framesLeft
          /\ from.left # 0 => from.total = peer.total
      BY <2>3 DEF At
    <3>2. Continues(from, frame)
      <4>1. from.left # 0 => frame.total = from.total
        BY <1>2, <1>4, <3>1
      <4>2. QED
        BY <1>4, <3>1, <4>1 DEF Continues
    <3>3. to.left = frame.total - frame.index
      BY <1>4, <2>1 DEF left
    <3>4. QED
      BY <1>4, <1>11, <2>1, <3>2, <3>3 DEF Advances
  <2>4. QED
    BY <1>1, <1>11, <1>18, <2>1, <2>2, <2>3, StreamAppend
<1>19. Streaming'
  <2>1. peer'.framesLeft <= peer'.total /\ peer'.sdu # 0
    BY <1>4, <1>10
  <2>2. QED
    BY <1>2, <1>12, <1>18, <2>1 DEF CocInv, Streaming
<1>20. Fed'
  <2>1. SUFFICES ASSUME Carries, violations = 0
                 PROVE  /\ obj.rxCredits = tx + FramesIn(toLocal)' + CreditsIn(toPeer)
                        /\ NoLoop /\ ~obj.isPaused => obj.rxCredits > LowWater
    BY <1>4, <1>10, <1>12, <1>14, <1>16 DEF Fed
  <2>2. peer.violations = 0 /\ peer.txCredits # 0 /\ tx + 1 = peer.txCredits
    BY <1>7, <2>1
  <2>3. /\ obj.rxCredits = peer.txCredits + FramesIn(toLocal) + CreditsIn(toPeer)
        /\ NoLoop /\ ~obj.isPaused => obj.rxCredits > LowWater \/ obj.rxCredits = 0
    BY <2>1, <2>2 DEF CocInv, Fed
  <2>4. obj.rxCredits = tx + (FramesIn(toLocal) + 1) + CreditsIn(toPeer) /\ obj.rxCredits # 0
    <3> DEFINE f == FramesIn(toLocal)
               c == CreditsIn(toPeer)
               t == peer.txCredits
    <3>1. f \in Nat /\ c \in Nat /\ tx \in Nat /\ t = tx + 1 /\ obj.rxCredits = t + f + c
      BY <1>5, <1>6, <1>13, <2>2, <2>3
    <3> HIDE DEF f, c, t
    <3>2. obj.rxCredits = tx + (f + 1) + c /\ obj.rxCredits # 0
      BY <3>1
    <3>3. QED
      BY <3>2 DEF f, c
  <2>5. QED
    BY <1>13, <2>3, <2>4
<1>21. QED
  BY <1>12, <1>15, <1>17, <1>19, <1>20 DEF CocInv

-----------------------------------------------------------------------------
(* The theorems. *)

LEMMA InitCoc == Init => CocInv
<1> SUFFICES ASSUME Init
             PROVE  CocInv
  OBVIOUS
<1> HIDE DEF Packet, Sdus
<1>1. /\ callStack = <<>> /\ toPeer = <<>> /\ toLocal = <<>> /\ sent = <<>> /\ received = <<>>
      /\ ~inCocMap /\ ~inTxCidToRxCid /\ numCoc = 0 /\ ~requestPending /\ ~disconnected /\ ~crashed
      /\ inCocMap \in BOOLEAN /\ inTxCidToRxCid \in BOOLEAN /\ numCoc \in {0, 1}
      /\ requestPending \in BOOLEAN /\ disconnected \in BOOLEAN /\ crashed \in BOOLEAN
      /\ submitted = 0
  BY DEF Init
<1>2. /\ obj \in Channel /\ obj.txCredits = 0 /\ obj.rxCredits = 0 /\ obj.incomingPackets = <<>>
      /\ obj.sduFramesLeft = 0 /\ ~obj.isActive /\ ~obj.hasPendingOutgoingPacket
      /\ obj.outgoingPackets = <<>> /\ ~obj.isWaitingForDisconnectResponse
  <2>1. 0 \in 0 .. LowWater + RxGrant /\ 0 \in 0 .. MaxFrames /\ 0 \in Nat
    BY CocAssumption
  <2>2. NoFrame \in Frame \cup {NoFrame} /\ <<>> \in Seq(Frame)
        /\ <<>> \in Seq([sdu : Sdus, frames : 1 .. MaxFrames, total : 1 .. MaxFrames])
    OBVIOUS
  <2> HIDE DEF Frame, NoFrame
  <2>3. QED
    BY <2>1, <2>2 DEF Init, Channel
<1>3. peer \in Peer /\ IsPeerWith(peer, 0, 0, 0, 0, 0, 0, 0, "none")
  <2>1. peer = PeerWith(0, 0, 0, 0, 0, 0, 0, "none")
    BY DEF Init, PeerWith
  <2>2. 0 \in 0 .. MaxSdus /\ 0 \in 0 .. MaxFrames /\ 0 \in 0 .. MaxGrants /\ 0 \in 0 .. MaxViolations
    BY CocAssumption
  <2>3. QED
    BY <2>1, <2>2, PeerBuilt
<1> HIDE DEF Channel, Peer
<1>4. 0 \in 0 .. MaxSdus
  BY CocAssumption
<1>5. TypeOK
  BY <1>1, <1>2, <1>3, <1>4 DEF TypeOK
<1>6. Unused /\ Registered
  BY <1>1, <1>2, <1>3 DEF Unused, Registered, ReleasedOnce, IsPeerWith
<1>7. Len(<<>>) = 0 /\ 1 .. 0 = {} /\ 1 .. 0 - 1 = {} /\ DOMAIN <<>> = {}
  OBVIOUS
<1>8. Sending
  BY <1>1, <1>2, <1>7 DEF Sending, SendingOf
<1>9. Buffered
  BY <1>1, <1>2, <1>7 DEF Buffered, BufferedOf, Expects
<1>10. FramesIn(toLocal) = 0 /\ FramesIn(toPeer) = 0
  BY <1>1, EmptyWire DEF FramesIn
<1>11. ~Carries
  BY <1>2 DEF Carries
<1>12. Streaming /\ Covered /\ Fed
  BY <1>1, <1>3, <1>10, <1>11 DEF Streaming, Covered, Fed, IsPeerWith
<1>13. QED
  BY <1>5, <1>6, <1>8, <1>9, <1>12 DEF CocInv

LEMMA NextKeeps == CocInv /\ [Next]_vars => CocInv'
<1> SUFFICES ASSUME CocInv, [Next]_vars
             PROVE  CocInv'
  OBVIOUS
<1>1. CASE HostEvent
  BY <1>1, FrameWrittenKeeps, HandleCreditsKeeps, HandleFrameKeeps,
     HandleDisconnectionRequestKeeps, HandleDisconnectionResponseKeeps DEF HostEvent
<1>2. CASE HostContinues
  BY <1>2, SenderResumesKeeps, LoopDeliversKeeps, DataCallbackReturnsKeeps, LoopEndsKeeps
     DEF HostContinues
<1>3. CASE Application
  BY <1>3, EstablishKeeps, SendKeeps, PauseKeeps, ResumeKeeps, DisconnectKeeps DEF Application
<1>4. CASE PeerStep
  BY <1>4, PeerSendsFrameKeeps, PeerGrantsKeeps, PeerDisconnectsKeeps, PeerReceivesKeeps DEF PeerStep
<1>5. CASE UNCHANGED vars
  <2>1. FramesIn(toLocal)' = FramesIn(toLocal) /\ CreditsIn(toLocal)' = CreditsIn(toLocal)
        /\ FramesIn(toPeer)' = FramesIn(toPeer) /\ CreditsIn(toPeer)' = CreditsIn(toPeer)
    BY <1>5 DEF vars, wires, FramesIn, CreditsIn
  <2> USE DEF vars, hostVars, registry, failures, wires, historyVars
  <2>2. TypeOK'
    BY <1>5 DEF CocInv, TypeOK
  <2>3. Unused' /\ Registered' /\ Sending' /\ Buffered'
    BY <1>5, KeepRegistered, KeepSending, KeepBuffered DEF CocInv, Unused
  <2>4. Carries' = Carries /\ (NoLoop' <=> NoLoop)
    BY <1>5 DEF Carries, NoLoop
  <2>5. Streaming'
    BY <1>5, <2>4, KeepStreaming DEF CocInv, SameReceived
  <2>6. Covered' /\ Fed'
    BY <1>5, <2>1, <2>4, KeepCovered, KeepFed DEF CocInv
  <2>7. QED
    BY <2>2, <2>3, <2>5, <2>6 DEF CocInv
<1>6. QED
  BY <1>1, <1>2, <1>3, <1>4, <1>5, DisconnectTimesOutKeeps, LinkDownKeeps DEF Next

\* Every state of the channel, whatever the grants, the limits and the number of SDUs, is
\* well formed and its parts agree as CocInv says: what the handlers of lib/ble-manager.js
\* may take for granted about the channel object when they run.
THEOREM ChannelInvariant == Spec => []CocInv
<1>1. QED
  BY InitCoc, NextKeeps, PTL DEF Spec

\* However the requests, responses and timeouts of both ends cross, the channel is counted in
\* numCoc exactly while it is in cocMap (disconnectCoc and its answers, the disconnection
\* requests of the peer).
THEOREM ChannelReleasedOnce == Spec => []ReleasedOnce
<1>1. CocInv => ReleasedOnce
  BY DEF CocInv, Registered
<1>2. QED
  BY <1>1, ChannelInvariant, PTL

\* SDUs reach the 'data' listeners whole, once and in order, and the sentCallbacks are called
\* in the order of the SDUs, whatever listeners and callbacks do to the channel meanwhile
\* (handleCocIncomingPackets, triggerCocSend).
THEOREM ChannelSdusInOrder == Spec => []SdusInOrder
<1>1. CocInv => SdusInOrder
  BY DEF CocInv, Buffered, BufferedOf, Sending, SendingOf, SdusInOrder, SdusReceivedInOrder,
         SentCallbacksInOrder
<1>2. QED
  BY <1>1, ChannelInvariant, PTL

\* No balance is negative, the channel never uses a credit it was not given, a peer that keeps
\* the rules is not found to break them, and it has more than LowWater credits whenever the
\* host is back in its event loop (the credits of the handlers of lib/ble-manager.js).
THEOREM ChannelCreditsAgree == Spec => []CreditsAgree
<1>1. CocInv => CreditsAgree
  <2> SUFFICES ASSUME CocInv
               PROVE  CreditsAgree
    OBVIOUS
  <2>1. TypeOK /\ Covered /\ Fed
    BY DEF CocInv
  <2>2. InUse => Carries
    BY DEF InUse, Carries
  <2>3. TxCreditsWithinGrant
    BY <2>1, <2>2 DEF TxCreditsWithinGrant, Covered
  <2>4. RxCreditsAgree
    BY <2>1, <2>2 DEF RxCreditsAgree, Fed
  <2>5. callStack = <<>> => NoLoop
    BY DEF NoLoop
  <2>6. PeerNotStarved
    BY <2>1, <2>2, <2>5 DEF PeerNotStarved, Fed
  <2>7. QED
    BY <2>1, <2>3, <2>4, <2>6 DEF CreditsAgree
<1>2. QED
  BY <1>1, ChannelInvariant, PTL

-----------------------------------------------------------------------------
(* The GATT client: no pieces of a write are left behind at the server.     *)

\* What is asked for a write, and with what state.
WriteState ==
  Asking({"write"}) =>
    /\ {"step", "left", "success"} \subseteq DOMAIN current.state
    \* A write of one request is begun outside reliable writes, so nothing waits.
    /\ current.state.step = "write" => ~inReliableWrite /\ ~staged
    \* A long write remembers that it has left a piece.
    /\ current.state.step = "piece" /\ staged /\ ~inReliableWrite => current.state.success

StagedInv == WriteState /\ StagedOnlyInReliable

\* A procedure that begins while no pieces wait for a write's execution.
LEMMA BegunStaged ==
  ASSUME NEW op, ~Asking({"write"}), StagedInv, Begin(op), staged' = staged
  PROVE  StagedInv'
<1>1. staged => inReliableWrite
  BY DEF StagedInv, StagedOnlyInReliable
<1>2. CASE op.kind = "discover" /\ BeginDiscovery(op) /\ UNCHANGED <<inReliableWrite, gen, fresh>>
  <2>1. current'.op = op
    BY <1>2 DEF BeginDiscovery, Return, Ask
  <2>2. QED
    BY <1>1, <1>2, <2>1 DEF StagedInv, WriteState, StagedOnlyInReliable, Asking
<1>3. CASE op.kind \in {"chars", "includes"} /\ BeginDetails(op) /\ UNCHANGED <<cache, inReliableWrite, gen, fresh>>
  <2>1. current'.op = op
    BY <1>3 DEF BeginDetails, Return, Ask
  <2>2. QED
    BY <1>1, <1>3, <2>1 DEF StagedInv, WriteState, StagedOnlyInReliable, Asking
<1>4. CASE op.kind = "invalidate" /\ BeginInvalidation(op) /\ UNCHANGED inReliableWrite
  <2>1. current'.op = op
    BY <1>4 DEF BeginInvalidation, Quietly, Throw
  <2>2. QED
    BY <1>1, <1>4, <2>1 DEF StagedInv, WriteState, StagedOnlyInReliable, Asking
<1>5. CASE op.kind = "begin" /\ inReliableWrite' = TRUE /\ Quietly(op) /\ UNCHANGED <<cache, gen, fresh>>
  BY <1>5 DEF StagedInv, WriteState, StagedOnlyInReliable, Asking, Quietly
<1>6. CASE op.kind = "readByUuid" /\ Throw(op) /\ UNCHANGED <<cache, inReliableWrite, gen, fresh>>
  BY <1>1, <1>6 DEF StagedInv, WriteState, StagedOnlyInReliable, Asking, Throw
<1>7. CASE /\ op.kind = "write" /\ UNCHANGED <<cache, inReliableWrite, gen, fresh>>
           /\ Ask(op, [step |-> IF op.parts = 0 /\ ~inReliableWrite THEN "write" ELSE "piece",
                      left |-> Max({1, op.parts}), success |-> FALSE])
  <2>1. /\ {"step", "left", "success"} \subseteq DOMAIN current'.state
        /\ current'.state.step = "write" => ~inReliableWrite
    BY <1>7 DEF Ask
  <2>2. QED
    BY <1>1, <1>7, <2>1 DEF StagedInv, WriteState, StagedOnlyInReliable
<1>8. CASE op.kind \in {"commit", "cancel"} /\ Ask(op, [step |-> "execute"]) /\ UNCHANGED <<cache, inReliableWrite, gen, fresh>>
  <2>1. current'.op = op
    BY <1>8 DEF Ask
  <2>2. QED
    BY <1>1, <1>8, <2>1 DEF StagedInv, WriteState, StagedOnlyInReliable, Asking
<1>9. QED
  BY <1>2, <1>3, <1>4, <1>5, <1>6, <1>7, <1>8 DEF Begin

\* What neither the procedure under way nor the pieces depend on.
LEMMA UntouchedStaged ==
  ASSUME StagedInv, UNCHANGED <<current, inReliableWrite, staged>>
  PROVE  StagedInv'
BY DEF StagedInv, WriteState, StagedOnlyInReliable, Asking

LEMMA EnqueuedStaged ==
  ASSUME NEW op, NEW c, StagedInv, EnqueueWith(op, c), staged' = staged
  PROVE  StagedInv'
<1>1. CASE current = Idle
  <2>1. ~Asking({"write"}) /\ Begin(op)
    BY <1>1 DEF Asking, EnqueueWith, Idle
  <2>2. QED
    BY <2>1, BegunStaged
<1>2. CASE current # Idle
  <2>1. UNCHANGED <<current, inReliableWrite, staged>>
    BY <1>2 DEF EnqueueWith
  <2>2. QED
    BY <2>1, UntouchedStaged
<1>3. QED
  BY <1>1, <1>2

\* A call of a user: it is answered at once or queued.
LEMMA UserStaged ==
  ASSUME StagedInv, User
  PROVE  StagedInv'
<1>1. staged' = staged
  BY DEF User, DiscoverPrimaryServices, DiscoverDetails, InvalidateServices, ReadUsingCharacteristicUuid, Write,
         ReliableWrite, Call
<1>2. ASSUME NEW u, NEW n, DiscoverPrimaryServices(u, n)
      PROVE  StagedInv'
  <2> DEFINE asked == [kind |-> "discover", uuid |-> u, num |-> n]
  <2>1. CASE \E op, what : AtOnce(op, what)
    BY <1>1, <2>1, UntouchedStaged DEF AtOnce
  <2>2. CASE EnqueueWith(asked, Asked(cache, u))
    BY <1>1, <2>2, EnqueuedStaged
  <2>3. QED
    BY <1>2, <2>1, <2>2 DEF DiscoverPrimaryServices
<1>3. ASSUME NEW kind, NEW s, DiscoverDetails(kind, s)
      PROVE  StagedInv'
  <2> DEFINE asked == [kind |-> kind, obj |-> [gen |-> gen, start |-> s.start, end |-> s.end]]
  <2>1. CASE \E op, what : AtOnce(op, what)
    BY <1>1, <2>1, UntouchedStaged DEF AtOnce
  <2>2. CASE EnqueueWith(asked, cache)
    BY <1>1, <2>2, EnqueuedStaged
  <2>3. QED
    BY <1>3, <2>1, <2>2 DEF DiscoverDetails, EnqueueRequest
<1>4. CASE \E op : EnqueueWith(op, cache)
  BY <1>1, <1>4, EnqueuedStaged
<1>5. (\E range \in Invalidations : InvalidateServices(range)) => \E op : EnqueueWith(op, cache)
  BY DEF InvalidateServices, EnqueueRequest
<1>6. ReadUsingCharacteristicUuid => \E op : EnqueueWith(op, cache)
  BY DEF ReadUsingCharacteristicUuid, EnqueueRequest
<1>7. (\E parts \in 0 .. 2 : Write(parts)) => \E op : EnqueueWith(op, cache)
  BY DEF Write, EnqueueRequest
<1>8. (\E kind \in {"begin", "commit", "cancel"} : ReliableWrite(kind)) => \E op : EnqueueWith(op, cache)
  BY DEF ReliableWrite, EnqueueRequest
<1>9. QED
  BY <1>2, <1>3, <1>4, <1>5, <1>6, <1>7, <1>8 DEF User

\* The answers of a discovery are no answers to a write.
LEMMA DiscoveredStaged ==
  ASSUME StagedInv, ServicesFound \/ CharacteristicsFound \/ IncludesFound
  PROVE  StagedInv'
<1>1. ~Asking({"write"}) /\ UNCHANGED <<inReliableWrite, staged>>
  BY Zenon DEF ServicesFound, CharacteristicsFound, IncludesFound, Asking
<1>2. current'.op = current.op
  <2>1. CASE ServicesFound
    <3>1. \/ \E st : Ask(current.op, st)
          \/ \E what : Return(current.op, what)
      BY <2>1, Zenon DEF ServicesFound
    <3>2. QED
      BY <3>1 DEF Ask, Return
  <2>2. CASE CharacteristicsFound
    <3>1. \/ \E st : Ask(current.op, st)
          \/ \E what : Return(current.op, what)
      BY <2>2, Zenon DEF CharacteristicsFound
    <3>2. QED
      BY <3>1 DEF Ask, Return
  <2>3. CASE IncludesFound
    <3>1. \/ \E st : Ask(current.op, st)
          \/ \E what : Return(current.op, what)
      BY <2>3, Zenon DEF IncludesFound
    <3>2. QED
      BY <3>1 DEF Ask, Return
  <2>4. QED
    BY <2>1, <2>2, <2>3
<1>3. current.op.kind # "write"
  BY Zenon DEF ServicesFound, CharacteristicsFound, IncludesFound, Asking
<1>4. ~Asking({"write"})'
  BY <1>2, <1>3 DEF Asking
<1>5. QED
  BY <1>1, <1>4 DEF StagedInv, WriteState, StagedOnlyInReliable

LEMMA PieceStaged ==
  ASSUME NEW result, StagedInv, PieceAnswered(result)
  PROVE  StagedInv'
<1> DEFINE op == current.op
           st == current.state
           ends == result = "mismatch" /\ inReliableWrite
<1>1. /\ op.kind = "write" /\ st.step = "piece"
      /\ {"step", "left", "success"} \subseteq DOMAIN st
      /\ staged /\ ~inReliableWrite => st.success
      /\ inReliableWrite' = inReliableWrite
      /\ staged' = (staged \/ result # "error")
  BY DEF PieceAnswered, StagedInv, WriteState, Asking
<1>2. ASSUME NEW s, Ask(op, s), {"step", "left", "success"} \subseteq DOMAIN s, s.step # "write",
             s.step = "piece" => s.success
      PROVE  StagedInv'
  BY <1>1, <1>2 DEF Ask, StagedInv, WriteState, StagedOnlyInReliable, Asking
<1>3. ASSUME Quietly(op), staged' => inReliableWrite'
      PROVE  StagedInv'
  BY <1>3 DEF Quietly, StagedInv, WriteState, StagedOnlyInReliable, Asking
<1>4. CASE result = "error"
  <2>1. AfterError(op, st)
    BY <1>4 DEF PieceAnswered
  <2>2. CASE st.success /\ ~inReliableWrite
    <3>1. Ask(op, [st EXCEPT !.step = "abort"])
      BY <2>1, <2>2 DEF AfterError
    <3>2. QED
      BY <1>1, <1>2, <3>1
  <2>3. CASE ~(st.success /\ ~inReliableWrite)
    BY <1>1, <1>3, <1>4, <2>1, <2>3 DEF AfterError
  <2>4. QED
    BY <2>2, <2>3
<1>5. CASE result # "error" /\ ends
  <2>1. Ask(op, [st EXCEPT !.step = "mismatch"])
    BY <1>5 DEF PieceAnswered
  <2>2. QED
    BY <1>1, <1>2, <2>1
<1>6. CASE result # "error" /\ ~ends /\ st.left > 1
  <2> DEFINE next == [st EXCEPT !.left = @ - 1, !.success = TRUE]
  <2>1. Ask(op, next)
    BY <1>6 DEF PieceAnswered
  <2>2. /\ {"step", "left", "success"} \subseteq DOMAIN next
        /\ next.step = "piece" /\ next.success
    BY <1>1
  <2>3. QED
    BY <1>2, <2>1, <2>2
<1>7. CASE result # "error" /\ ~ends /\ ~(st.left > 1)
  <2>1. IF inReliableWrite THEN Quietly(op) ELSE Ask(op, [st EXCEPT !.step = "execute"])
    BY <1>7 DEF PieceAnswered
  <2>2. CASE inReliableWrite
    BY <1>1, <1>3, <2>1, <2>2
  <2>3. CASE ~inReliableWrite
    <3>1. Ask(op, [st EXCEPT !.step = "execute"])
      BY <2>1, <2>3
    <3>2. QED
      BY <1>1, <1>2, <3>1
  <2>4. QED
    BY <2>2, <2>3
<1>8. QED
  BY <1>4, <1>5, <1>6, <1>7

\* Pieces are left waiting at the server only by a reliable write that is open: a long write of
\* which a piece was accepted before one failed is cancelled (write in lib/internal/gatt.js).
THEOREM NoPiecesLeftBehind == ClientSpec => []StagedOnlyInReliable
<1>1. ClientInit => StagedInv
  BY DEF ClientInit, Idle, StagedInv, WriteState, StagedOnlyInReliable, Asking
<1>2. StagedInv /\ [ClientNext]_clientVars => StagedInv'
  <2> SUFFICES ASSUME StagedInv, [ClientNext]_clientVars
               PROVE  StagedInv'
    OBVIOUS
  <2>1. CASE User
    BY <2>1, UserStaged
  <2>2. CASE ServicesFound \/ CharacteristicsFound \/ IncludesFound
    BY <2>2, DiscoveredStaged
  <2>3. CASE Written
    BY <2>3 DEF Written, Quietly, StagedInv, WriteState, StagedOnlyInReliable, Asking
  <2>4. CASE Executed
    BY <2>4 DEF Executed, Quietly, StagedInv, WriteState, StagedOnlyInReliable, Asking
  <2>5. CASE \E result \in {"ok", "mismatch", "error"} : PieceAnswered(result)
    BY <2>5, PieceStaged
  <2>6. CASE DoneNextRequest
    <3>1. ~Asking({"write"}) /\ staged' = staged
      BY <2>6 DEF DoneNextRequest, Asking
    <3>2. CASE queue = <<>>
      BY <2>6, <3>1, <3>2 DEF DoneNextRequest, Idle, StagedInv, WriteState, StagedOnlyInReliable, Asking
    <3>3. CASE queue # <<>>
      BY <2>6, <3>1, <3>3, BegunStaged DEF DoneNextRequest
    <3>4. QED
      BY <3>2, <3>3
  <2>7. CASE PeerChanges
    BY <2>7, UntouchedStaged DEF PeerChanges
  <2>8. CASE UNCHANGED clientVars
    BY <2>8, UntouchedStaged DEF clientVars
  <2>9. QED
    BY <2>1, <2>2, <2>3, <2>4, <2>5, <2>6, <2>7, <2>8 DEF ClientNext, Response
<1>3. StagedInv => StagedOnlyInReliable
  BY DEF StagedInv
<1>4. QED
  BY <1>1, <1>2, <1>3, PTL DEF ClientSpec
=============================================================================
