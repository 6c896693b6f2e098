--------------------------- MODULE Packets_proofs ---------------------------
(***************************************************************************)
(* What is proved about Packets, for every ring, every number of layers    *)
(* and packets, every window and every number of losses and foreign        *)
(* frames; nothing is assumed beyond PacketsAssumption.                    *)
(*                                                                         *)
(* None of the properties is inductive: depackage never learns which frame *)
(* a packet belongs to, so what it does right it does right by the order   *)
(* of the packets.  The invariant PktInv therefore numbers all packets     *)
(* through (Serial) and says of every packet the sender has numbered       *)
(* whether it is lost, on the wire or has Arrived (Link), and then         *)
(*   Contents    what the ring holds has arrived, and the packets of the   *)
(*               frame being filled are in its place,                      *)
(*   Deliveries  completed frames lack just what was lost, in order,       *)
(*   Rooms       startNum_rx counts headers less last packets: it bounds   *)
(*               the complete frames only while no header is lost,         *)
(*   Counted     without foreign frames the prediction is the number of    *)
(*               packets taken, behind the stream by the packets lost,     *)
(*   Statistic   so an error is counted once a loss has passed, and the    *)
(*               prediction never meets the stream again.                  *)
(***************************************************************************)
EXTENDS Packets, FiniteSetTheorems, TLAPS

-----------------------------------------------------------------------------
(* Counting packets *)

\* x is a multiple of d.
Multiple(x, d) == \E q \in Int : x = d * q

\* The packets of a frame before part q.
Place(q) ==
  IF q[1] = 0 THEN 0
  ELSE IF q[1] = 1 THEN 1 + q[2]
  ELSE 1 + SamplePackets + (q[1] - 2) * DataPackets + q[2]

\* The packets before part x[2] of frame x[1].
Serial(x) == (x[1] - 1) * FramePackets + Place(x[2])

Part(p) == <<p.type, p.num>>
Id(p)   == <<p.frame, Part(p)>>

Ours  == {i \in DOMAIN wire : wire[i].frame \in Frames}
Sent  == Serial(<<frame_tx, <<type, num>>>>)
Taken == Len(lines) * FramePackets + Place(<<type_pre, num_pre>>)

\* The packets the receiver has taken from its ring.
Arrived ==
  {x \in Frames \X Parts : /\ Serial(x) < Sent
                           /\ x \notin lost
                           /\ \A i \in DOMAIN wire : Id(wire[i]) # x}

Headers == {f \in Frames : <<f, <<0, 0>>>> \in Arrived}
Lasts   == {f \in Frames : <<f, LastPart>> \in Arrived}

Before(S, k) == {x \in S : Serial(x) < k}

\* Products of natural numbers are natural and grow with their factors.
LEMMA Product ==
  /\ \A a, b \in Nat : a * b \in Nat
  /\ \A a, b, d \in Nat : a < b => a * d + d <= b * d
  /\ \A a, d \in Int : (a + 1) * d = a * d + d
  OBVIOUS

\* A part is a type and a number below the packets of the type.
LEMMA PartOf ==
  /\ \A t, n : <<t, n>> \in Parts <=> t \in Types /\ n \in 0 .. Count(t) - 1
  /\ \A q \in Parts : q = <<q[1], q[2]>> /\ q[1] \in Types /\ q[2] \in 0 .. Count(q[1]) - 1
  BY DEF Parts

\* A frame has packets, of every type.
LEMMA FrameLength ==
  /\ MAX_BEAM * DataPackets \in Nat /\ DataPackets <= MAX_BEAM * DataPackets
  /\ FramePackets \in Nat /\ FramePackets > 1 + SamplePackets
  /\ \A t \in Types : Count(t) \in Nat \ {0}
  <1>1. MAX_BEAM * DataPackets \in Nat /\ DataPackets <= MAX_BEAM * DataPackets
    <2>1. \E b \in Nat : MAX_BEAM = b + 1
      <3>1. MAX_BEAM = (MAX_BEAM - 1) + 1 /\ MAX_BEAM - 1 \in Nat
        BY PacketsAssumption DEF PacketsAssumption
      <3> QED
        BY <3>1
    <2>2. PICK b \in Nat : MAX_BEAM = b + 1
      BY <2>1
    <2>3. MAX_BEAM * DataPackets = b * DataPackets + DataPackets /\ b * DataPackets \in Nat
      BY <2>2, Product, PacketsAssumption DEF PacketsAssumption
    <2> QED
      BY <2>3, PacketsAssumption DEF PacketsAssumption
  <1>2. FramePackets \in Nat /\ FramePackets > 1 + SamplePackets
    BY <1>1, PacketsAssumption DEF PacketsAssumption, FramePackets
  <1>3. \A t \in Types : Count(t) \in Nat \ {0}
    BY PacketsAssumption DEF PacketsAssumption, Types, Count
  <1> QED
    BY <1>1, <1>2, <1>3

\* The first and the last packet of a frame.
LEMMA Ends ==
  /\ <<0, 0>> \in Parts /\ Place(<<0, 0>>) = 0
  /\ LastPart \in Parts /\ Place(LastPart) = FramePackets - 1
  /\ LastPart # <<0, 0>>
  <1>1. <<0, 0>> \in Parts /\ LastPart \in Parts
    BY PartOf, PacketsAssumption DEF PacketsAssumption, Types, Count, LastPart
  <1>2. Place(LastPart) = 1 + SamplePackets + (MAX_BEAM - 1) * DataPackets + (DataPackets - 1)
    BY PacketsAssumption DEF PacketsAssumption, Place, LastPart
  <1>3. (MAX_BEAM - 1) * DataPackets = MAX_BEAM * DataPackets - DataPackets
    BY PacketsAssumption DEF PacketsAssumption
  <1>4. Place(LastPart) = FramePackets - 1
    BY <1>2, <1>3, FrameLength, PacketsAssumption DEF PacketsAssumption, FramePackets
  <1>5. Place(<<0, 0>>) = 0 /\ LastPart # <<0, 0>>
    BY PacketsAssumption DEF PacketsAssumption, Place, LastPart
  <1> QED
    BY <1>1, <1>4, <1>5

\* Places number the parts of a frame.
LEMMA Places ==
  \A q \in Parts : Place(q) \in Nat /\ Place(q) < FramePackets
  <1> SUFFICES ASSUME NEW q \in Parts PROVE Place(q) \in Nat /\ Place(q) < FramePackets
    OBVIOUS
  <1>1. q[1] \in Types /\ q[2] \in 0 .. Count(q[1]) - 1
    BY PartOf
  <1>2. CASE q[1] \in {0, 1}
    BY <1>1, <1>2, FrameLength, PacketsAssumption DEF PacketsAssumption, Place, Count
  <1>3. CASE q[1] \notin {0, 1}
    <2> DEFINE b == q[1] - 2
    <2>1. b \in Nat /\ b < MAX_BEAM /\ q[2] \in Nat /\ q[2] < DataPackets
      BY <1>1, <1>3, PacketsAssumption DEF PacketsAssumption, Types, Count
    <2>2. Place(q) = 1 + SamplePackets + b * DataPackets + q[2]
      BY <1>1, <1>3 DEF Place
    <2> HIDE DEF b
    <2>3. b * DataPackets \in Nat /\ b * DataPackets + DataPackets <= MAX_BEAM * DataPackets
      BY <2>1, Product, PacketsAssumption DEF PacketsAssumption
    <2> QED
      BY <2>1, <2>2, <2>3, FrameLength, PacketsAssumption DEF PacketsAssumption, FramePackets
  <1> QED
    BY <1>2, <1>3

\* No two parts have the same place.
LEMMA PlacesDiffer ==
  \A q, r \in Parts : Place(q) = Place(r) => q = r
  <1> SUFFICES ASSUME NEW q \in Parts, NEW r \in Parts, Place(q) = Place(r) PROVE q = r
    OBVIOUS
  <1>1. /\ q[1] \in Types /\ q[2] \in 0 .. Count(q[1]) - 1 /\ q = <<q[1], q[2]>>
        /\ r[1] \in Types /\ r[2] \in 0 .. Count(r[1]) - 1 /\ r = <<r[1], r[2]>>
    BY PartOf
  <1> DEFINE b == q[1] - 2  e == r[1] - 2
  <1>2. /\ q[1] \in Int /\ q[1] >= 0 /\ q[2] \in Nat /\ b \in Int
        /\ q[1] = 0 => q[2] = 0
        /\ q[1] = 1 => q[2] < SamplePackets
        /\ q[1] > 1 => b \in Nat /\ q[2] < DataPackets
    BY <1>1, PacketsAssumption DEF PacketsAssumption, Types, Count
  <1>3. /\ r[1] \in Int /\ r[1] >= 0 /\ r[2] \in Nat /\ e \in Int
        /\ r[1] = 0 => r[2] = 0
        /\ r[1] = 1 => r[2] < SamplePackets
        /\ r[1] > 1 => e \in Nat /\ r[2] < DataPackets
    BY <1>1, PacketsAssumption DEF PacketsAssumption, Types, Count
  <1>4. /\ q[1] = 0 => Place(q) = 0
        /\ q[1] = 1 => Place(q) = 1 + q[2]
        /\ q[1] > 1 => Place(q) = 1 + SamplePackets + b * DataPackets + q[2]
    BY <1>2 DEF Place
  <1>5. /\ r[1] = 0 => Place(r) = 0
        /\ r[1] = 1 => Place(r) = 1 + r[2]
        /\ r[1] > 1 => Place(r) = 1 + SamplePackets + e * DataPackets + r[2]
    BY <1>3 DEF Place
  <1>6. b = e => q[1] = r[1]
    BY <1>2, <1>3
  <1> HIDE DEF b, e
  <1>7. q[1] > 1 => b * DataPackets \in Nat
    BY <1>2, Product, PacketsAssumption DEF PacketsAssumption
  <1>8. r[1] > 1 => e * DataPackets \in Nat
    BY <1>3, Product, PacketsAssumption DEF PacketsAssumption
  <1>9. q[1] > 1 /\ r[1] > 1 /\ b < e => b * DataPackets + DataPackets <= e * DataPackets
    BY <1>2, <1>3, Product, PacketsAssumption DEF PacketsAssumption
  <1>10. q[1] > 1 /\ r[1] > 1 /\ e < b => e * DataPackets + DataPackets <= b * DataPackets
    BY <1>2, <1>3, Product, PacketsAssumption DEF PacketsAssumption
  <1>11. CASE q[1] > 1 /\ r[1] > 1
    <2>1. ~(b < e)
      BY <1>2, <1>3, <1>4, <1>5, <1>7, <1>8, <1>9, <1>11, PacketsAssumption DEF PacketsAssumption
    <2>2. ~(e < b)
      BY <1>2, <1>3, <1>4, <1>5, <1>7, <1>8, <1>10, <1>11, PacketsAssumption DEF PacketsAssumption
    <2>3. b = e
      BY <1>2, <1>3, <2>1, <2>2
    <2>4. q[2] = r[2]
      BY <1>2, <1>3, <1>4, <1>5, <1>7, <1>11, <2>3, PacketsAssumption DEF PacketsAssumption
    <2> QED
      BY <1>1, <1>6, <2>3, <2>4
  <1>12. CASE ~(q[1] > 1 /\ r[1] > 1)
    <2>1. q[1] = r[1]
      BY <1>2, <1>3, <1>4, <1>5, <1>7, <1>8, <1>12, PacketsAssumption DEF PacketsAssumption
    <2>2. q[2] = r[2]
      BY <1>2, <1>3, <1>4, <1>5, <1>12, <2>1
    <2> QED
      BY <1>1, <2>1, <2>2
  <1> QED
    BY <1>11, <1>12

\* The part the sender numbers, or the receiver expects, after part q.
Following(q) ==
  IF q[2] + 1 < Count(q[1]) THEN <<q[1], q[2] + 1>> ELSE <<(q[1] + 1) % (2 + MAX_BEAM), 0>>

\* After the last part comes the first one, after any other the next in place;
\* only the first is of type 0.
LEMMA Follows ==
  \A q \in Parts :
    /\ Following(q) \in Parts
    /\ q = LastPart => Following(q) = <<0, 0>>
    /\ q # LastPart => Following(q)[1] # 0 /\ Place(Following(q)) = Place(q) + 1
  <1> SUFFICES ASSUME NEW q \in Parts
               PROVE  /\ Following(q) \in Parts
                      /\ q = LastPart => Following(q) = <<0, 0>>
                      /\ q # LastPart => /\ Following(q)[1] # 0
                                         /\ Place(Following(q)) = Place(q) + 1
    OBVIOUS
  <1>1. q[1] \in Types /\ q[2] \in 0 .. Count(q[1]) - 1 /\ q = <<q[1], q[2]>>
    BY PartOf
  <1>2. q[1] \in Int /\ q[1] >= 0 /\ q[1] <= 1 + MAX_BEAM /\ q[2] \in Nat /\ Count(q[1]) \in Nat
    BY <1>1, FrameLength, PacketsAssumption DEF PacketsAssumption, Types
  <1>3. CASE q[2] + 1 < Count(q[1])
    <2>1. Following(q) = <<q[1], q[2] + 1>>
      BY <1>3 DEF Following
    <2>2. Following(q) \in Parts
      BY <1>1, <1>2, <1>3, <2>1, PartOf
    <2>3. q # LastPart
      BY <1>2, <1>3, PacketsAssumption DEF PacketsAssumption, LastPart, Count
    <2>4. q[1] # 0
      BY <1>2, <1>3 DEF Count
    <2>5. Place(Following(q)) = Place(q) + 1
      <3>1. CASE q[1] = 1
        BY <1>2, <2>1, <3>1 DEF Place
      <3>2. CASE q[1] > 1
        <4> DEFINE b == (q[1] - 2) * DataPackets
        <4>1. Place(q) = 1 + SamplePackets + b + q[2]
          BY <1>2, <3>2 DEF Place
        <4>2. Place(Following(q)) = 1 + SamplePackets + b + (q[2] + 1)
          BY <1>2, <2>1, <3>2 DEF Place
        <4>3. b \in Int
          BY <1>2, PacketsAssumption DEF PacketsAssumption
        <4> HIDE DEF b
        <4> QED
          BY <1>2, <4>1, <4>2, <4>3, PacketsAssumption DEF PacketsAssumption
      <3> QED
        BY <1>2, <2>4, <3>1, <3>2
    <2> QED
      BY <2>1, <2>2, <2>3, <2>4, <2>5
  <1>4. CASE ~(q[2] + 1 < Count(q[1]))
    <2>1. Following(q) = <<(q[1] + 1) % (2 + MAX_BEAM), 0>> /\ q[2] = Count(q[1]) - 1
      BY <1>1, <1>2, <1>4 DEF Following
    <2>2. CASE q[1] = 1 + MAX_BEAM
      <3>1. (q[1] + 1) % (2 + MAX_BEAM) = 0
        BY <2>2, PacketsAssumption DEF PacketsAssumption
      <3>2. q = LastPart
        BY <1>1, <2>1, <2>2, PacketsAssumption DEF PacketsAssumption, LastPart, Count
      <3> QED
        BY <2>1, <3>1, <3>2, Ends
    <2>3. CASE q[1] # 1 + MAX_BEAM
      <3>1. (q[1] + 1) % (2 + MAX_BEAM) = q[1] + 1
        BY <1>2, <2>3, PacketsAssumption DEF PacketsAssumption
      <3>2. Following(q) = <<q[1] + 1, 0>>
        BY <2>1, <3>1
      <3>3. q[1] + 1 \in Types
        BY <1>2, <2>3, PacketsAssumption DEF PacketsAssumption, Types
      <3>4. Following(q) \in Parts
        BY <3>2, <3>3, FrameLength, PartOf
      <3>5. q # LastPart
        BY <2>3 DEF LastPart
      <3>6. Place(Following(q)) = Place(q) + 1
        <4>1. CASE q[1] = 0
          BY <1>2, <2>1, <3>2, <4>1 DEF Place, Count
        <4>2. CASE q[1] = 1
          <5>1. Place(q) = 1 + q[2] /\ q[2] = SamplePackets - 1
            BY <2>1, <4>2 DEF Place, Count
          <5>2. Place(Following(q)) = 1 + SamplePackets + 0 * DataPackets + 0
            BY <3>2, <4>2 DEF Place
          <5> QED
            BY <5>1, <5>2, PacketsAssumption DEF PacketsAssumption
        <4>3. CASE q[1] > 1
          <5> DEFINE b == q[1] - 2
          <5>1. b \in Nat
            BY <1>2, <4>3
          <5>2. Place(q) = 1 + SamplePackets + b * DataPackets + (DataPackets - 1)
            BY <1>2, <2>1, <4>3 DEF Place, Count
          <5>3. q[1] + 1 - 2 = b + 1
            BY <1>2
          <5>4. Place(Following(q)) = 1 + SamplePackets + (b + 1) * DataPackets + 0
            BY <1>2, <3>2, <4>3, <5>3 DEF Place
          <5> HIDE DEF b
          <5>5. (b + 1) * DataPackets = b * DataPackets + DataPackets /\ b * DataPackets \in Nat
            BY <5>1, Product, PacketsAssumption DEF PacketsAssumption
          <5> QED
            BY <5>2, <5>4, <5>5, PacketsAssumption DEF PacketsAssumption
        <4> QED
          BY <1>2, <4>1, <4>2, <4>3
      <3> QED
        BY <1>2, <3>2, <3>4, <3>5, <3>6
    <2> QED
      BY <2>2, <2>3
  <1> QED
    BY <1>3, <1>4

\* Packets are ordered by their numbers: by frames, and within a frame by places.
LEMMA Serials ==
  ASSUME NEW f \in Nat, NEW g \in Nat, NEW q \in Parts, NEW r \in Parts
  PROVE  /\ Serial(<<f, q>>) \in Int
         /\ f < g => Serial(<<f, q>>) < Serial(<<g, r>>)
         /\ f = g => (Serial(<<f, q>>) < Serial(<<g, r>>) <=> Place(q) < Place(r))
  <1> DEFINE F == (f - 1) * FramePackets
             G == (g - 1) * FramePackets
  <1>1. F \in Int /\ G \in Int /\ (f = g => F = G)
    BY FrameLength
  <1>2. f < g => F + FramePackets <= G
    <2> SUFFICES ASSUME f < g PROVE F + FramePackets <= G
      OBVIOUS
    <2>1. /\ f - 1 \in Int /\ g - 1 = (f - 1) + (g - f) /\ g - f \in Nat /\ g - f >= 1
      OBVIOUS
    <2>2. G = F + (g - f) * FramePackets
      BY <2>1, FrameLength
    <2>3. (g - f) * FramePackets >= FramePackets
      BY <2>1, FrameLength
    <2>4. (g - f) * FramePackets \in Int
      BY <2>1, FrameLength
    <2> HIDE DEF F, G
    <2> QED
      BY <1>1, <2>2, <2>3, <2>4, FrameLength
  <1>3. Serial(<<f, q>>) = F + Place(q) /\ Serial(<<g, r>>) = G + Place(r)
    BY DEF Serial
  <1>4. /\ Place(q) \in Nat /\ Place(q) < FramePackets
        /\ Place(r) \in Nat /\ Place(r) < FramePackets /\ FramePackets \in Nat
    BY Places, FrameLength
  <1> HIDE DEF F, G
  <1> QED
    BY <1>1, <1>2, <1>3, <1>4

\* No two packets have the same number.
LEMMA SerialsDiffer ==
  ASSUME NEW f \in Nat, NEW g \in Nat, NEW q \in Parts, NEW r \in Parts,
         Serial(<<f, q>>) = Serial(<<g, r>>)
  PROVE  f = g /\ q = r
  <1>1. ~(f < g) /\ ~(g < f)
    BY Serials
  <1>2. f = g
    BY <1>1
  <1>3. ~(Place(q) < Place(r)) /\ ~(Place(r) < Place(q))
    BY <1>2, Serials
  <1>4. Place(q) \in Nat /\ Place(r) \in Nat
    BY Places
  <1> QED
    BY <1>2, <1>3, <1>4, PlacesDiffer

\* The same, and the ends of a frame, for packets as pairs.
LEMMA Order ==
  /\ \A x \in Frames \X Parts : /\ x = <<x[1], x[2]>> /\ x[1] \in Frames /\ x[2] \in Parts
                                /\ x[1] \in Nat /\ Serial(x) \in Int
                                /\ Serial(x) <= Serial(<<x[1], LastPart>>)
                                /\ Serial(<<x[1], <<0, 0>>>>) <= Serial(x)
  /\ \A x, y \in Frames \X Parts : /\ Serial(x) = Serial(y) => x = y
                                   /\ Serial(x) < Serial(y) => x[1] <= y[1]
                                   /\ x[1] < y[1] => Serial(x) < Serial(y)
  <1>1. ASSUME NEW x \in Frames \X Parts
        PROVE  /\ x = <<x[1], x[2]>> /\ x[1] \in Frames /\ x[2] \in Parts
               /\ x[1] \in Nat /\ Serial(x) \in Int
    BY Serials DEF Frames
  <1>2. ASSUME NEW x \in Frames \X Parts
        PROVE  /\ Serial(x) <= Serial(<<x[1], LastPart>>)
               /\ Serial(<<x[1], <<0, 0>>>>) <= Serial(x)
    <2>1. /\ x = <<x[1], x[2]>> /\ x[1] \in Nat /\ x[2] \in Parts
      BY <1>1
    <2>2. Place(x[2]) \in Nat /\ Place(x[2]) < FramePackets
      BY <2>1, Places
    <2>3. ~(Place(LastPart) < Place(x[2])) /\ ~(Place(x[2]) < Place(<<0, 0>>))
      BY <2>2, Ends, FrameLength
    <2>4. /\ Serial(<<x[1], LastPart>>) \in Int /\ Serial(<<x[1], <<0, 0>>>>) \in Int
          /\ ~(Serial(<<x[1], LastPart>>) < Serial(<<x[1], x[2]>>))
          /\ ~(Serial(<<x[1], x[2]>>) < Serial(<<x[1], <<0, 0>>>>))
      BY <2>1, <2>3, Ends, Serials
    <2> QED
      BY <1>1, <2>1, <2>4
  <1>3. ASSUME NEW x \in Frames \X Parts, NEW y \in Frames \X Parts
        PROVE  /\ Serial(x) = Serial(y) => x = y
               /\ Serial(x) < Serial(y) => x[1] <= y[1]
               /\ x[1] < y[1] => Serial(x) < Serial(y)
    <2>1. /\ x = <<x[1], x[2]>> /\ x[1] \in Nat /\ x[2] \in Parts /\ Serial(x) \in Int
          /\ y = <<y[1], y[2]>> /\ y[1] \in Nat /\ y[2] \in Parts /\ Serial(y) \in Int
      BY <1>1
    <2>2. Serial(<<x[1], x[2]>>) = Serial(<<y[1], y[2]>>) => x[1] = y[1] /\ x[2] = y[2]
      BY <2>1, SerialsDiffer
    <2>3. y[1] < x[1] => Serial(<<y[1], y[2]>>) < Serial(<<x[1], x[2]>>)
      BY <2>1, Serials
    <2>4. x[1] < y[1] => Serial(<<x[1], x[2]>>) < Serial(<<y[1], y[2]>>)
      BY <2>1, Serials
    <2> QED
      BY <2>1, <2>2, <2>3, <2>4
  <1> QED
    BY <1>1, <1>2, <1>3

\* Following adds one to the number of a packet; after a last part a frame begins.
LEMMA NextSerial ==
  ASSUME NEW f \in Nat, NEW q \in Parts
  PROVE  Serial(<<IF q = LastPart THEN f + 1 ELSE f, Following(q)>>) = Serial(<<f, q>>) + 1
  <1> DEFINE F == (f - 1) * FramePackets
  <1>1. F \in Int /\ (f + 1 - 1) * FramePackets = F + FramePackets
    <2>1. f - 1 \in Int /\ f + 1 - 1 = (f - 1) + 1
      OBVIOUS
    <2> QED
      BY <2>1, FrameLength, Product
  <1>2. Serial(<<f, q>>) = F + Place(q)
    BY DEF Serial
  <1>3. CASE q = LastPart
    <2>1. Serial(<<f + 1, Following(q)>>) = (f + 1 - 1) * FramePackets + 0
      BY <1>3, Follows, Ends DEF Serial
    <2> HIDE DEF F
    <2>2. (f + 1 - 1) * FramePackets + 0 = F + FramePackets
      BY <1>1, FrameLength
    <2>3. F + Place(q) + 1 = F + FramePackets
      BY <1>1, <1>3, Ends, FrameLength
    <2> QED
      BY <1>2, <1>3, <2>1, <2>2, <2>3
  <1>4. CASE q # LastPart
    <2>1. Serial(<<f, Following(q)>>) = F + (Place(q) + 1)
      BY <1>4, Follows DEF Serial
    <2>2. Place(q) \in Nat
      BY Places
    <2> HIDE DEF F
    <2> QED
      BY <1>1, <1>2, <1>4, <2>1, <2>2
  <1> QED
    BY <1>3, <1>4

-----------------------------------------------------------------------------
(* The inductive invariant *)

Sound == {p \in [frame : Frames, type : Types, num : Nat, sized : {TRUE}] : Part(p) \in Parts}

Typed ==
  /\ frame_tx \in 1 .. MaxFrames + 1 /\ <<type, num>> \in Parts
  /\ wire \in Seq(Strays \union Sound) /\ Len(wire) <= Window
  /\ package_rx \in [Ring -> [Parts -> 0 .. MaxFrames]]
  /\ index_rx_write \in Ring /\ index_rx_read \in Ring
  /\ startNum_rx \in Int /\ startNum_rx <= PACK_CACHE
  /\ readyNum_rx \in Nat
  /\ working \in 0 .. PARA_NUM_RX
  /\ <<type_pre, num_pre>> \in Parts
  /\ err_count \in 0 .. Place(<<type_pre, num_pre>>)
  /\ lines \in Seq(0 .. FramePackets)
  /\ lost \in SUBSET (Frames \X Parts) /\ IsFiniteSet(lost) /\ Cardinality(lost) <= MaxLost
  /\ strays \in 0 .. MaxStray
  /\ delivered \in Seq([frame : Frames, wrong : SUBSET Parts])

Link ==
  /\ \A i \in Ours : Serial(Id(wire[i])) < Sent /\ Id(wire[i]) \notin lost
  /\ \A i, j \in Ours : i < j => Serial(Id(wire[i])) < Serial(Id(wire[j]))
  /\ \A x \in lost : Serial(x) < Sent
  /\ \A x \in Arrived, i \in Ours : Serial(x) < Serial(Id(wire[i]))

Contents ==
  /\ \A i \in Ring, q \in Parts : package_rx[i][q] # 0 => <<package_rx[i][q], q>> \in Arrived
  /\ \A x \in Arrived :
       (\A k \in DOMAIN delivered : delivered[k].frame < x[1]) =>
         x[1] <= package_rx[index_rx_write][x[2]]

Deliveries ==
  /\ \A k \in DOMAIN delivered :
       /\ <<delivered[k].frame, LastPart>> \in Arrived
       /\ delivered[k].wrong = LostOf(delivered[k].frame)
       /\ k <= delivered[k].frame
  /\ \A j, k \in DOMAIN delivered : j < k => delivered[j].frame < delivered[k].frame
  /\ \A f \in Lasts : \E k \in DOMAIN delivered : delivered[k].frame = f

Rooms ==
  /\ startNum_rx - working - readyNum_rx = Cardinality(Headers) - Cardinality(Lasts)
  /\ readyNum_rx + working <= Len(delivered)
  /\ Multiple(index_rx_read + readyNum_rx - index_rx_write, PACK_CACHE)

Counted ==
  strays = 0 =>
    /\ Ours = DOMAIN wire
    /\ Sent = Taken + Len(wire) + Cardinality(lost)
    /\ \A i \in Ours :
         Serial(Id(wire[i])) = Taken + i - 1 + Cardinality(Before(lost, Serial(Id(wire[i]))))

\* Every line so far is free of errors.
Clean == err_count = 0 /\ \A l \in DOMAIN lines : lines[l] = 0

InStep ==
  /\ \A x \in lost : Taken <= Serial(x)
  /\ Len(delivered) = Len(lines)
  /\ \A k \in DOMAIN delivered : delivered[k].frame = k

OutOfStep == \E x \in lost : \A i \in Ours : Serial(x) < Serial(Id(wire[i]))

Statistic ==
  FewLost =>
    /\ Clean => InStep
    /\ ~Clean => OutOfStep
    /\ \A l \in DOMAIN lines :
         /\ lines[l] = 0 => l \in DOMAIN delivered /\ delivered[l].frame = l /\ delivered[l].wrong = {}
         /\ lines[l] > 0 => /\ err_count = Place(<<type_pre, num_pre>>)
                            /\ \A m \in DOMAIN lines : l < m => lines[m] = FramePackets

PktInv == Typed /\ Link /\ Contents /\ Deliveries /\ Rooms /\ Counted /\ Statistic

-----------------------------------------------------------------------------
(* Packets on the wire *)

\* depackage accepts every packet of the sender.
LEMMA SoundPackets ==
  \A p \in Sound : /\ p.frame \in Frames /\ Part(p) \in Parts /\ Id(p) \in Frames \X Parts
                   /\ Accepted(p)
                   /\ p \in [frame : 0 .. MaxFrames, type : 0 .. 2 + MAX_BEAM, num : Nat, sized : BOOLEAN]
  <1> SUFFICES ASSUME NEW p \in Sound
               PROVE  /\ p.frame \in Frames /\ Part(p) \in Parts /\ Id(p) \in Frames \X Parts
                      /\ Accepted(p)
                      /\ p \in [frame : 0 .. MaxFrames, type : 0 .. 2 + MAX_BEAM, num : Nat, sized : BOOLEAN]
    OBVIOUS
  <1>1. /\ p \in [frame : Frames, type : Types, num : Nat, sized : {TRUE}]
        /\ <<p.type, p.num>> \in Parts
    BY DEF Sound, Part
  <1>2. p.num \in 0 .. Count(p.type) - 1
    BY <1>1, PartOf
  <1>3. p.type \in Types /\ p.num \in Nat /\ p.sized = TRUE /\ p.frame \in Frames
    BY <1>1
  <1>4. Accepted(p)
    BY <1>2, <1>3, PacketsAssumption DEF PacketsAssumption, Accepted, Types, Count
  <1>5. p \in [frame : 0 .. MaxFrames, type : 0 .. 2 + MAX_BEAM, num : Nat, sized : BOOLEAN]
    <2>1. Frames \subseteq 0 .. MaxFrames /\ Types \subseteq 0 .. 2 + MAX_BEAM
      BY PacketsAssumption DEF PacketsAssumption, Frames, Types
    <2> QED
      BY <1>1, <2>1
  <1> QED
    BY <1>1, <1>3, <1>4, <1>5 DEF Part, Id

\* It accepts no packet that is not the sender's.
LEMMA StrayPackets ==
  \A p \in Strays : /\ p.frame = 0 /\ p.frame \notin Frames /\ ~Accepted(p)
                    /\ p \in [frame : 0 .. MaxFrames, type : 0 .. 2 + MAX_BEAM, num : Nat, sized : BOOLEAN]
  <1> SUFFICES ASSUME NEW p \in Strays
               PROVE  /\ p.frame = 0 /\ p.frame \notin Frames /\ ~Accepted(p)
                      /\ p \in [frame : 0 .. MaxFrames, type : 0 .. 2 + MAX_BEAM, num : Nat, sized : BOOLEAN]
    OBVIOUS
  <1>1. \/ p = [frame |-> 0, type |-> 0, num |-> 0, sized |-> FALSE]
        \/ \E t \in Types : p = [frame |-> 0, type |-> t, num |-> Count(t), sized |-> TRUE]
        \/ p = [frame |-> 0, type |-> 2 + MAX_BEAM, num |-> 0, sized |-> TRUE]
    BY DEF Strays, Packet
  <1>2. 0 \notin Frames
    BY DEF Frames
  <1>3. CASE p = [frame |-> 0, type |-> 0, num |-> 0, sized |-> FALSE]
    BY <1>2, <1>3, PacketsAssumption DEF PacketsAssumption, Accepted
  <1>4. CASE \E t \in Types : p = [frame |-> 0, type |-> t, num |-> Count(t), sized |-> TRUE]
    <2>1. PICK t \in Types : p = [frame |-> 0, type |-> t, num |-> Count(t), sized |-> TRUE]
      BY <1>4
    <2>2. t \in Types /\ Count(t) \in Nat \ {0}
      BY FrameLength
    <2>3. ~Accepted(p)
      BY <2>1, <2>2, PacketsAssumption DEF PacketsAssumption, Accepted, Types, Count
    <2> QED
      BY <1>2, <2>1, <2>2, <2>3, PacketsAssumption DEF PacketsAssumption, Types
  <1>5. CASE p = [frame |-> 0, type |-> 2 + MAX_BEAM, num |-> 0, sized |-> TRUE]
    BY <1>2, <1>5, PacketsAssumption DEF PacketsAssumption, Accepted
  <1> QED
    BY <1>1, <1>3, <1>4, <1>5

\* The packets on the wire.
LEMMA OnWire ==
  ASSUME Typed
  PROVE  /\ DOMAIN wire = 1 .. Len(wire) /\ Len(wire) \in Nat
         /\ \A i \in DOMAIN wire : wire[i] \in Strays \union Sound
         /\ \A i \in Ours : /\ i \in DOMAIN wire /\ wire[i] \in Sound /\ wire[i].frame \in Frames
                            /\ Id(wire[i]) \in Frames \X Parts /\ Serial(Id(wire[i])) \in Int
         /\ \A i \in DOMAIN wire \ Ours : wire[i] \in Strays /\ wire[i].frame = 0
         /\ \A i \in DOMAIN wire, x \in Frames \X Parts : Id(wire[i]) = x => i \in Ours
  <1>1. wire \in Seq(Strays \union Sound)
    BY DEF Typed
  <1>2. /\ DOMAIN wire = 1 .. Len(wire) /\ Len(wire) \in Nat
        /\ \A i \in DOMAIN wire : wire[i] \in Strays \union Sound
    BY <1>1
  <1>3. \A i \in Ours : i \in DOMAIN wire /\ wire[i] \in Sound /\ wire[i].frame \in Frames
    BY <1>2, StrayPackets DEF Ours
  <1>4. \A i \in Ours : Id(wire[i]) \in Frames \X Parts /\ Serial(Id(wire[i])) \in Int
    BY <1>3, SoundPackets, Order
  <1>5. \A i \in DOMAIN wire \ Ours : wire[i] \in Strays /\ wire[i].frame = 0
    BY <1>2, SoundPackets, StrayPackets DEF Ours
  <1>6. \A i \in DOMAIN wire, x \in Frames \X Parts : Id(wire[i]) = x => i \in Ours
    BY DEF Id, Ours
  <1> QED
    BY <1>2, <1>3, <1>4, <1>5, <1>6

\* Removing one element of a sequence.
LEMMA Removed ==
  ASSUME NEW S, NEW w \in Seq(S), NEW i \in DOMAIN w
  PROVE  /\ RemoveAt(w, i) \in Seq(S)
         /\ Len(RemoveAt(w, i)) = Len(w) - 1
         /\ \A j \in 1 .. Len(w) - 1 : RemoveAt(w, i)[j] = IF j < i THEN w[j] ELSE w[j + 1]
  <1> DEFINE u == SubSeq(w, 1, i - 1)
             v == SubSeq(w, i + 1, Len(w))
  <1>1. i \in 1 .. Len(w) /\ Len(w) \in Nat /\ \A j \in 1 .. Len(w) : w[j] \in S
    OBVIOUS
  <1>2. /\ u \in Seq(S) /\ Len(u) = i - 1
        /\ \A j \in 1 .. i - 1 : u[j] = w[j]
    BY <1>1
  <1>3. /\ v \in Seq(S) /\ Len(v) = Len(w) - i
        /\ \A j \in 1 .. Len(w) - i : v[j] = w[j + i]
    <2>1. CASE i = Len(w)
      BY <1>1, <2>1
    <2>2. CASE i < Len(w)
      BY <1>1, <2>2
    <2> QED
      BY <1>1, <2>1, <2>2
  <1>4. RemoveAt(w, i) = u \o v
    BY DEF RemoveAt
  <1> HIDE DEF u, v
  <1>5. /\ u \o v \in Seq(S) /\ Len(u \o v) = Len(u) + Len(v)
        /\ \A j \in 1 .. Len(u) + Len(v) : (u \o v)[j] = IF j <= Len(u) THEN u[j] ELSE v[j - Len(u)]
    BY <1>2, <1>3
  <1>6. RemoveAt(w, i) \in Seq(S) /\ Len(RemoveAt(w, i)) = Len(w) - 1
    BY <1>1, <1>2, <1>3, <1>4, <1>5
  <1>7. ASSUME NEW j \in 1 .. Len(w) - 1
        PROVE  RemoveAt(w, i)[j] = IF j < i THEN w[j] ELSE w[j + 1]
    <2>1. (u \o v)[j] = IF j <= i - 1 THEN u[j] ELSE v[j - (i - 1)]
      <3>1. j \in 1 .. Len(u) + Len(v)
        BY <1>1, <1>2, <1>3
      <3>2. (u \o v)[j] = IF j <= Len(u) THEN u[j] ELSE v[j - Len(u)]
        BY <1>5, <3>1, Zenon
      <3> QED
        BY <1>2, <3>2, Zenon
    <2>2. CASE j < i
      BY <1>1, <1>2, <1>4, <2>1, <2>2
    <2>3. CASE ~(j < i)
      <3>1. j - (i - 1) \in 1 .. Len(w) - i /\ j - (i - 1) + i = j + 1
        BY <1>1, <2>3
      <3>2. v[j - (i - 1)] = w[j + 1]
        BY <1>3, <3>1
      <3> QED
        BY <1>1, <1>4, <2>1, <2>3, <3>2
    <2> QED
      BY <2>2, <2>3
  <1> QED
    BY <1>6, <1>7

-----------------------------------------------------------------------------
(* What the actions do, in these terms *)

Expected == <<type_pre, num_pre>>

\* The errors of the line after a packet was compared with the prediction.
Errors(p) == err_count + (IF Part(p) # Expected THEN 1 ELSE 0)

\* The sender's next packet follows the last one.
LEMMA SentGrows ==
  ASSUME Typed, SendPacket
  PROVE  /\ <<type', num'>> = Following(<<type, num>>) /\ <<type', num'>> \in Parts
         /\ Sent \in Int /\ Sent' = Sent + 1
         /\ Packet(frame_tx, type, num) \in Sound
         /\ Id(Packet(frame_tx, type, num)) = <<frame_tx, <<type, num>>>>
         /\ Sent = Serial(Id(Packet(frame_tx, type, num)))
  <1>1. <<type, num>> \in Parts /\ frame_tx \in Frames /\ frame_tx \in Nat
    BY DEF Typed, SendPacket, Frames
  <1>2. <<type', num'>> = Following(<<type, num>>)
    BY DEF SendPacket, NextType, NextNum, Following
  <1>3. frame_tx' = IF <<type, num>> = LastPart THEN frame_tx + 1 ELSE frame_tx
    BY DEF SendPacket
  <1>4. Sent' = Serial(<<frame_tx', <<type', num'>>>>)
    BY DEF Sent, Serial, Place
  <1>5. Sent' = Sent + 1
    BY <1>1, <1>2, <1>3, <1>4, NextSerial DEF Sent
  <1>6. Sent \in Int
    BY <1>1, Serials DEF Sent
  <1>7. type \in Types /\ num \in Nat
    BY <1>1, PartOf, FrameLength
  <1>8. Packet(frame_tx, type, num) \in Sound
    BY <1>1, <1>7 DEF Packet, Sound, Part
  <1>9. Id(Packet(frame_tx, type, num)) = <<frame_tx, <<type, num>>>>
    BY DEF Packet, Id, Part
  <1> QED
    BY <1>1, <1>2, <1>5, <1>6, <1>8, <1>9, Follows DEF Sent

\* The prediction moves on by one packet, whatever has come.
LEMMA PredictionMoves ==
  ASSUME Typed, NEW p, Predict(p)
  PROVE  /\ Expected' = Following(Expected) /\ Expected' \in Parts
         /\ Expected = LastPart => /\ lines' = Append(lines, Errors(p)) /\ err_count' = 0
                                   /\ Expected' = <<0, 0>>
         /\ Expected # LastPart => /\ lines' = lines /\ err_count' = Errors(p)
                                   /\ Place(Expected') = Place(Expected) + 1
         /\ Errors(p) \in 0 .. Place(Expected) + 1
         /\ Taken \in Int /\ Taken' = Taken + 1
  <1>1. Expected \in Parts /\ lines \in Seq(0 .. FramePackets)
        /\ err_count \in 0 .. Place(Expected)
    BY DEF Typed, Expected
  <1>2. Expected' = Following(Expected)
    BY DEF Predict, PredictedType, PredictedNum, Following, Expected
  <1>3. Expected' \in Parts
    BY <1>1, <1>2, Follows
  <1>4. (Part(p) # Expected) <=> Mismatch(p)
    BY DEF Part, Expected, Mismatch
  <1>5. Errors(p) = err_count + (IF Mismatch(p) THEN 1 ELSE 0)
    BY <1>4 DEF Errors
  <1>6. PredictedType = Following(Expected)[1]
    BY DEF PredictedType, Following, Expected
  <1>7. CASE Expected = LastPart
    <2>1. PredictedType = 0 /\ Expected' = <<0, 0>>
      BY <1>1, <1>2, <1>6, <1>7, Follows
    <2>2. lines' = Append(lines, Errors(p)) /\ err_count' = 0
      BY <1>5, <2>1 DEF Predict
    <2>3. Len(lines') = Len(lines) + 1 /\ Len(lines) \in Int
      BY <1>1, <2>2
    <2>4. Taken' = (Len(lines) + 1) * FramePackets + 0
      BY <2>1, <2>3, Ends DEF Taken, Expected, Place
    <2>5. Taken = Len(lines) * FramePackets + (FramePackets - 1)
      BY <1>7, Ends DEF Taken, Expected
    <2>6. /\ (Len(lines) + 1) * FramePackets = Len(lines) * FramePackets + FramePackets
          /\ Len(lines) * FramePackets \in Int
      BY <2>3, FrameLength, Product
    <2>7. Taken \in Int /\ Taken' = Taken + 1
      BY <2>4, <2>5, <2>6, FrameLength
    <2>8. Errors(p) \in 0 .. Place(Expected) + 1
      BY <1>1, Places DEF Errors
    <2> QED
      BY <1>2, <1>3, <1>7, <2>1, <2>2, <2>7, <2>8
  <1>8. CASE Expected # LastPart
    <2>1. PredictedType # 0 /\ Place(Expected') = Place(Expected) + 1
      BY <1>1, <1>2, <1>6, <1>8, Follows
    <2>2. lines' = lines /\ err_count' = Errors(p)
      BY <1>5, <2>1 DEF Predict
    <2>3. Taken' = Len(lines) * FramePackets + Place(Expected')
      BY <2>2 DEF Taken, Expected, Place
    <2>4. Len(lines) * FramePackets \in Int
      BY <1>1, FrameLength
    <2>5. Taken = Len(lines) * FramePackets + Place(Expected) /\ Place(Expected) \in Nat
      BY <1>1, Places DEF Taken, Expected
    <2>6. Taken \in Int /\ Taken' = Taken + 1
      BY <2>1, <2>3, <2>4, <2>5
    <2>7. Errors(p) \in 0 .. Place(Expected) + 1
      BY <1>1, Places DEF Errors
    <2> QED
      BY <1>2, <1>3, <1>8, <2>1, <2>2, <2>6, <2>7
  <1> QED
    BY <1>7, <1>8

\* depackage unpacks the sender's packets and drops the others.
LEMMA Unpacked ==
  ASSUME Typed, Depackage
  PROVE  LET p == wire[1] IN
         /\ 1 \in DOMAIN wire /\ p = Head(wire) /\ Predict(p)
         /\ 1 \in Ours =>
              /\ p \in Sound
              /\ package_rx' = [package_rx EXCEPT ![index_rx_write][Part(p)] = p.frame]
              /\ CountHeader(p) /\ Complete(p)
         /\ 1 \notin Ours => p \in Strays /\ UNCHANGED placeVars
  <1>1. 1 \in DOMAIN wire /\ Head(wire) = wire[1]
    <2>1. wire # << >> /\ wire \in Seq(Strays \union Sound)
      BY DEF Depackage, Typed
    <2> QED
      BY <2>1
  <1>2. Predict(wire[1])
    BY <1>1 DEF Depackage
  <1>3. 1 \in Ours => wire[1] \in Sound /\ Accepted(wire[1]) /\ Part(wire[1]) \in Parts
    BY OnWire, SoundPackets
  <1>4. 1 \notin Ours => wire[1] \in Strays /\ ~Accepted(wire[1])
    BY <1>1, OnWire, StrayPackets
  <1>5. 1 \notin Ours => UNCHANGED placeVars
    BY <1>1, <1>4 DEF Depackage
  <1>6. 1 \in Ours => CountHeader(wire[1]) /\ Write(wire[1]) /\ Complete(wire[1])
    BY <1>1, <1>3 DEF Depackage
  <1>7. 1 \in Ours =>
          package_rx' = [package_rx EXCEPT ![index_rx_write][Part(wire[1])] = wire[1].frame]
    BY <1>3, <1>6 DEF Write, Part
  <1> QED
    BY <1>1, <1>2, <1>3, <1>4, <1>5, <1>6, <1>7

\* The wire after a packet was sent or arrived from elsewhere,
LEMMA Appended ==
  ASSUME Typed, NEW p \in Strays \union Sound, wire' = Append(wire, p)
  PROVE  /\ DOMAIN wire' = 1 .. Len(wire) + 1 /\ Len(wire') = Len(wire) + 1
         /\ \A i \in 1 .. Len(wire) : wire'[i] = wire[i]
         /\ wire'[Len(wire) + 1] = p
         /\ wire' \in Seq(Strays \union Sound)
  BY DEF Typed

\* after the first one was taken,
LEMMA FirstTaken ==
  ASSUME Typed, wire # << >>, wire' = Tail(wire)
  PROVE  /\ DOMAIN wire' = 1 .. Len(wire) - 1 /\ Len(wire') = Len(wire) - 1
         /\ \A i \in 1 .. Len(wire) - 1 : wire'[i] = wire[i + 1]
         /\ wire' \in Seq(Strays \union Sound)
  BY DEF Typed

\* and after one was lost.
LEMMA OneLost ==
  ASSUME Typed, NEW i \in DOMAIN wire, wire' = RemoveAt(wire, i)
  PROVE  /\ DOMAIN wire' = 1 .. Len(wire) - 1 /\ Len(wire') = Len(wire) - 1
         /\ \A j \in 1 .. Len(wire) - 1 : wire'[j] = IF j < i THEN wire[j] ELSE wire[j + 1]
         /\ wire' \in Seq(Strays \union Sound)
  <1>1. wire \in Seq(Strays \union Sound)
    BY DEF Typed
  <1>2. /\ RemoveAt(wire, i) \in Seq(Strays \union Sound)
        /\ Len(RemoveAt(wire, i)) = Len(wire) - 1
        /\ \A j \in 1 .. Len(wire) - 1 :
             RemoveAt(wire, i)[j] = IF j < i THEN wire[j] ELSE wire[j + 1]
    BY <1>1, Removed
  <1>3. Len(wire) - 1 \in Nat
    BY <1>1
  <1> QED
    BY <1>2, <1>3

-----------------------------------------------------------------------------
(* Types *)

\* The places of the ring, in cyclic order.
LEMMA RingPlaces ==
  /\ 0 \in Ring /\ \A i \in Ring : i \in Int /\ (i + 1) % PACK_CACHE \in Ring
  /\ \A i \in Ring : (i + 1) % PACK_CACHE = IF i + 1 = PACK_CACHE THEN 0 ELSE i + 1
  <1>1. PACK_CACHE \in Nat \ {0}
    BY PacketsAssumption DEF PacketsAssumption
  <1>2. ASSUME NEW i \in Ring
        PROVE  (i + 1) % PACK_CACHE = IF i + 1 = PACK_CACHE THEN 0 ELSE i + 1
    <2>1. CASE i + 1 = PACK_CACHE
      BY <1>1, <2>1
    <2>2. CASE i + 1 # PACK_CACHE
      BY <1>1, <2>2 DEF Ring
    <2> QED
      BY <2>1, <2>2
  <1> QED
    BY <1>1, <1>2 DEF Ring

\* The first state is well typed.
LEMMA InitTyped == Init => Typed
  <1> SUFFICES ASSUME Init PROVE Typed
    OBVIOUS
  <1>1. frame_tx \in 1 .. MaxFrames + 1 /\ <<type, num>> \in Parts /\ Expected \in Parts
    BY Ends, PacketsAssumption DEF Init, Expected, PacketsAssumption
  <1>2. wire \in Seq(Strays \union Sound) /\ Len(wire) <= Window
    BY PacketsAssumption DEF Init, PacketsAssumption
  <1>3. /\ package_rx \in [Ring -> [Parts -> 0 .. MaxFrames]]
        /\ startNum_rx \in Int /\ startNum_rx <= PACK_CACHE /\ readyNum_rx \in Nat
        /\ working \in 0 .. PARA_NUM_RX /\ strays \in 0 .. MaxStray
    BY PacketsAssumption DEF Init, PacketsAssumption
  <1>4. err_count \in 0 .. Place(Expected)
    BY Ends DEF Init, Expected
  <1>5. lost \in SUBSET (Frames \X Parts) /\ IsFiniteSet(lost) /\ Cardinality(lost) <= MaxLost
    BY FS_EmptySet, PacketsAssumption DEF Init, PacketsAssumption
  <1>6. /\ lines \in Seq(0 .. FramePackets)
        /\ delivered \in Seq([frame : Frames, wrong : SUBSET Parts])
    BY DEF Init
  <1>7. index_rx_write \in Ring /\ index_rx_read \in Ring
    BY RingPlaces DEF Init
  <1> QED
    BY <1>1, <1>2, <1>3, <1>4, <1>5, <1>6, <1>7 DEF Typed, Expected

\* A packet is sent.
LEMMA SendPacketTyped == Typed /\ SendPacket => Typed'
  <1> SUFFICES ASSUME Typed, SendPacket PROVE Typed'
    OBVIOUS
  <1>1. /\ wire' \in Seq(Strays \union Sound) /\ Len(wire') <= Window
    BY SentGrows, Appended, OnWire, PacketsAssumption DEF SendPacket, PacketsAssumption
  <1>2. frame_tx' \in 1 .. MaxFrames + 1 /\ <<type', num'>> \in Parts
    BY SentGrows, PacketsAssumption DEF SendPacket, Frames, PacketsAssumption
  <1> QED
    BY <1>1, <1>2 DEF Typed, SendPacket, placeVars, schedVars, statVars, Place

\* A packet is lost.
LEMMA LoseTyped == Typed /\ Lose => Typed'
  <1> SUFFICES ASSUME Typed, Lose PROVE Typed'
    OBVIOUS
  <1>1. PICK i \in DOMAIN wire : /\ wire[i].frame \in Frames
                                 /\ lost' = lost \union {Id(wire[i])}
                                 /\ wire' = RemoveAt(wire, i)
    BY DEF Lose, Id, Part
  <1>2. i \in Ours /\ Id(wire[i]) \in Frames \X Parts
    BY <1>1, OnWire DEF Ours
  <1>3. wire' \in Seq(Strays \union Sound) /\ Len(wire') <= Window
    <2>1. wire' \in Seq(Strays \union Sound) /\ Len(wire') = Len(wire) - 1
      BY <1>1, OneLost
    <2>2. Len(wire) \in Nat /\ Len(wire) <= Window /\ Window \in Nat
      BY OnWire, PacketsAssumption DEF Typed, PacketsAssumption
    <2> QED
      BY <2>1, <2>2
  <1>4. lost' \in SUBSET (Frames \X Parts)
    BY <1>1, <1>2 DEF Typed
  <1>5. IsFiniteSet(lost') /\ Cardinality(lost') <= MaxLost
    <2>1. IsFiniteSet(lost) /\ Cardinality(lost) < MaxLost /\ Cardinality(lost) \in Nat
      BY FS_CardinalityType DEF Typed, Lose
    <2>2. /\ IsFiniteSet(lost')
          /\ Cardinality(lost') = Cardinality(lost) \/ Cardinality(lost') = Cardinality(lost) + 1
      BY <1>1, <2>1, FS_AddElement
    <2> QED
      BY <2>1, <2>2, PacketsAssumption DEF PacketsAssumption
  <1> QED
    BY <1>3, <1>4, <1>5 DEF Typed, Lose, txVars, placeVars, schedVars, statVars, Place

\* Somebody else's packet arrives.
LEMMA StrayArrivesTyped == Typed /\ StrayArrives => Typed'
  <1> SUFFICES ASSUME Typed, StrayArrives PROVE Typed'
    OBVIOUS
  <1>1. PICK p \in Strays : wire' = Append(wire, p)
    BY DEF StrayArrives
  <1>2. wire' \in Seq(Strays \union Sound) /\ Len(wire') = Len(wire) + 1
    BY <1>1, Appended
  <1>3. Len(wire') <= Window /\ strays' \in 0 .. MaxStray
    BY <1>2, OnWire, PacketsAssumption DEF Typed, StrayArrives, PacketsAssumption
  <1> QED
    BY <1>2, <1>3 DEF Typed, StrayArrives, txVars, placeVars, schedVars, statVars, Place

\* A packet is unpacked or dropped.
LEMMA DepackageTyped == Typed /\ Depackage => Typed'
  <1> SUFFICES ASSUME Typed, Depackage PROVE Typed'
    OBVIOUS
  <1> DEFINE p == wire[1]
  <1>1. wire' \in Seq(Strays \union Sound) /\ Len(wire') <= Window
    <2>1. wire' \in Seq(Strays \union Sound) /\ Len(wire') = Len(wire) - 1
      BY FirstTaken DEF Depackage
    <2> QED
      BY <2>1, OnWire, PacketsAssumption DEF Typed, PacketsAssumption
  <1>2. /\ Expected' \in Parts /\ err_count' \in 0 .. Place(Expected')
        /\ lines' \in Seq(0 .. FramePackets)
    <2>1. Expected \in Parts /\ lines \in Seq(0 .. FramePackets)
      BY DEF Typed, Expected
    <2>2. Predict(p)
      BY Unpacked
    <2>3. Errors(p) \in 0 .. Place(Expected) + 1 /\ Place(Expected) \in Nat
      BY <2>1, <2>2, PredictionMoves, Places
    <2>4. CASE Expected = LastPart
      <3>1. lines' = Append(lines, Errors(p)) /\ err_count' = 0 /\ Expected' = <<0, 0>>
        BY <2>2, <2>4, PredictionMoves
      <3>2. Errors(p) \in 0 .. FramePackets
        BY <2>3, <2>4, Ends, FrameLength
      <3> HIDE DEF p
      <3> QED
        BY <2>1, <3>1, <3>2, Ends
    <2>5. CASE Expected # LastPart
      <3>1. /\ lines' = lines /\ err_count' = Errors(p)
            /\ Place(Expected') = Place(Expected) + 1 /\ Expected' \in Parts
        BY <2>2, <2>5, PredictionMoves
      <3> QED
        BY <2>1, <2>3, <3>1
    <2> QED
      BY <2>4, <2>5
  <1>3. /\ package_rx' \in [Ring -> [Parts -> 0 .. MaxFrames]]
        /\ index_rx_write' \in Ring
        /\ startNum_rx' \in Int /\ startNum_rx' <= PACK_CACHE
        /\ readyNum_rx' \in Nat
        /\ delivered' \in Seq([frame : Frames, wrong : SUBSET Parts])
    <2>1. CASE 1 \notin Ours
      BY <2>1, Unpacked DEF Typed, placeVars
    <2>2. CASE 1 \in Ours
      <3>1. /\ p \in Sound
            /\ package_rx' = [package_rx EXCEPT ![index_rx_write][Part(p)] = p.frame]
            /\ CountHeader(p) /\ Complete(p)
        BY <2>2, Unpacked
      <3>2. p.frame \in Frames /\ p.frame \in 0 .. MaxFrames /\ Part(p) \in Parts
        BY <3>1, SoundPackets DEF Frames
      <3> HIDE DEF p
      <3>3. package_rx' \in [Ring -> [Parts -> 0 .. MaxFrames]]
        BY <3>1, <3>2 DEF Typed
      <3>4. startNum_rx' \in Int /\ startNum_rx' <= PACK_CACHE
        BY <3>1, PacketsAssumption DEF CountHeader, Depackage, HasRoom, Typed, PacketsAssumption
      <3>5. /\ index_rx_write' \in Ring /\ readyNum_rx' \in Nat
            /\ delivered' \in Seq([frame : Frames, wrong : SUBSET Parts])
        <4>1. WrongParts(index_rx_write, p.frame) \in SUBSET Parts
          BY DEF WrongParts
        <4>2. CASE <<p.type, p.num>> = LastPart
          <5>1. [frame |-> p.frame, wrong |-> WrongParts(index_rx_write, p.frame)]
                  \in [frame : Frames, wrong : SUBSET Parts]
            BY <3>2, <4>1
          <5>2. /\ index_rx_write' = (index_rx_write + 1) % PACK_CACHE
                /\ readyNum_rx' = readyNum_rx + 1
                /\ delivered' = Append(delivered, [frame |-> p.frame,
                                         wrong |-> WrongParts(index_rx_write, p.frame)])
            BY <3>1, <4>2 DEF Complete
          <5>3. index_rx_write' \in Ring /\ readyNum_rx' \in Nat
            BY <5>2, RingPlaces DEF Typed
          <5>4. delivered \in Seq([frame : Frames, wrong : SUBSET Parts])
            BY DEF Typed
          <5>5. delivered' \in Seq([frame : Frames, wrong : SUBSET Parts])
            BY <5>1, <5>2, <5>4
          <5> QED
            BY <5>3, <5>5
        <4>3. CASE <<p.type, p.num>> # LastPart
          BY <3>1, <4>3 DEF Complete, Typed
        <4> QED
          BY <4>2, <4>3
      <3> QED
        BY <3>3, <3>4, <3>5
    <2> QED
      BY <2>1, <2>2
  <1> QED
    BY <1>1, <1>2, <1>3 DEF Typed, Depackage, txVars, schedVars, Expected, Place

\* The scheduler takes a frame or finishes one.
LEMMA SchedulerTyped == Typed /\ (TakeFrame \/ FinishFrame) => Typed'
  <1>1. ASSUME Typed, TakeFrame PROVE Typed'
    <2>1. index_rx_read' \in Ring
      BY <1>1, RingPlaces DEF Typed, TakeFrame
    <2>2. readyNum_rx' \in Nat /\ working' \in 0 .. PARA_NUM_RX
      BY <1>1, PacketsAssumption DEF Typed, TakeFrame, PacketsAssumption
    <2> QED
      BY <1>1, <2>1, <2>2 DEF Typed, TakeFrame, txVars, statVars, linkVars, Place
  <1>2. ASSUME Typed, FinishFrame PROVE Typed'
    <2>1. /\ working' \in 0 .. PARA_NUM_RX
          /\ startNum_rx' \in Int /\ startNum_rx' <= PACK_CACHE
      BY <1>2, PacketsAssumption DEF Typed, FinishFrame, PacketsAssumption
    <2> QED
      BY <1>2, <2>1 DEF Typed, FinishFrame, txVars, statVars, linkVars, Place
  <1> QED
    BY <1>1, <1>2

\* A step of nobody.
LEMMA IdleTyped == Typed /\ UNCHANGED vars => Typed'
  BY DEF Typed, vars, txVars, placeVars, schedVars, statVars, linkVars, Place

\* All steps.
LEMMA StepTyped == Typed /\ [Next]_vars => Typed'
  BY SendPacketTyped, LoseTyped, StrayArrivesTyped, DepackageTyped, SchedulerTyped, IdleTyped
  DEF Next

-----------------------------------------------------------------------------
(* The packets that have arrived: only depackage adds to them *)

\* Sending a packet and losing one leave them as they are,
LEMMA ArrivedSend ==
  ASSUME Typed, Link, SendPacket
  PROVE  Arrived' = Arrived
  <1> DEFINE p == Packet(frame_tx, type, num)
  <1>1. /\ p \in Sound /\ Sent \in Int /\ Sent' = Sent + 1 /\ Sent = Serial(Id(p))
    BY SentGrows
  <1>2. wire' = Append(wire, p) /\ lost' = lost
    BY DEF SendPacket
  <1>3. p \in Strays \union Sound /\ Id(p) \in Frames \X Parts
    BY <1>1, SoundPackets
  <1> HIDE DEF p
  <1>4. /\ DOMAIN wire' = 1 .. Len(wire) + 1 /\ wire'[Len(wire) + 1] = p
        /\ \A i \in 1 .. Len(wire) : wire'[i] = wire[i]
    BY <1>2, <1>3, Appended
  <1>5. DOMAIN wire = 1 .. Len(wire) /\ Len(wire) \in Nat
    BY OnWire
  <1>6. ASSUME NEW x \in Frames \X Parts
        PROVE  (Serial(x) < Sent' /\ \A i \in DOMAIN wire' : Id(wire'[i]) # x)
                 <=> (Serial(x) < Sent /\ \A i \in DOMAIN wire : Id(wire[i]) # x)
    <2>1. Serial(x) \in Int /\ (Serial(x) = Sent => x = Id(p))
      BY <1>1, <1>3, Order
    <2>2. (\A i \in DOMAIN wire' : Id(wire'[i]) # x)
            <=> (\A i \in DOMAIN wire : Id(wire[i]) # x) /\ Id(p) # x
      BY <1>4, <1>5
    <2> QED
      BY <1>1, <2>1, <2>2
  <1> QED
    BY <1>2, <1>6 DEF Arrived

\* the packet that is lost was on the wire,
LEMMA ArrivedLose ==
  ASSUME Typed, NEW i \in DOMAIN wire, wire' = RemoveAt(wire, i), i \in Ours,
         lost' = lost \union {Id(wire[i])}, Sent' = Sent
  PROVE  Arrived' = Arrived
  <1>1. /\ DOMAIN wire' = 1 .. Len(wire) - 1
        /\ \A j \in 1 .. Len(wire) - 1 : wire'[j] = IF j < i THEN wire[j] ELSE wire[j + 1]
    BY OneLost
  <1>2. DOMAIN wire = 1 .. Len(wire) /\ Len(wire) \in Nat
    BY OnWire
  <1>3. ASSUME NEW x
        PROVE  (\A j \in DOMAIN wire : Id(wire[j]) # x)
                 <=> (\A j \in DOMAIN wire' : Id(wire'[j]) # x) /\ x # Id(wire[i])
    <2>1. ASSUME \A j \in DOMAIN wire : Id(wire[j]) # x, NEW j \in DOMAIN wire'
          PROVE  Id(wire'[j]) # x
      <3>1. j \in DOMAIN wire /\ j + 1 \in DOMAIN wire
        BY <1>1, <1>2
      <3> QED
        BY <1>1, <2>1, <3>1
    <2>2. ASSUME \A j \in DOMAIN wire' : Id(wire'[j]) # x, x # Id(wire[i]), NEW j \in DOMAIN wire
          PROVE  Id(wire[j]) # x
      <3>1. CASE j < i
        <4>1. j \in DOMAIN wire' /\ wire'[j] = wire[j]
          BY <1>1, <1>2, <3>1
        <4> QED
          BY <2>2, <4>1
      <3>2. CASE j > i
        <4>1. j - 1 \in DOMAIN wire' /\ ~(j - 1 < i) /\ j - 1 + 1 = j
          BY <1>1, <1>2, <3>2
        <4>2. wire'[j - 1] = wire[j]
          BY <1>1, <4>1
        <4> QED
          BY <2>2, <4>1, <4>2
      <3> QED
        BY <1>2, <2>2, <3>1, <3>2
    <2> QED
      BY <2>1, <2>2
  <1> QED
    BY <1>3 DEF Arrived

\* a packet from elsewhere is not the sender's,
LEMMA ArrivedStray ==
  ASSUME Typed, NEW p \in Strays, wire' = Append(wire, p), lost' = lost, Sent' = Sent
  PROVE  Arrived' = Arrived
  <1>1. /\ DOMAIN wire' = 1 .. Len(wire) + 1 /\ wire'[Len(wire) + 1] = p
        /\ \A i \in 1 .. Len(wire) : wire'[i] = wire[i]
    BY Appended
  <1>2. DOMAIN wire = 1 .. Len(wire) /\ Len(wire) \in Nat
    BY OnWire
  <1>3. \A x \in Frames \X Parts : Id(p) # x
    BY StrayPackets DEF Id
  <1>4. ASSUME NEW x \in Frames \X Parts
        PROVE  (\A i \in DOMAIN wire' : Id(wire'[i]) # x) <=> (\A i \in DOMAIN wire : Id(wire[i]) # x)
    BY <1>1, <1>2, <1>3
  <1> QED
    BY <1>4 DEF Arrived

\* and the packet the consumer takes has arrived, if it is the sender's.
LEMMA ArrivedDepackage ==
  ASSUME Typed, Link, Depackage
  PROVE  /\ 1 \in Ours => Id(wire[1]) \notin Arrived /\ Arrived' = Arrived \union {Id(wire[1])}
         /\ 1 \notin Ours => Arrived' = Arrived
  <1>1. wire # << >> /\ wire' = Tail(wire) /\ lost' = lost /\ Sent' = Sent /\ 1 \in DOMAIN wire
    BY Unpacked DEF Depackage, txVars, Sent
  <1>2. /\ DOMAIN wire' = 1 .. Len(wire) - 1
        /\ \A i \in 1 .. Len(wire) - 1 : wire'[i] = wire[i + 1]
    BY <1>1, FirstTaken
  <1>3. DOMAIN wire = 1 .. Len(wire) /\ Len(wire) \in Nat
    BY OnWire
  <1>4. ASSUME NEW x
        PROVE  (\A j \in DOMAIN wire : Id(wire[j]) # x)
                 <=> (\A j \in DOMAIN wire' : Id(wire'[j]) # x) /\ x # Id(wire[1])
    <2>1. ASSUME \A j \in DOMAIN wire : Id(wire[j]) # x, NEW j \in DOMAIN wire'
          PROVE  Id(wire'[j]) # x
      <3>1. j + 1 \in DOMAIN wire /\ wire'[j] = wire[j + 1]
        BY <1>2, <1>3
      <3> QED
        BY <2>1, <3>1
    <2>2. ASSUME \A j \in DOMAIN wire' : Id(wire'[j]) # x, x # Id(wire[1]), NEW j \in DOMAIN wire
          PROVE  Id(wire[j]) # x
      <3>1. CASE j > 1
        <4>1. j - 1 \in DOMAIN wire' /\ j - 1 + 1 = j
          BY <1>2, <1>3, <3>1
        <4>2. wire'[j - 1] = wire[j]
          BY <1>2, <4>1
        <4> QED
          BY <2>2, <4>1, <4>2
      <3> QED
        BY <1>3, <2>2, <3>1
    <2> QED
      BY <1>1, <2>1, <2>2
  <1>5. CASE 1 \in Ours
    <2>1. /\ Id(wire[1]) \in Frames \X Parts /\ Serial(Id(wire[1])) < Sent
          /\ Id(wire[1]) \notin lost
      BY <1>5, OnWire DEF Link
    <2>2. ASSUME NEW j \in DOMAIN wire'
          PROVE  Id(wire'[j]) # Id(wire[1])
      <3>1. j + 1 \in DOMAIN wire /\ wire'[j] = wire[j + 1] /\ 1 < j + 1
        BY <1>2, <1>3
      <3>2. CASE j + 1 \in Ours
        <4>1. Serial(Id(wire[1])) < Serial(Id(wire[j + 1]))
          BY <1>5, <3>1, <3>2 DEF Link
        <4>2. Serial(Id(wire[1])) \in Int
          BY <1>5, OnWire
        <4> QED
          BY <3>1, <4>1, <4>2
      <3>3. CASE j + 1 \notin Ours
        BY <2>1, <3>1, <3>3, OnWire
      <3> QED
        BY <3>2, <3>3
    <2>3. Id(wire[1]) \in Arrived'
      BY <1>1, <2>1, <2>2 DEF Arrived
    <2>4. Id(wire[1]) \notin Arrived
      BY <1>1 DEF Arrived
    <2>5. ASSUME NEW x, x # Id(wire[1])
          PROVE  x \in Arrived' <=> x \in Arrived
      BY <1>1, <1>4, <2>5 DEF Arrived
    <2> QED
      BY <1>5, <2>3, <2>4, <2>5
  <1>6. CASE 1 \notin Ours
    <2>1. \A x \in Frames \X Parts : x # Id(wire[1])
      BY <1>1, <1>6, OnWire
    <2> QED
      BY <1>1, <1>4, <1>6, <2>1 DEF Arrived
  <1> QED
    BY <1>5, <1>6

-----------------------------------------------------------------------------
(* The link keeps the order *)

\* Nothing is on the wire in the first state.
LEMMA InitLink == Init => Link /\ Arrived = {}
  <1> SUFFICES ASSUME Init PROVE Link /\ Arrived = {}
    OBVIOUS
  <1>1. Ours = {} /\ lost = {}
    BY DEF Init, Ours
  <1>2. Sent = Serial(<<1, <<0, 0>>>>)
    BY DEF Init, Sent
  <1>3. Arrived = {}
    <2>1. ASSUME NEW x \in Frames \X Parts
          PROVE  ~(Serial(x) < Sent)
      <3>1. x = <<x[1], x[2]>> /\ x[1] \in Nat /\ x[2] \in Parts /\ x[1] \in Frames
        BY Order
      <3>2. x[1] >= 1 /\ 1 \in Nat
        BY <3>1 DEF Frames
      <3>3. CASE x[1] = 1
        <4>1. Serial(<<x[1], x[2]>>) < Serial(<<1, <<0, 0>>>>) <=> Place(x[2]) < Place(<<0, 0>>)
          BY <3>1, <3>2, <3>3, Ends, Serials
        <4>2. ~(Place(x[2]) < Place(<<0, 0>>))
          BY <3>1, Ends, Places
        <4> QED
          BY <1>2, <3>1, <4>1, <4>2
      <3>4. CASE x[1] > 1
        <4>1. Serial(<<1, <<0, 0>>>>) < Serial(<<x[1], x[2]>>)
          BY <3>1, <3>2, <3>4, Ends, Serials
        <4>2. Serial(<<1, <<0, 0>>>>) \in Int /\ Serial(<<x[1], x[2]>>) \in Int
          BY <3>1, <3>2, Ends, Serials
        <4> QED
          BY <1>2, <3>1, <4>1, <4>2
      <3> QED
        BY <3>1, <3>2, <3>3, <3>4
    <2> QED
      BY <2>1 DEF Arrived
  <1> QED
    BY <1>1, <1>3 DEF Link

\* A new packet has the highest number.
LEMMA SendPacketLink == Typed /\ Link /\ SendPacket => Link'
  <1> SUFFICES ASSUME Typed, Link, SendPacket PROVE Link'
    OBVIOUS
  <1> DEFINE p == Packet(frame_tx, type, num)
             n == Len(wire) + 1
  <1>1. /\ p \in Sound /\ Sent \in Int /\ Sent' = Sent + 1 /\ Sent = Serial(Id(p))
    BY SentGrows
  <1>2. wire' = Append(wire, p) /\ lost' = lost
    BY DEF SendPacket
  <1>3. p \in Strays \union Sound /\ Id(p) \in Frames \X Parts
    BY <1>1, SoundPackets
  <1> HIDE DEF p
  <1>4. /\ DOMAIN wire' = 1 .. Len(wire) + 1 /\ wire'[n] = p
        /\ \A i \in 1 .. Len(wire) : wire'[i] = wire[i]
    BY <1>2, <1>3, Appended
  <1>5. DOMAIN wire = 1 .. Len(wire) /\ Len(wire) \in Nat
    BY OnWire
  <1>6. \A i \in Ours' : \/ i = n /\ wire'[i] = p
                         \/ i \in Ours /\ i < n /\ wire'[i] = wire[i]
    BY <1>4, <1>5 DEF Ours
  <1>7. \A i \in Ours : Serial(Id(wire[i])) < Sent /\ Serial(Id(wire[i])) \in Int
    BY OnWire DEF Link
  <1>8. Id(p) \notin lost
    BY <1>1 DEF Link
  <1>9. \A x \in lost : Serial(x) < Sent /\ Serial(x) \in Int
    BY Order DEF Typed, Link
  <1>10. \A x \in Arrived : Serial(x) < Sent /\ Serial(x) \in Int
    BY Order DEF Arrived
  <1>11. ASSUME NEW i \in Ours'
         PROVE  Serial(Id(wire'[i])) < Sent' /\ Id(wire'[i]) \notin lost'
    <2>1. CASE i = n /\ wire'[i] = p
      BY <1>1, <1>2, <1>8, <2>1
    <2>2. CASE i \in Ours /\ wire'[i] = wire[i]
      BY <1>1, <1>2, <1>7, <2>2 DEF Link
    <2> QED
      BY <1>6, <2>1, <2>2
  <1>12. ASSUME NEW i \in Ours', NEW j \in Ours', i < j
         PROVE  Serial(Id(wire'[i])) < Serial(Id(wire'[j]))
    <2>1. i \in Ours /\ wire'[i] = wire[i]
      BY <1>4, <1>5, <1>6, <1>12 DEF Ours
    <2>2. CASE j = n /\ wire'[j] = p
      BY <1>1, <1>7, <2>1, <2>2
    <2>3. CASE j \in Ours /\ wire'[j] = wire[j]
      BY <1>12, <2>1, <2>3 DEF Link
    <2> QED
      BY <1>6, <2>2, <2>3
  <1>13. \A x \in lost' : Serial(x) < Sent'
    BY <1>1, <1>2, <1>9
  <1>14. ASSUME NEW x \in Arrived', NEW i \in Ours'
         PROVE  Serial(x) < Serial(Id(wire'[i]))
    <2>1. x \in Arrived
      BY ArrivedSend
    <2>2. CASE i = n /\ wire'[i] = p
      BY <1>1, <1>10, <2>1, <2>2
    <2>3. CASE i \in Ours /\ wire'[i] = wire[i]
      BY <2>1, <2>3 DEF Link
    <2> QED
      BY <1>6, <2>2, <2>3
  <1> QED
    BY <1>11, <1>12, <1>13, <1>14 DEF Link

\* A packet that is lost leaves the others in their order.
LEMMA LoseLink == Typed /\ Link /\ Lose => Link'
  <1> SUFFICES ASSUME Typed, Link, Lose PROVE Link'
    OBVIOUS
  <1>1. PICK i \in DOMAIN wire : /\ wire[i].frame \in Frames
                                 /\ lost' = lost \union {Id(wire[i])}
                                 /\ wire' = RemoveAt(wire, i)
    BY DEF Lose, Id, Part
  <1>2. i \in Ours
    BY <1>1 DEF Ours
  <1>3. Sent' = Sent
    BY DEF Lose, txVars, Sent
  <1>4. Arrived' = Arrived
    BY <1>1, <1>2, <1>3, ArrivedLose
  <1>5. /\ DOMAIN wire' = 1 .. Len(wire) - 1
        /\ \A j \in 1 .. Len(wire) - 1 : wire'[j] = IF j < i THEN wire[j] ELSE wire[j + 1]
    BY <1>1, OneLost
  <1>6. DOMAIN wire = 1 .. Len(wire) /\ Len(wire) \in Nat
    BY OnWire
  <1> DEFINE g == [j \in 1 .. Len(wire) - 1 |-> IF j < i THEN j ELSE j + 1]
  <1>7. ASSUME NEW j \in Ours'
        PROVE  g[j] \in Ours /\ wire'[j] = wire[g[j]] /\ g[j] # i /\ j \in 1 .. Len(wire) - 1
    <2>1. j \in 1 .. Len(wire) - 1 /\ wire'[j].frame \in Frames
      BY <1>5 DEF Ours
    <2>2. g[j] \in DOMAIN wire /\ wire'[j] = wire[g[j]] /\ g[j] # i
      BY <1>5, <1>6, <2>1
    <2> QED
      BY <2>1, <2>2 DEF Ours
  <1>8. \A j, k \in 1 .. Len(wire) - 1 : j < k => g[j] < g[k]
    BY <1>6
  <1> HIDE DEF g
  <1>9. ASSUME NEW j \in Ours'
        PROVE  Serial(Id(wire'[j])) < Sent' /\ Id(wire'[j]) \notin lost'
    <2>1. g[j] \in Ours /\ wire'[j] = wire[g[j]] /\ g[j] # i
      BY <1>7
    <2>2. Serial(Id(wire[g[j]])) < Sent /\ Id(wire[g[j]]) \notin lost
      BY <2>1 DEF Link
    <2>3. Id(wire[g[j]]) # Id(wire[i])
      <3>1. Serial(Id(wire[i])) \in Int /\ i \in Int /\ g[j] \in Int
        BY <1>2, <1>6, <2>1, OnWire DEF Ours
      <3>2. Serial(Id(wire[g[j]])) < Serial(Id(wire[i])) \/ Serial(Id(wire[i])) < Serial(Id(wire[g[j]]))
        BY <1>2, <2>1, <3>1 DEF Link
      <3> QED
        BY <3>1, <3>2
    <2> QED
      BY <1>1, <1>3, <2>1, <2>2, <2>3
  <1>10. ASSUME NEW j \in Ours', NEW k \in Ours', j < k
         PROVE  Serial(Id(wire'[j])) < Serial(Id(wire'[k]))
    BY <1>7, <1>8, <1>10 DEF Link
  <1>11. \A x \in lost' : Serial(x) < Sent'
    BY <1>1, <1>2, <1>3 DEF Link
  <1>12. \A x \in Arrived', j \in Ours' : Serial(x) < Serial(Id(wire'[j]))
    BY <1>4, <1>7 DEF Link
  <1> QED
    BY <1>9, <1>10, <1>11, <1>12 DEF Link

\* A packet from elsewhere has no number.
LEMMA StrayArrivesLink == Typed /\ Link /\ StrayArrives => Link'
  <1> SUFFICES ASSUME Typed, Link, StrayArrives PROVE Link'
    OBVIOUS
  <1>1. PICK p \in Strays : wire' = Append(wire, p)
    BY DEF StrayArrives
  <1>2. lost' = lost /\ Sent' = Sent
    BY DEF StrayArrives, txVars, Sent
  <1>3. Arrived' = Arrived
    BY <1>1, <1>2, ArrivedStray
  <1>4. /\ DOMAIN wire' = 1 .. Len(wire) + 1 /\ wire'[Len(wire) + 1] = p
        /\ \A i \in 1 .. Len(wire) : wire'[i] = wire[i]
    BY <1>1, Appended
  <1>5. DOMAIN wire = 1 .. Len(wire) /\ Len(wire) \in Nat /\ p.frame \notin Frames
    BY OnWire, StrayPackets
  <1>6. \A i \in Ours' : i \in Ours /\ wire'[i] = wire[i]
    BY <1>4, <1>5 DEF Ours
  <1> QED
    BY <1>2, <1>3, <1>6 DEF Link

\* The first packet is older than those behind it.
LEMMA DepackageLink == Typed /\ Link /\ Depackage => Link'
  <1> SUFFICES ASSUME Typed, Link, Depackage PROVE Link'
    OBVIOUS
  <1>1. wire # << >> /\ wire' = Tail(wire) /\ lost' = lost /\ Sent' = Sent /\ 1 \in DOMAIN wire
    BY Unpacked DEF Depackage, txVars, Sent
  <1>2. /\ DOMAIN wire' = 1 .. Len(wire) - 1
        /\ \A i \in 1 .. Len(wire) - 1 : wire'[i] = wire[i + 1]
    BY <1>1, FirstTaken
  <1>3. DOMAIN wire = 1 .. Len(wire) /\ Len(wire) \in Nat
    BY OnWire
  <1>4. \A j \in Ours' : j + 1 \in Ours /\ wire'[j] = wire[j + 1] /\ j \in Int /\ 1 <= j
    BY <1>2, <1>3 DEF Ours
  <1>5. \A i \in Ours' : Serial(Id(wire'[i])) < Sent' /\ Id(wire'[i]) \notin lost'
    BY <1>1, <1>4 DEF Link
  <1>6. ASSUME NEW i \in Ours', NEW j \in Ours', i < j
        PROVE  Serial(Id(wire'[i])) < Serial(Id(wire'[j]))
    <2>1. i + 1 < j + 1
      BY <1>4, <1>6
    <2> QED
      BY <1>4, <2>1 DEF Link
  <1>7. \A x \in lost' : Serial(x) < Sent'
    BY <1>1 DEF Link
  <1>8. ASSUME NEW x \in Arrived', NEW i \in Ours'
        PROVE  Serial(x) < Serial(Id(wire'[i]))
    <2>1. i + 1 \in Ours /\ wire'[i] = wire[i + 1] /\ 1 < i + 1
      BY <1>4
    <2>2. CASE x \in Arrived
      BY <2>1, <2>2 DEF Link
    <2>3. CASE x \notin Arrived
      <3>1. 1 \in Ours /\ x = Id(wire[1])
        BY <2>3, ArrivedDepackage
      <3> QED
        BY <2>1, <3>1 DEF Link
    <2> QED
      BY <2>2, <2>3
  <1> QED
    BY <1>5, <1>6, <1>7, <1>8 DEF Link

\* What the scheduler does with frames does not touch the link.
LEMMA OtherLink ==
  ASSUME Link, TakeFrame \/ FinishFrame \/ UNCHANGED vars
  PROVE  Link' /\ Arrived' = Arrived
  <1>1. UNCHANGED <<txVars, linkVars>>
    BY DEF TakeFrame, FinishFrame, vars
  <1>2. wire' = wire /\ lost' = lost /\ Sent' = Sent
    BY <1>1 DEF txVars, linkVars, Sent
  <1>3. Ours' = Ours /\ Arrived' = Arrived
    BY <1>2 DEF Ours, Arrived
  <1> QED
    BY <1>2, <1>3 DEF Link

\* All steps.
LEMMA StepLink == Typed /\ Link /\ [Next]_vars => Link'
  BY SendPacketLink, LoseLink, StrayArrivesLink, DepackageLink, OtherLink DEF Next

-----------------------------------------------------------------------------
(* The contents of the ring *)

\* Nothing has been written or delivered in the first state.
LEMMA InitContents == Init => Contents /\ Deliveries
  <1> SUFFICES ASSUME Init PROVE Contents /\ Deliveries
    OBVIOUS
  <1>1. Arrived = {} /\ Lasts = {}
    BY InitLink DEF Lasts
  <1>2. \A i \in Ring, q \in Parts : package_rx[i][q] = 0
    BY DEF Init
  <1>3. DOMAIN delivered = {}
    BY DEF Init
  <1> QED
    BY <1>1, <1>2, <1>3 DEF Contents, Deliveries

\* The next packet of the sender is at least as young as all that have arrived.
LEMMA Oldest ==
  ASSUME Typed, Link, 1 \in Ours
  PROVE  /\ wire[1].frame \in Frames /\ wire[1].frame \in Nat /\ Part(wire[1]) \in Parts
         /\ Id(wire[1]) = <<wire[1].frame, Part(wire[1])>>
         /\ \A x \in Arrived : /\ x \in Frames \X Parts /\ x[1] \in Nat
                               /\ x[1] <= wire[1].frame
                               /\ Serial(x) < Serial(Id(wire[1]))
  <1>1. /\ wire[1].frame \in Frames /\ wire[1].frame \in Nat /\ Part(wire[1]) \in Parts
        /\ Id(wire[1]) \in Frames \X Parts
    BY OnWire, SoundPackets DEF Frames
  <1>2. Id(wire[1]) = <<wire[1].frame, Part(wire[1])>>
    BY DEF Id
  <1>3. ASSUME NEW x \in Arrived
        PROVE  /\ x \in Frames \X Parts /\ x[1] \in Nat
               /\ x[1] <= wire[1].frame
               /\ Serial(x) < Serial(Id(wire[1]))
    <2>1. x \in Frames \X Parts /\ Serial(x) < Serial(Id(wire[1]))
      BY DEF Arrived, Link
    <2>2. x[1] <= Id(wire[1])[1] /\ x[1] \in Nat
      BY <1>1, <2>1, Order
    <2> QED
      BY <1>2, <2>1, <2>2
  <1> QED
    BY <1>1, <1>2, <1>3

\* Unpacking keeps the contents in step with what has arrived.
LEMMA DepackageContents == Typed /\ Link /\ Contents /\ Depackage => Contents'
  <1> SUFFICES ASSUME Typed, Link, Contents, Depackage PROVE Contents'
    OBVIOUS
  <1>1. CASE 1 \notin Ours
    <2>1. /\ package_rx' = package_rx /\ index_rx_write' = index_rx_write
          /\ delivered' = delivered /\ Arrived' = Arrived
      BY <1>1, Unpacked, ArrivedDepackage DEF placeVars
    <2> QED
      BY <2>1 DEF Contents
  <1>2. CASE 1 \in Ours
    <2> DEFINE p == wire[1]
    <2>1. /\ package_rx' = [package_rx EXCEPT ![index_rx_write][Part(p)] = p.frame]
          /\ Complete(p)
      BY <1>2, Unpacked
    <2>2. Arrived' = Arrived \union {Id(p)}
      BY <1>2, ArrivedDepackage
    <2>3. /\ p.frame \in Frames /\ p.frame \in Nat /\ Part(p) \in Parts
          /\ Id(p) = <<p.frame, Part(p)>>
          /\ \A x \in Arrived : x \in Frames \X Parts /\ x[1] \in Nat /\ x[1] <= p.frame
      BY <1>2, Oldest
    <2>4. /\ package_rx \in [Ring -> [Parts -> 0 .. MaxFrames]] /\ index_rx_write \in Ring
          /\ delivered \in Seq([frame : Frames, wrong : SUBSET Parts])
      BY DEF Typed
    <2> HIDE DEF p
    <2>5. \A i \in Ring, q \in Parts :
            package_rx'[i][q] = IF i = index_rx_write /\ q = Part(p) THEN p.frame
                                                                     ELSE package_rx[i][q]
      BY <2>1, <2>3, <2>4
    <2>6. ASSUME NEW i \in Ring, NEW q \in Parts, package_rx'[i][q] # 0
          PROVE  <<package_rx'[i][q], q>> \in Arrived'
      <3>1. CASE i = index_rx_write /\ q = Part(p)
        BY <2>2, <2>3, <2>5, <3>1
      <3>2. CASE ~(i = index_rx_write /\ q = Part(p))
        BY <2>2, <2>5, <2>6, <3>2 DEF Contents
      <3> QED
        BY <3>1, <3>2
    <2>7. ASSUME NEW x \in Arrived', \A k \in DOMAIN delivered' : delivered'[k].frame < x[1]
          PROVE  x[1] <= package_rx'[index_rx_write'][x[2]]
      <3>1. x[1] <= p.frame /\ x[1] \in Nat /\ x[2] \in Parts
        BY <2>2, <2>3, Order
      <3>2. CASE <<p.type, p.num>> = LastPart
        <4>1. delivered' = Append(delivered, [frame |-> p.frame,
                                              wrong |-> WrongParts(index_rx_write, p.frame)])
          BY <2>1, <3>2 DEF Complete
        <4>2. /\ Len(delivered) + 1 \in DOMAIN delivered'
              /\ delivered'[Len(delivered) + 1].frame = p.frame
          BY <2>4, <4>1
        <4> QED
          BY <2>3, <2>7, <3>1, <4>2
      <3>3. CASE <<p.type, p.num>> # LastPart
        <4>1. index_rx_write' = index_rx_write /\ delivered' = delivered
          BY <2>1, <3>3 DEF Complete
        <4>2. CASE x[2] = Part(p)
          BY <2>3, <2>4, <2>5, <3>1, <4>1, <4>2
        <4>3. CASE x[2] # Part(p)
          <5>1. x \in Arrived
            BY <2>2, <2>3, <4>3
          <5>2. x[1] <= package_rx[index_rx_write][x[2]]
            BY <2>7, <4>1, <5>1 DEF Contents
          <5> QED
            BY <2>4, <2>5, <3>1, <4>1, <4>3, <5>2
        <4> QED
          BY <4>2, <4>3
      <3> QED
        BY <3>2, <3>3
    <2> QED
      BY <2>6, <2>7 DEF Contents
  <1> QED
    BY <1>1, <1>2

\* The link does not touch the ring.
LEMMA OnLink ==
  ASSUME Typed, Link, SendPacket \/ Lose \/ StrayArrives
  PROVE  Arrived' = Arrived /\ UNCHANGED <<placeVars, schedVars, statVars>>
  <1>1. CASE SendPacket
    BY <1>1, ArrivedSend DEF SendPacket
  <1>2. CASE Lose
    <2>1. PICK i \in DOMAIN wire : /\ wire[i].frame \in Frames
                                   /\ lost' = lost \union {Id(wire[i])}
                                   /\ wire' = RemoveAt(wire, i)
      BY <1>2 DEF Lose, Id, Part
    <2>2. i \in Ours /\ Sent' = Sent
      BY <1>2, <2>1 DEF Ours, Lose, txVars, Sent
    <2>3. Arrived' = Arrived
      BY <2>1, <2>2, ArrivedLose
    <2> QED
      BY <1>2, <2>3 DEF Lose
  <1>3. CASE StrayArrives
    <2>1. PICK p \in Strays : wire' = Append(wire, p)
      BY <1>3 DEF StrayArrives
    <2>2. lost' = lost /\ Sent' = Sent
      BY <1>3 DEF StrayArrives, txVars, Sent
    <2>3. Arrived' = Arrived
      BY <2>1, <2>2, ArrivedStray
    <2> QED
      BY <1>3, <2>3 DEF StrayArrives
  <1> QED
    BY <1>1, <1>2, <1>3

\* All steps.
LEMMA StepContents == Typed /\ Link /\ Contents /\ [Next]_vars => Contents'
  <1> SUFFICES ASSUME Typed, Link, Contents, [Next]_vars PROVE Contents'
    OBVIOUS
  <1>1. CASE Depackage
    BY <1>1, DepackageContents
  <1>2. CASE ~Depackage
    <2>1. Arrived' = Arrived
      BY <1>2, OnLink, OtherLink DEF Next
    <2>2. package_rx' = package_rx /\ index_rx_write' = index_rx_write /\ delivered' = delivered
      BY <1>2, OnLink DEF Next, placeVars, TakeFrame, FinishFrame, vars
    <2> QED
      BY <2>1, <2>2 DEF Contents
  <1> QED
    BY <1>1, <1>2

-----------------------------------------------------------------------------
(* The frames that were delivered *)

\* With the last part of a frame all its parts have arrived or are lost, and the
\* others are still in place from frames before.
LEMMA WrongAreLost ==
  ASSUME Typed, Link, Contents, Deliveries, Depackage, 1 \in Ours, Part(wire[1]) = LastPart
  PROVE  /\ WrongParts(index_rx_write, wire[1].frame) = LostOf(wire[1].frame)
         /\ \A k \in DOMAIN delivered : delivered[k].frame < wire[1].frame
  <1> DEFINE p == wire[1]  g == wire[1].frame
  <1>1. /\ g \in Frames /\ g \in Nat /\ Part(p) \in Parts /\ Id(p) = <<g, LastPart>>
        /\ \A x \in Arrived : /\ x \in Frames \X Parts /\ x[1] \in Nat
                              /\ x[1] <= g /\ Serial(x) < Serial(Id(p))
    BY Oldest
  <1>2. package_rx' = [package_rx EXCEPT ![index_rx_write][LastPart] = g]
    BY Unpacked
  <1>3. /\ package_rx \in [Ring -> [Parts -> 0 .. MaxFrames]] /\ index_rx_write \in Ring
        /\ delivered \in Seq([frame : Frames, wrong : SUBSET Parts])
    BY DEF Typed
  <1>4. Id(p) \notin lost /\ Serial(Id(p)) < Sent /\ Serial(Id(p)) \in Int /\ Sent \in Int
    <2>1. Sent \in Int
      <3>1. frame_tx \in Nat /\ <<type, num>> \in Parts
        BY DEF Typed
      <3> QED
        BY <3>1, Serials DEF Sent
    <2> QED
      BY <2>1, OnWire DEF Link
  <1>5. Id(p) \notin Arrived
    BY ArrivedDepackage
  <1>6. ASSUME NEW k \in DOMAIN delivered
        PROVE  delivered[k].frame < g
    <2>1. <<delivered[k].frame, LastPart>> \in Arrived
      BY DEF Deliveries
    <2>2. delivered[k].frame <= g /\ delivered[k].frame # g /\ delivered[k].frame \in Nat
      BY <1>1, <1>5, <2>1
    <2> QED
      BY <1>1, <2>2
  <1> HIDE DEF p, g
  <1>7. ASSUME NEW q \in Parts
        PROVE  package_rx'[index_rx_write][q] # g <=> <<g, q>> \in lost
    <2>1. CASE q = LastPart
      BY <1>1, <1>2, <1>3, <1>4, <2>1
    <2>2. CASE q # LastPart
      <3> DEFINE v == package_rx[index_rx_write][q]
      <3>1. package_rx'[index_rx_write][q] = v /\ v \in 0 .. MaxFrames
        BY <1>2, <1>3, <2>2
      <3>2. v # 0 => <<v, q>> \in Arrived
        BY <1>3 DEF Contents
      <3> HIDE DEF v
      <3>3. <<g, q>> \in Frames \X Parts /\ <<g, LastPart>> \in Frames \X Parts
        BY <1>1, Ends
      <3>4. Serial(<<g, q>>) < Serial(Id(p)) /\ Serial(<<g, q>>) \in Int
        <4>1. Serial(<<g, q>>) <= Serial(<<g, LastPart>>) /\ Serial(<<g, q>>) \in Int
          BY <3>3, Order
        <4>2. Serial(<<g, q>>) # Serial(<<g, LastPart>>)
          BY <2>2, <3>3, Order
        <4> QED
          BY <1>1, <1>4, <4>1, <4>2
      <3>5. ASSUME NEW i \in DOMAIN wire
            PROVE  Id(wire[i]) # <<g, q>>
        <4> SUFFICES ASSUME Id(wire[i]) = <<g, q>> PROVE FALSE
          OBVIOUS
        <4>1. i \in Ours /\ i \in Int /\ i >= 1
          BY <3>3, OnWire
        <4>2. i = 1 => Id(wire[i]) = Id(p)
          BY DEF p
        <4>3. i > 1 => Serial(Id(p)) < Serial(Id(wire[i]))
          BY <4>1 DEF Link, p
        <4> QED
          BY <1>4, <3>4, <4>1, <4>2, <4>3
      <3>6. CASE <<g, q>> \in lost
        <4>1. v # g
          <5> SUFFICES ASSUME v = g PROVE FALSE
            OBVIOUS
          <5>1. v # 0
            BY <1>1 DEF Frames
          <5> QED
            BY <3>2, <3>6, <5>1 DEF Arrived
        <4> QED
          BY <3>1, <3>6, <4>1
      <3>7. CASE <<g, q>> \notin lost
        <4>1. <<g, q>> \in Arrived
          BY <1>4, <3>3, <3>4, <3>5, <3>7 DEF Arrived
        <4>2. g <= v
          <5>1. (\A k \in DOMAIN delivered : delivered[k].frame < <<g, q>>[1]) =>
                  <<g, q>>[1] <= package_rx[index_rx_write][<<g, q>>[2]]
            BY <4>1 DEF Contents
          <5> QED
            BY <1>6, <5>1 DEF v
        <4>3. v # 0
          BY <1>1, <3>1, <4>2 DEF Frames
        <4>4. v <= g
          BY <1>1, <3>2, <4>3
        <4> QED
          BY <1>1, <3>1, <3>7, <4>2, <4>4
      <3> QED
        BY <3>6, <3>7
    <2> QED
      BY <2>1, <2>2
  <1>8. WrongParts(index_rx_write, g) = {q \in Parts : package_rx'[index_rx_write][q] # g}
    BY DEF WrongParts
  <1>9. WrongParts(index_rx_write, g) = LostOf(g)
    BY <1>7, <1>8 DEF LostOf
  <1> QED
    BY <1>6, <1>9 DEF g

\* A packet that is lost belongs to no delivered frame.
LEMMA LoseDeliveries == Typed /\ Link /\ Deliveries /\ Lose => Deliveries'
  <1> SUFFICES ASSUME Typed, Link, Deliveries, Lose PROVE Deliveries'
    OBVIOUS
  <1>1. PICK i \in DOMAIN wire : wire[i].frame \in Frames /\ lost' = lost \union {Id(wire[i])}
    BY DEF Lose, Id, Part
  <1>2. i \in Ours
    BY <1>1 DEF Ours
  <1>3. Arrived' = Arrived /\ delivered' = delivered
    BY OnLink DEF placeVars
  <1>4. ASSUME NEW k \in DOMAIN delivered
        PROVE  LostOf(delivered[k].frame)' = LostOf(delivered[k].frame)
    <2> DEFINE f == delivered[k].frame
    <2>1. <<f, LastPart>> \in Arrived
      BY DEF Deliveries
    <2>2. Serial(<<f, LastPart>>) < Serial(Id(wire[i])) /\ <<f, LastPart>> \in Frames \X Parts
      BY <1>2, <2>1 DEF Link, Arrived
    <2>3. \A q \in Parts : <<f, q>> # Id(wire[i])
      <3> SUFFICES ASSUME NEW q \in Parts, <<f, q>> = Id(wire[i]) PROVE FALSE
        OBVIOUS
      <3>1. <<f, q>> \in Frames \X Parts
        BY <2>2
      <3>2. Serial(<<f, q>>) <= Serial(<<f, LastPart>>) /\ Serial(<<f, q>>) \in Int
        BY <3>1, Order
      <3>3. Serial(<<f, LastPart>>) \in Int
        BY <2>2, Order
      <3> QED
        BY <2>2, <3>2, <3>3
    <2>4. LostOf(f)' = {q \in Parts : <<f, q>> \in lost'}
      BY <1>3 DEF LostOf
    <2> QED
      BY <1>1, <2>3, <2>4 DEF LostOf
  <1> QED
    BY <1>3, <1>4 DEF Deliveries, Lasts

\* A delivered frame is younger than those before it, and lacks what was lost.
LEMMA DepackageDeliveries ==
  Typed /\ Link /\ Contents /\ Deliveries /\ Depackage => Deliveries'
  <1> SUFFICES ASSUME Typed, Link, Contents, Deliveries, Depackage PROVE Deliveries'
    OBVIOUS
  <1>1. lost' = lost
    BY DEF Depackage
  <1>2. CASE 1 \notin Ours
    <2>1. delivered' = delivered /\ Arrived' = Arrived
      BY <1>2, Unpacked, ArrivedDepackage DEF placeVars
    <2> QED
      BY <1>1, <2>1 DEF Deliveries, Lasts, LostOf
  <1>3. CASE 1 \in Ours
    <2> DEFINE p == wire[1]  g == wire[1].frame
    <2>1. Complete(p) /\ Arrived' = Arrived \union {Id(p)}
      BY <1>3, Unpacked, ArrivedDepackage
    <2>2. g \in Frames /\ g \in Nat /\ g >= 1 /\ Part(p) \in Parts /\ Id(p) = <<g, Part(p)>>
      BY <1>3, Oldest DEF Frames
    <2>3. /\ delivered \in Seq([frame : Frames, wrong : SUBSET Parts])
          /\ \A k \in DOMAIN delivered : delivered[k].frame \in Nat
      <3>1. delivered \in Seq([frame : Frames, wrong : SUBSET Parts])
        BY DEF Typed
      <3>2. \A k \in DOMAIN delivered : <<delivered[k].frame, LastPart>> \in Frames \X Parts
        BY DEF Deliveries, Arrived
      <3>3. \A k \in DOMAIN delivered : delivered[k].frame \in Frames
        BY <3>2
      <3> QED
        BY <3>1, <3>3 DEF Frames
    <2>4. CASE Part(p) # LastPart
      <3>1. delivered' = delivered
        BY <2>1, <2>4 DEF Complete, Part
      <3>2. Lasts' = Lasts
        BY <2>1, <2>2, <2>4 DEF Lasts
      <3> QED
        BY <1>1, <2>1, <3>1, <3>2 DEF Deliveries, LostOf
    <2>5. CASE Part(p) = LastPart
      <3> DEFINE n == Len(delivered) + 1
                 d == [frame |-> g, wrong |-> WrongParts(index_rx_write, g)]
      <3>1. delivered' = Append(delivered, d)
        BY <2>1, <2>5 DEF Complete, Part
      <3>2. d.frame = g /\ d.wrong = LostOf(g)
        BY <1>3, <2>5, WrongAreLost
      <3>3. \A k \in DOMAIN delivered : delivered[k].frame < g
        BY <1>3, <2>5, WrongAreLost
      <3> HIDE DEF p, g, d
      <3>4. /\ DOMAIN delivered' = 1 .. n /\ delivered'[n] = d
            /\ \A k \in DOMAIN delivered : delivered'[k] = delivered[k]
            /\ DOMAIN delivered = 1 .. n - 1 /\ n \in Nat
        BY <2>3, <3>1
      <3>5. n <= g
        <4>1. CASE n = 1
          BY <2>2, <4>1
        <4>2. CASE n # 1
          <5>1. n - 1 \in DOMAIN delivered
            BY <3>4, <4>2
          <5>2. n - 1 <= delivered[n - 1].frame /\ delivered[n - 1].frame < g
            BY <3>3, <5>1 DEF Deliveries
          <5> QED
            BY <2>2, <2>3, <3>4, <5>1, <5>2
        <4> QED
          BY <4>1, <4>2
      <3>6. ASSUME NEW k \in DOMAIN delivered'
            PROVE  /\ <<delivered'[k].frame, LastPart>> \in Arrived'
                   /\ delivered'[k].wrong = LostOf(delivered'[k].frame)
                   /\ k <= delivered'[k].frame
        <4>1. CASE k = n
          BY <2>1, <2>2, <2>5, <3>2, <3>4, <3>5, <4>1
        <4>2. CASE k # n
          <5>1. k \in DOMAIN delivered /\ delivered'[k] = delivered[k]
            BY <3>4, <4>2
          <5> QED
            BY <2>1, <5>1 DEF Deliveries
        <4> QED
          BY <4>1, <4>2
      <3>7. ASSUME NEW j \in DOMAIN delivered', NEW k \in DOMAIN delivered', j < k
            PROVE  delivered'[j].frame < delivered'[k].frame
        <4>1. j \in DOMAIN delivered /\ delivered'[j] = delivered[j]
          BY <3>4, <3>7
        <4>2. CASE k = n
          BY <3>2, <3>3, <3>4, <4>1, <4>2
        <4>3. CASE k # n
          <5>1. k \in DOMAIN delivered /\ delivered'[k] = delivered[k]
            BY <3>4, <4>3
          <5> QED
            BY <3>7, <4>1, <5>1 DEF Deliveries
        <4> QED
          BY <4>2, <4>3
      <3>8. ASSUME NEW f \in Lasts'
            PROVE  \E k \in DOMAIN delivered' : delivered'[k].frame = f
        <4>1. CASE f = g
          BY <3>2, <3>4, <4>1
        <4>2. CASE f # g
          <5>1. f \in Lasts
            BY <2>1, <2>2, <3>8, <4>2 DEF Lasts
          <5>2. PICK k \in DOMAIN delivered : delivered[k].frame = f
            BY <5>1 DEF Deliveries
          <5> QED
            BY <3>4, <5>2
        <4> QED
          BY <4>1, <4>2
      <3>9. ASSUME NEW k \in DOMAIN delivered'
            PROVE  delivered'[k].wrong = {q \in Parts : <<delivered'[k].frame, q>> \in lost'}
        BY <1>1, <3>6 DEF LostOf
      <3> QED
        BY <3>6, <3>7, <3>8, <3>9 DEF Deliveries, LostOf
    <2> QED
      BY <2>4, <2>5
  <1> QED
    BY <1>2, <1>3

\* All steps.
LEMMA StepDeliveries ==
  Typed /\ Link /\ Contents /\ Deliveries /\ [Next]_vars => Deliveries'
  <1> SUFFICES ASSUME Typed, Link, Contents, Deliveries, [Next]_vars PROVE Deliveries'
    OBVIOUS
  <1>1. CASE Depackage
    BY <1>1, DepackageDeliveries
  <1>2. CASE Lose
    BY <1>2, LoseDeliveries
  <1>3. CASE ~Depackage /\ ~Lose
    <2>1. Arrived' = Arrived
      BY <1>3, OnLink, OtherLink DEF Next
    <2>2. delivered' = delivered
      BY <1>3, OnLink DEF Next, placeVars, TakeFrame, FinishFrame, vars
    <2>3. lost' = lost
      BY <1>3 DEF Next, SendPacket, StrayArrives, TakeFrame, FinishFrame, vars, linkVars
    <2> QED
      BY <2>1, <2>2, <2>3 DEF Deliveries, Lasts, LostOf
  <1> QED
    BY <1>1, <1>2, <1>3

-----------------------------------------------------------------------------
(* The count of frames *)

\* A union has no more elements than its parts together.
LEMMA UnionBound ==
  ASSUME NEW S, NEW T, IsFiniteSet(S), IsFiniteSet(T)
  PROVE  /\ IsFiniteSet(S \union T) /\ Cardinality(S \union T) \in Nat
         /\ Cardinality(S \union T) <= Cardinality(S) + Cardinality(T)
  <1>1. IsFiniteSet(S \union T) /\ IsFiniteSet(S \cap T)
    <2>1. S \cap T \in SUBSET S
      OBVIOUS
    <2> QED
      BY <2>1, FS_Union, FS_Subset
  <1>2. /\ Cardinality(S \union T) \in Nat /\ Cardinality(S \cap T) \in Nat
        /\ Cardinality(S) \in Nat /\ Cardinality(T) \in Nat
    BY <1>1, FS_CardinalityType
  <1>3. Cardinality(S \union T) = Cardinality(S) + Cardinality(T) - Cardinality(S \cap T)
    BY FS_Union
  <1> QED
    BY <1>1, <1>2, <1>3

\* The frames whose first, and those whose last, packet has arrived.
LEMMA HeadersAndLasts ==
  /\ Headers \subseteq Frames /\ IsFiniteSet(Headers) /\ Cardinality(Headers) \in Nat
  /\ Lasts \subseteq Frames /\ IsFiniteSet(Lasts) /\ Cardinality(Lasts) \in Nat
  <1>1. IsFiniteSet(Frames)
    BY FS_Interval, PacketsAssumption DEF PacketsAssumption, Frames
  <1>2. Headers \in SUBSET Frames /\ Lasts \in SUBSET Frames
    BY DEF Headers, Lasts
  <1>3. IsFiniteSet(Headers) /\ IsFiniteSet(Lasts)
    BY <1>1, <1>2, FS_Subset
  <1> QED
    BY <1>2, <1>3, FS_CardinalityType

\* Adding and taking off multiples.
LEMMA Multiples ==
  ASSUME NEW x \in Int, NEW d \in Int, Multiple(x, d)
  PROVE  Multiple(x + d, d) /\ Multiple(x - d, d)
  <1>1. PICK q \in Int : x = d * q
    BY DEF Multiple
  <1>2. x + d = d * (q + 1) /\ x - d = d * (q - 1) /\ q + 1 \in Int /\ q - 1 \in Int
    BY <1>1
  <1> QED
    BY <1>2 DEF Multiple

\* The first state is in order.
LEMMA InitRooms == Init => Rooms
  <1> SUFFICES ASSUME Init PROVE Rooms
    OBVIOUS
  <1>1. Headers = {} /\ Lasts = {}
    BY InitLink DEF Headers, Lasts
  <1>2. index_rx_read + readyNum_rx - index_rx_write = PACK_CACHE * 0
    BY PacketsAssumption DEF Init, PacketsAssumption
  <1>3. Multiple(index_rx_read + readyNum_rx - index_rx_write, PACK_CACHE)
    BY <1>2 DEF Multiple
  <1>4. Cardinality(Headers) = 0 /\ Cardinality(Lasts) = 0
    BY <1>1, FS_EmptySet
  <1>5. startNum_rx = 0 /\ working = 0 /\ readyNum_rx = 0 /\ Len(delivered) = 0
    BY DEF Init
  <1> QED
    BY <1>3, <1>4, <1>5 DEF Rooms

\* A header is counted when it arrives, a frame is ready with its last packet.
LEMMA DepackageRooms == Typed /\ Link /\ Rooms /\ Depackage => Rooms'
  <1> SUFFICES ASSUME Typed, Link, Rooms, Depackage PROVE Rooms'
    OBVIOUS
  <1>1. working' = working /\ index_rx_read' = index_rx_read
    BY DEF Depackage, schedVars
  <1>2. CASE 1 \notin Ours
    <2>1. UNCHANGED placeVars /\ Arrived' = Arrived
      BY <1>2, Unpacked, ArrivedDepackage
    <2> QED
      BY <1>1, <2>1 DEF Rooms, Headers, Lasts, placeVars
  <1>3. CASE 1 \in Ours
    <2> DEFINE p == wire[1]  g == wire[1].frame
    <2>1. /\ CountHeader(p) /\ Complete(p)
          /\ Id(p) \notin Arrived /\ Arrived' = Arrived \union {Id(p)}
      BY <1>3, Unpacked, ArrivedDepackage
    <2>2. g \in Frames /\ Part(p) \in Parts /\ Id(p) = <<g, Part(p)>>
      BY <1>3, Oldest
    <2>3. p.type = 0 <=> Part(p) = <<0, 0>>
      <3>1. Part(p)[1] = 0 => Part(p)[2] \in 0 .. 0
        BY <2>2, PartOf DEF Count
      <3> QED
        BY <3>1 DEF Part
    <2> HIDE DEF p, g
    <2>4. /\ startNum_rx \in Int /\ working \in Int /\ readyNum_rx \in Nat
          /\ index_rx_read \in Ring /\ index_rx_write \in Ring
          /\ delivered \in Seq([frame : Frames, wrong : SUBSET Parts])
          /\ PACK_CACHE \in Int
      BY PacketsAssumption DEF Typed, PacketsAssumption
    <2>5. Cardinality(Headers') = Cardinality(Headers) + (IF p.type = 0 THEN 1 ELSE 0)
      <3>1. CASE p.type = 0
        <4>1. Headers' = Headers \union {g} /\ g \notin Headers
          BY <2>1, <2>2, <2>3, <3>1 DEF Headers
        <4> QED
          BY <3>1, <4>1, FS_AddElement, HeadersAndLasts
      <3>2. CASE p.type # 0
        <4>1. Headers' = Headers
          BY <2>1, <2>2, <2>3, <3>2 DEF Headers
        <4> QED
          BY <3>2, <4>1, HeadersAndLasts
      <3> QED
        BY <3>1, <3>2
    <2>6. startNum_rx' = startNum_rx + (IF p.type = 0 THEN 1 ELSE 0)
      BY <2>1, <2>4 DEF CountHeader
    <2>7. CASE Part(p) # LastPart
      <3>1. /\ index_rx_write' = index_rx_write /\ readyNum_rx' = readyNum_rx
            /\ delivered' = delivered
        BY <2>1, <2>7 DEF Complete, Part
      <3>2. Lasts' = Lasts
        BY <2>1, <2>2, <2>7 DEF Lasts
      <3> QED
        BY <1>1, <2>4, <2>5, <2>6, <3>1, <3>2, HeadersAndLasts DEF Rooms
    <2>8. CASE Part(p) = LastPart
      <3>1. /\ index_rx_write' = (index_rx_write + 1) % PACK_CACHE
            /\ readyNum_rx' = readyNum_rx + 1
            /\ Len(delivered') = Len(delivered) + 1 /\ Len(delivered) \in Nat
        BY <2>1, <2>4, <2>8 DEF Complete, Part
      <3>2. Lasts' = Lasts \union {g} /\ g \notin Lasts
        BY <2>1, <2>2, <2>8 DEF Lasts
      <3>3. Cardinality(Lasts') = Cardinality(Lasts) + 1
        BY <3>2, FS_AddElement, HeadersAndLasts
      <3>4. Multiple(index_rx_read' + readyNum_rx' - index_rx_write', PACK_CACHE)
        <4> DEFINE x == index_rx_read + readyNum_rx - index_rx_write
        <4>1. x \in Int /\ Multiple(x, PACK_CACHE)
          BY <2>4, RingPlaces DEF Rooms
        <4>0. /\ index_rx_read \in Int /\ index_rx_write \in Int
              /\ index_rx_write' = IF index_rx_write + 1 = PACK_CACHE THEN 0 ELSE index_rx_write + 1
          BY <2>4, <3>1, RingPlaces
        <4>2. CASE index_rx_write + 1 = PACK_CACHE
          <5>0. /\ index_rx_read' = index_rx_read /\ readyNum_rx' = readyNum_rx + 1
                /\ index_rx_write' = 0 /\ readyNum_rx \in Int
            BY <1>1, <2>4, <3>1, <4>0, <4>2
          <5>1. index_rx_read' + readyNum_rx' - index_rx_write' = x + PACK_CACHE
            BY <4>0, <4>2, <5>0
          <5> HIDE DEF x
          <5> QED
            BY <2>4, <4>1, <5>1, Multiples
        <4>3. CASE index_rx_write + 1 # PACK_CACHE
          <5>0. /\ index_rx_read' = index_rx_read /\ readyNum_rx' = readyNum_rx + 1
                /\ index_rx_write' = index_rx_write + 1 /\ readyNum_rx \in Int
            BY <1>1, <2>4, <3>1, <4>0, <4>3
          <5>1. index_rx_read' + readyNum_rx' - index_rx_write' = x
            BY <4>0, <5>0
          <5> QED
            BY <4>1, <5>1
        <4> QED
          BY <4>2, <4>3
      <3>5. startNum_rx' - working' - readyNum_rx' = Cardinality(Headers') - Cardinality(Lasts')
        BY <1>1, <2>4, <2>5, <2>6, <3>1, <3>3, HeadersAndLasts DEF Rooms
      <3>6. readyNum_rx' + working' <= Len(delivered')
        BY <1>1, <2>4, <3>1 DEF Rooms
      <3> QED
        BY <3>4, <3>5, <3>6 DEF Rooms
    <2> QED
      BY <2>7, <2>8
  <1> QED
    BY <1>2, <1>3

\* The scheduler moves a frame from the ready ones to the slots, and out of them.
LEMMA SchedulerRooms == Typed /\ Link /\ Rooms /\ (TakeFrame \/ FinishFrame) => Rooms'
  <1> SUFFICES ASSUME Typed, Link, Rooms, TakeFrame \/ FinishFrame PROVE Rooms'
    OBVIOUS
  <1>1. Headers' = Headers /\ Lasts' = Lasts
    BY OtherLink DEF Headers, Lasts
  <1>2. /\ startNum_rx \in Int /\ working \in Int /\ readyNum_rx \in Nat
        /\ index_rx_read \in Ring /\ index_rx_write \in Ring /\ PACK_CACHE \in Int
        /\ Len(delivered) \in Nat
    BY PacketsAssumption DEF Typed, PacketsAssumption
  <1> DEFINE x == index_rx_read + readyNum_rx - index_rx_write
  <1>3. x \in Int /\ Multiple(x, PACK_CACHE)
    BY <1>2, RingPlaces DEF Rooms
  <1>4. CASE TakeFrame
    <2>1. /\ readyNum_rx' = readyNum_rx - 1 /\ working' = working + 1
          /\ index_rx_read' = (index_rx_read + 1) % PACK_CACHE
          /\ index_rx_write' = index_rx_write /\ startNum_rx' = startNum_rx
          /\ delivered' = delivered
      BY <1>4 DEF TakeFrame
    <2>2. Multiple(index_rx_read' + readyNum_rx' - index_rx_write', PACK_CACHE)
      <3>0. /\ index_rx_read \in Int /\ index_rx_write \in Int
            /\ index_rx_read' = IF index_rx_read + 1 = PACK_CACHE THEN 0 ELSE index_rx_read + 1
        BY <1>2, <2>1, RingPlaces
      <3>1. CASE index_rx_read + 1 = PACK_CACHE
        <4>1. index_rx_read' + readyNum_rx' - index_rx_write' = x - PACK_CACHE
          BY <1>2, <2>1, <3>0, <3>1
        <4> HIDE DEF x
        <4> QED
          BY <1>2, <1>3, <4>1, Multiples
      <3>2. CASE index_rx_read + 1 # PACK_CACHE
        <4>1. index_rx_read' + readyNum_rx' - index_rx_write' = x
          BY <1>2, <2>1, <3>0, <3>2
        <4> QED
          BY <1>3, <4>1
      <3> QED
        BY <3>1, <3>2
    <2> QED
      BY <1>1, <1>2, <2>1, <2>2, HeadersAndLasts DEF Rooms
  <1>5. CASE FinishFrame
    <2>1. /\ readyNum_rx' = readyNum_rx /\ working' = working - 1
          /\ index_rx_read' = index_rx_read
          /\ index_rx_write' = index_rx_write /\ startNum_rx' = startNum_rx - 1
          /\ delivered' = delivered
      BY <1>5 DEF FinishFrame
    <2> QED
      BY <1>1, <1>2, <2>1, HeadersAndLasts DEF Rooms
  <1> QED
    BY <1>4, <1>5

\* All steps.
LEMMA StepRooms == Typed /\ Link /\ Rooms /\ [Next]_vars => Rooms'
  <1> SUFFICES ASSUME Typed, Link, Rooms, [Next]_vars PROVE Rooms'
    OBVIOUS
  <1>1. CASE Depackage
    BY <1>1, DepackageRooms
  <1>2. CASE TakeFrame \/ FinishFrame
    BY <1>2, SchedulerRooms
  <1>3. CASE SendPacket \/ Lose \/ StrayArrives \/ UNCHANGED vars
    <2>1. Arrived' = Arrived /\ UNCHANGED <<placeVars, schedVars>>
      BY <1>3, OnLink, OtherLink DEF vars
    <2> QED
      BY <2>1 DEF Rooms, Headers, Lasts, placeVars, schedVars
  <1> QED
    BY <1>1, <1>2, <1>3 DEF Next

\* A frame that is complete has its header, or the header was lost.
LEMMA NoMoreLasts ==
  ASSUME Typed, Link
  PROVE  /\ Cardinality(Lasts) <= Cardinality(Headers) + Cardinality(lost)
         /\ (\A f \in Frames : <<0, 0>> \notin LostOf(f)) =>
              Cardinality(Lasts) <= Cardinality(Headers)
  <1> DEFINE H == [f \in Lasts \ Headers |-> <<f, <<0, 0>>>>]
  <1>1. ASSUME NEW f \in Lasts \ Headers
        PROVE  <<f, <<0, 0>>>> \in lost
    <2> DEFINE x == <<f, LastPart>>  h == <<f, <<0, 0>>>>
    <2>1. f \in Frames /\ x \in Arrived /\ x \in Frames \X Parts /\ h \in Frames \X Parts
      BY Ends DEF Lasts, Arrived
    <2>2. Serial(h) <= Serial(x) /\ Serial(h) \in Int /\ Serial(x) \in Int /\ Serial(x) < Sent
      BY <2>1, Order DEF Arrived
    <2>3. Sent \in Int
      <3>1. frame_tx \in Nat /\ <<type, num>> \in Parts
        BY DEF Typed
      <3> QED
        BY <3>1, Serials DEF Sent
    <2> SUFFICES ASSUME h \notin lost PROVE FALSE
      OBVIOUS
    <2>4. h \notin Arrived
      BY <2>1 DEF Headers
    <2> HIDE DEF x, h
    <2>5. PICK i \in DOMAIN wire : Id(wire[i]) = h
      BY <2>1, <2>2, <2>3, <2>4 DEF Arrived
    <2>6. i \in Ours
      BY <2>1, <2>5, OnWire
    <2>7. Serial(x) < Serial(h)
      BY <2>1, <2>5, <2>6 DEF Link
    <2> QED
      BY <2>2, <2>7
  <1>2. IsFiniteSet(lost) /\ Cardinality(lost) \in Nat
    BY FS_CardinalityType DEF Typed
  <1>3. H \in Injection(Lasts \ Headers, lost)
    <2>1. H \in [Lasts \ Headers -> lost]
      BY <1>1
    <2>2. \A a, b \in Lasts \ Headers : H[a] = H[b] => a = b
      OBVIOUS
    <2> HIDE DEF H
    <2> QED
      BY <2>1, <2>2 DEF Injection, IsInjective
  <1>4. Cardinality(Lasts \ Headers) <= Cardinality(lost)
    BY <1>2, <1>3, FS_Injection
  <1>5. /\ Cardinality(Lasts \ Headers) = Cardinality(Lasts) - Cardinality(Lasts \cap Headers)
        /\ Cardinality(Lasts \cap Headers) <= Cardinality(Headers)
        /\ Cardinality(Lasts \cap Headers) \in Nat
    BY FS_Difference, FS_Intersection, FS_CardinalityType, HeadersAndLasts
  <1>6. (\A f \in Frames : <<0, 0>> \notin LostOf(f)) => Lasts \in SUBSET Headers
    BY <1>1, Ends, HeadersAndLasts DEF LostOf
  <1>7. Lasts \in SUBSET Headers => Cardinality(Lasts) <= Cardinality(Headers)
    BY FS_Subset, HeadersAndLasts
  <1> QED
    BY <1>2, <1>4, <1>5, <1>6, <1>7, HeadersAndLasts

-----------------------------------------------------------------------------
(* The prediction counts packets *)

\* The lost packets with numbers below k.
LEMMA BeforeTypes ==
  ASSUME Typed, NEW k
  PROVE  /\ IsFiniteSet(Before(lost, k)) /\ Cardinality(Before(lost, k)) \in Nat
         /\ Cardinality(Before(lost, k)) <= Cardinality(lost)
         /\ IsFiniteSet(lost) /\ Cardinality(lost) \in Nat
  <1>1. IsFiniteSet(lost) /\ Before(lost, k) \in SUBSET lost
    BY DEF Typed, Before
  <1> QED
    BY <1>1, FS_Subset, FS_CardinalityType

\* What is sent and taken is a number of packets.
LEMMA Totals ==
  ASSUME Typed
  PROVE  Sent \in Int /\ Taken \in Int
  <1>1. Sent \in Int
    <2>1. frame_tx \in Nat /\ <<type, num>> \in Parts
      BY DEF Typed
    <2> QED
      BY <2>1, Serials DEF Sent
  <1>2. Taken \in Int
    <2>1. Len(lines) \in Int /\ Place(<<type_pre, num_pre>>) \in Int
      BY Places DEF Typed
    <2>2. Len(lines) * FramePackets \in Int
      BY <2>1, FrameLength
    <2> QED
      BY <2>1, <2>2 DEF Taken
  <1> QED
    BY <1>1, <1>2

\* Nothing is sent, lost or taken in the first state.
LEMMA InitCounted == Init => Counted
  <1> SUFFICES ASSUME Init PROVE Counted
    OBVIOUS
  <1>1. wire = << >> /\ lost = {} /\ Ours = {} /\ DOMAIN wire = {}
    BY DEF Init, Ours
  <1>2. Cardinality(lost) = 0 /\ Len(wire) = 0
    BY <1>1, FS_EmptySet
  <1>3. Sent = (1 - 1) * FramePackets + Place(<<0, 0>>)
    BY DEF Init, Sent, Serial
  <1>4. Taken = 0 * FramePackets + Place(<<0, 0>>)
    BY DEF Init, Taken
  <1>5. (1 - 1) * FramePackets = 0 /\ 0 * FramePackets = 0
    BY FrameLength
  <1>6. Sent = 0 /\ Taken = 0
    BY <1>3, <1>4, <1>5, Ends
  <1> QED
    BY <1>1, <1>2, <1>6 DEF Counted

\* All lost packets were sent before the new one.
LEMMA SendPacketCounted == Typed /\ Link /\ Counted /\ SendPacket => Counted'
  <1> SUFFICES ASSUME Typed, Link, Counted, SendPacket, strays = 0 PROVE Counted'
    BY DEF Counted, SendPacket
  <1> DEFINE p == Packet(frame_tx, type, num)
             n == Len(wire) + 1
  <1>1. /\ p \in Sound /\ Sent' = Sent + 1 /\ Sent = Serial(Id(p))
    BY SentGrows
  <1>2. wire' = Append(wire, p) /\ lost' = lost /\ Taken' = Taken
    BY DEF SendPacket, statVars, Taken
  <1>3. p \in Strays \union Sound /\ p.frame \in Frames
    BY <1>1, SoundPackets
  <1> HIDE DEF p
  <1>4. /\ DOMAIN wire' = 1 .. Len(wire) + 1 /\ wire'[n] = p /\ Len(wire') = n
        /\ \A i \in 1 .. Len(wire) : wire'[i] = wire[i]
    BY <1>2, <1>3, Appended
  <1>5. DOMAIN wire = 1 .. Len(wire) /\ Len(wire) \in Nat
    BY OnWire
  <1>6. /\ Ours = DOMAIN wire
        /\ Sent = Taken + Len(wire) + Cardinality(lost)
        /\ \A i \in Ours :
             Serial(Id(wire[i])) = Taken + i - 1 + Cardinality(Before(lost, Serial(Id(wire[i]))))
    BY DEF Counted
  <1>7. Ours' = DOMAIN wire'
    BY <1>3, <1>4, <1>5, <1>6 DEF Ours
  <1>8. Sent' = Taken' + Len(wire') + Cardinality(lost')
    BY <1>1, <1>2, <1>4, <1>5, <1>6, Totals, BeforeTypes
  <1>9. Before(lost, Sent) = lost
    BY DEF Before, Link
  <1>10. ASSUME NEW i \in Ours'
         PROVE  Serial(Id(wire'[i])) =
                  Taken' + i - 1 + Cardinality(Before(lost', Serial(Id(wire'[i]))))
    <2>1. CASE i = n
      <3>1. Serial(Id(wire'[i])) = Sent
        BY <1>1, <1>4, <2>1
      <3>2. Sent = Taken + n - 1 + Cardinality(lost)
        BY <1>5, <1>6, Totals, BeforeTypes
      <3> QED
        BY <1>2, <1>9, <2>1, <3>1, <3>2
    <2>2. CASE i # n
      <3>1. i \in Ours /\ wire'[i] = wire[i]
        BY <1>4, <1>5, <1>6, <1>7, <2>2
      <3> QED
        BY <1>2, <1>6, <3>1
    <2> QED
      BY <2>1, <2>2
  <1> QED
    BY <1>7, <1>8, <1>10 DEF Counted

\* The packets behind a lost one move up by one place and count one more loss.
LEMMA LoseCounted == Typed /\ Link /\ Counted /\ Lose => Counted'
  <1> SUFFICES ASSUME Typed, Link, Counted, Lose, strays = 0 PROVE Counted'
    BY DEF Counted, Lose
  <1>1. PICK i \in DOMAIN wire : /\ wire[i].frame \in Frames
                                 /\ lost' = lost \union {Id(wire[i])}
                                 /\ wire' = RemoveAt(wire, i)
    BY DEF Lose, Id, Part
  <1>2. Sent' = Sent /\ Taken' = Taken
    BY DEF Lose, txVars, statVars, Sent, Taken
  <1>3. /\ DOMAIN wire' = 1 .. Len(wire) - 1 /\ Len(wire') = Len(wire) - 1
        /\ \A j \in 1 .. Len(wire) - 1 : wire'[j] = IF j < i THEN wire[j] ELSE wire[j + 1]
    BY <1>1, OneLost
  <1>4. DOMAIN wire = 1 .. Len(wire) /\ Len(wire) \in Nat
    BY OnWire
  <1>5. /\ Ours = DOMAIN wire
        /\ Sent = Taken + Len(wire) + Cardinality(lost)
        /\ \A j \in Ours :
             Serial(Id(wire[j])) = Taken + j - 1 + Cardinality(Before(lost, Serial(Id(wire[j]))))
    BY DEF Counted
  <1> DEFINE x == Id(wire[i])
  <1>6. x \notin lost /\ Serial(x) \in Int
    BY <1>5, OnWire DEF Link
  <1> HIDE DEF x
  <1>7. Ours' = DOMAIN wire'
    <2>1. \A j \in DOMAIN wire' : wire'[j].frame \in Frames
      <3> SUFFICES ASSUME NEW j \in DOMAIN wire' PROVE wire'[j].frame \in Frames
        OBVIOUS
      <3>1. j \in DOMAIN wire /\ j + 1 \in DOMAIN wire
        BY <1>3, <1>4
      <3>2. wire[j].frame \in Frames /\ wire[j + 1].frame \in Frames
        BY <1>5, <3>1 DEF Ours
      <3> QED
        BY <1>3, <3>2
    <2> QED
      BY <2>1 DEF Ours
  <1>8. Sent' = Taken' + Len(wire') + Cardinality(lost')
    <2>1. Cardinality(lost') = Cardinality(lost) + 1
      BY <1>1, <1>6, BeforeTypes, FS_AddElement DEF x
    <2> QED
      BY <1>2, <1>3, <1>4, <1>5, <2>1, Totals, BeforeTypes
  <1>9. ASSUME NEW j \in Ours'
        PROVE  Serial(Id(wire'[j])) =
                 Taken' + j - 1 + Cardinality(Before(lost', Serial(Id(wire'[j]))))
    <2>1. CASE j < i
      <3>1. j \in Ours /\ wire'[j] = wire[j]
        BY <1>3, <1>4, <1>5, <1>7, <2>1
      <3> DEFINE k == Serial(Id(wire[j]))
      <3>2. k < Serial(x) /\ k \in Int
        BY <1>5, <2>1, <3>1, OnWire DEF Link, x
      <3>3. k = Taken + j - 1 + Cardinality(Before(lost, k))
        BY <1>5, <3>1
      <3> HIDE DEF k
      <3>4. Before(lost', k) = Before(lost, k)
        BY <1>1, <1>6, <3>2 DEF Before, x
      <3> QED
        BY <1>2, <3>1, <3>3, <3>4 DEF k
    <2>2. CASE ~(j < i)
      <3>1. j + 1 \in Ours /\ wire'[j] = wire[j + 1] /\ i < j + 1 /\ j \in Int
        BY <1>3, <1>4, <1>5, <1>7, <2>2
      <3> DEFINE k == Serial(Id(wire[j + 1]))
      <3>2. Serial(x) < k /\ k \in Int
        BY <1>5, <3>1, OnWire DEF Link, x
      <3>3. k = Taken + (j + 1) - 1 + Cardinality(Before(lost, k))
        BY <1>5, <3>1
      <3> HIDE DEF k
      <3>4. Before(lost', k) = Before(lost, k) \union {x} /\ x \notin Before(lost, k)
        BY <1>1, <1>6, <3>2 DEF Before, x
      <3>5. Cardinality(Before(lost', k)) = Cardinality(Before(lost, k)) + 1
        BY <3>4, BeforeTypes, FS_AddElement
      <3>6. k = Taken' + j - 1 + Cardinality(Before(lost', k))
        BY <1>2, <3>1, <3>3, <3>5, Totals, BeforeTypes
      <3> QED
        BY <3>1, <3>6 DEF k
    <2> QED
      BY <2>1, <2>2
  <1> QED
    BY <1>7, <1>8, <1>9 DEF Counted

\* One packet is taken, and the prediction moves on by one.
LEMMA DepackageCounted == Typed /\ Link /\ Counted /\ Depackage => Counted'
  <1> SUFFICES ASSUME Typed, Link, Counted, Depackage, strays = 0 PROVE Counted'
    BY DEF Counted, Depackage
  <1>1. wire # << >> /\ wire' = Tail(wire) /\ lost' = lost /\ Sent' = Sent
    BY DEF Depackage, txVars, Sent
  <1>2. Taken' = Taken + 1
    BY Unpacked, PredictionMoves
  <1>3. /\ DOMAIN wire' = 1 .. Len(wire) - 1 /\ Len(wire') = Len(wire) - 1
        /\ \A j \in 1 .. Len(wire) - 1 : wire'[j] = wire[j + 1]
    BY <1>1, FirstTaken
  <1>4. DOMAIN wire = 1 .. Len(wire) /\ Len(wire) \in Nat
    BY OnWire
  <1>5. /\ Ours = DOMAIN wire
        /\ Sent = Taken + Len(wire) + Cardinality(lost)
        /\ \A j \in Ours :
             Serial(Id(wire[j])) = Taken + j - 1 + Cardinality(Before(lost, Serial(Id(wire[j]))))
    BY DEF Counted
  <1>6. Ours' = DOMAIN wire'
    <2>1. \A j \in DOMAIN wire' : wire'[j].frame \in Frames
      <3> SUFFICES ASSUME NEW j \in DOMAIN wire' PROVE wire'[j].frame \in Frames
        OBVIOUS
      <3>1. j + 1 \in DOMAIN wire /\ wire'[j] = wire[j + 1]
        BY <1>3, <1>4
      <3> QED
        BY <1>5, <3>1 DEF Ours
    <2> QED
      BY <2>1 DEF Ours
  <1>7. Sent' = Taken' + Len(wire') + Cardinality(lost')
    BY <1>1, <1>2, <1>3, <1>4, <1>5, Totals, BeforeTypes
  <1>8. ASSUME NEW j \in Ours'
        PROVE  Serial(Id(wire'[j])) =
                 Taken' + j - 1 + Cardinality(Before(lost', Serial(Id(wire'[j]))))
    <2>1. j + 1 \in Ours /\ wire'[j] = wire[j + 1] /\ j \in Int
      BY <1>3, <1>4, <1>5, <1>6
    <2> DEFINE k == Serial(Id(wire[j + 1]))
    <2>2. k = Taken + (j + 1) - 1 + Cardinality(Before(lost, k))
      BY <1>5, <2>1
    <2> HIDE DEF k
    <2>3. k = Taken' + j - 1 + Cardinality(Before(lost', k))
      BY <1>1, <1>2, <2>1, <2>2, Totals, BeforeTypes
    <2> QED
      BY <2>1, <2>3 DEF k
  <1> QED
    BY <1>6, <1>7, <1>8 DEF Counted

\* All steps; with a packet from elsewhere the count means nothing any more.
LEMMA StepCounted == Typed /\ Link /\ Counted /\ [Next]_vars => Counted'
  <1> SUFFICES ASSUME Typed, Link, Counted, [Next]_vars PROVE Counted'
    OBVIOUS
  <1>1. CASE SendPacket \/ Lose \/ Depackage
    BY <1>1, SendPacketCounted, LoseCounted, DepackageCounted
  <1>2. CASE StrayArrives
    <2>1. strays' # 0
      BY <1>2 DEF StrayArrives, Typed
    <2> QED
      BY <2>1 DEF Counted
  <1>3. CASE TakeFrame \/ FinishFrame \/ UNCHANGED vars
    <2>1. UNCHANGED <<txVars, statVars, linkVars>>
      BY <1>3 DEF TakeFrame, FinishFrame, vars
    <2>2. /\ wire' = wire /\ lost' = lost /\ strays' = strays
          /\ Sent' = Sent /\ Taken' = Taken /\ Ours' = Ours
      BY <2>1 DEF txVars, statVars, linkVars, Sent, Taken, Ours
    <2> QED
      BY <2>2 DEF Counted
  <1> QED
    BY <1>1, <1>2, <1>3 DEF Next

-----------------------------------------------------------------------------
(* What the statistic sees *)

\* Two packets less than a frame apart have the same part only if they are one.
LEMMA Apart ==
  ASSUME NEW a \in Nat, NEW b \in Nat, NEW x \in Nat, NEW y \in Nat, NEW c \in Nat,
         x < FramePackets, y < FramePackets, c < FramePackets,
         a * FramePackets + x = b * FramePackets + y + c
  PROVE  (x = y <=> c = 0) /\ (c = 0 => a = b)
  <1>1. a * FramePackets \in Nat /\ b * FramePackets \in Nat /\ FramePackets \in Nat
    BY FrameLength, Product
  <1>2. a < b => a * FramePackets + FramePackets <= b * FramePackets
    BY FrameLength, Product
  <1>3. b < a => b * FramePackets + FramePackets <= a * FramePackets
    BY FrameLength, Product
  <1>4. a = b => a * FramePackets = b * FramePackets
    OBVIOUS
  <1>5. ~(a < b)
    BY <1>1, <1>2
  <1>6. CASE a = b
    BY <1>1, <1>4, <1>6
  <1>7. CASE b < a
    BY <1>1, <1>3, <1>7
  <1> QED
    BY <1>5, <1>6, <1>7

\* The next packet is the expected one exactly if nothing before it was lost; it
\* is then a packet of the frame of the current line.
LEMMA Expectation ==
  ASSUME Typed, Link, Counted, strays = 0, Cardinality(lost) < FramePackets, 1 \in DOMAIN wire
  PROVE  /\ 1 \in Ours /\ wire[1].frame \in Nat
         /\ Part(wire[1]) = Expected <=> \A x \in lost : ~(Serial(x) < Serial(Id(wire[1])))
         /\ Part(wire[1]) = Expected => /\ Serial(Id(wire[1])) = Taken
                                        /\ wire[1].frame = Len(lines) + 1
  <1> DEFINE k == Serial(Id(wire[1]))
             c == Cardinality(Before(lost, k))
             a == wire[1].frame - 1
  <1>1. /\ 1 \in Ours /\ wire[1].frame \in Nat /\ a \in Nat /\ Part(wire[1]) \in Parts
        /\ Id(wire[1]) = <<wire[1].frame, Part(wire[1])>>
    BY Oldest DEF Counted, Frames
  <1>2. k = Taken + c
    <2>1. k = Taken + 1 - 1 + c
      BY <1>1 DEF Counted
    <2> HIDE DEF k
    <2> QED
      BY <2>1, Totals, BeforeTypes
  <1>3. c \in Nat /\ c < FramePackets /\ (c = 0 <=> Before(lost, k) = {})
    BY BeforeTypes, FS_EmptySet, FrameLength
  <1>4. k = a * FramePackets + Place(Part(wire[1]))
    BY <1>1 DEF Serial
  <1>5. Taken = Len(lines) * FramePackets + Place(Expected)
    BY DEF Taken, Expected
  <1>6. /\ Place(Part(wire[1])) \in Nat /\ Place(Part(wire[1])) < FramePackets
        /\ Place(Expected) \in Nat /\ Place(Expected) < FramePackets
        /\ Len(lines) \in Nat /\ Expected \in Parts
    BY <1>1, Places DEF Typed, Expected
  <1>7. Before(lost, k) = {} <=> \A x \in lost : ~(Serial(x) < k)
    BY DEF Before
  <1> HIDE DEF k, c
  <1>8. a * FramePackets + Place(Part(wire[1])) = Len(lines) * FramePackets + Place(Expected) + c
    BY <1>2, <1>4, <1>5
  <1>9. a + 1 = wire[1].frame
    BY <1>1
  <1> HIDE DEF a
  <1>10. /\ Place(Part(wire[1])) = Place(Expected) <=> c = 0
         /\ c = 0 => a = Len(lines)
    BY <1>1, <1>3, <1>6, <1>8, Apart
  <1>11. Part(wire[1]) = Expected <=> c = 0
    BY <1>1, <1>6, <1>10, PlacesDiffer
  <1>12. c = 0 => k = Taken
    BY <1>2, Totals
  <1> QED
    BY <1>1, <1>3, <1>7, <1>9, <1>10, <1>11, <1>12 DEF k

\* Nothing is counted in the first state.
LEMMA InitStatistic == Init => Statistic
  <1> SUFFICES ASSUME Init PROVE Statistic
    OBVIOUS
  <1>1. lost = {} /\ Len(delivered) = 0 /\ Len(lines) = 0 /\ err_count = 0
        /\ DOMAIN delivered = {} /\ DOMAIN lines = {}
    BY DEF Init
  <1> QED
    BY <1>1 DEF Statistic, Clean, InStep

\* Few packets are lost after a step only if few were lost before.
LEMMA FewBefore ==
  ASSUME Typed, [Next]_vars, FewLost'
  PROVE  FewLost /\ ~StrayArrives /\ strays = 0 /\ Cardinality(lost) < FramePackets
         /\ Cardinality(lost) \in Nat
  <1>1. strays' = 0 /\ Cardinality(lost') < FramePackets
    BY DEF FewLost
  <1>2. ~StrayArrives
    BY <1>1 DEF StrayArrives, Typed
  <1>3. strays = 0
    BY <1>1, <1>2 DEF Next, SendPacket, Lose, Depackage, TakeFrame, FinishFrame, vars, linkVars
  <1>4. IsFiniteSet(lost) /\ IsFiniteSet(lost')
    BY StepTyped DEF Typed
  <1>5. lost \in SUBSET lost'
    BY <1>2 DEF Next, SendPacket, Lose, Depackage, TakeFrame, FinishFrame, vars, linkVars
  <1>6. Cardinality(lost) <= Cardinality(lost') /\ Cardinality(lost) \in Nat
        /\ Cardinality(lost') \in Nat
    BY <1>4, <1>5, FS_Subset, FS_CardinalityType
  <1> QED
    BY <1>1, <1>2, <1>3, <1>6, FrameLength DEF FewLost

\* Sending and losing packets touch no line: the next packet is at or behind the
\* expected one, and what is sent is behind what is lost.
LEMMA OnLinkStatistic ==
  Typed /\ Link /\ Counted /\ Statistic /\ (SendPacket \/ Lose) => Statistic'
  <1> SUFFICES ASSUME Typed, Link, Counted, Statistic, SendPacket \/ Lose, FewLost'
               PROVE  Statistic'
    BY DEF Statistic
  <1>1. FewLost /\ strays = 0
    BY FewBefore DEF Next
  <1>2. /\ delivered' = delivered /\ lines' = lines /\ err_count' = err_count
        /\ Taken' = Taken /\ Expected' = Expected
    BY DEF SendPacket, Lose, placeVars, statVars, Taken, Expected
  <1>3. Clean' = Clean
    BY <1>2 DEF Clean
  <1>4. Clean => InStep'
    <2> SUFFICES ASSUME Clean PROVE InStep'
      OBVIOUS
    <2>1. InStep
      BY <1>1 DEF Statistic
    <2>2. ASSUME NEW x \in lost'
          PROVE  Taken <= Serial(x)
      <3>1. CASE x \in lost
        BY <2>1, <3>1 DEF InStep
      <3>2. CASE x \notin lost
        <4>1. PICK i \in DOMAIN wire : wire[i].frame \in Frames /\ x = Id(wire[i])
          BY <3>2 DEF SendPacket, Lose, Id, Part
        <4>2. i \in Ours
          BY <4>1 DEF Ours
        <4>3. Serial(x) = Taken + i - 1 + Cardinality(Before(lost, Serial(x)))
          BY <1>1, <4>1, <4>2 DEF Counted
        <4>4. i \in Int /\ i >= 1
          BY OnWire
        <4> QED
          BY <4>3, <4>4, Totals, BeforeTypes
      <3> QED
        BY <3>1, <3>2
    <2> QED
      BY <1>2, <2>1, <2>2 DEF InStep
  <1>5. ~Clean => OutOfStep'
    <2> SUFFICES ASSUME ~Clean PROVE OutOfStep'
      OBVIOUS
    <2>1. OutOfStep
      BY <1>1 DEF Statistic
    <2>2. PICK x \in lost : \A i \in Ours : Serial(x) < Serial(Id(wire[i]))
      BY <2>1 DEF OutOfStep
    <2>3. x \in lost'
      BY DEF SendPacket, Lose
    <2>4. ASSUME NEW j \in Ours'
          PROVE  Serial(x) < Serial(Id(wire'[j]))
      <3>1. CASE SendPacket
        <4> DEFINE p == Packet(frame_tx, type, num)
        <4>1. p \in Strays \union Sound /\ Sent = Serial(Id(p))
          BY <3>1, SentGrows
        <4>2. wire' = Append(wire, p)
          BY <3>1 DEF SendPacket
        <4> HIDE DEF p
        <4>3. /\ DOMAIN wire' = 1 .. Len(wire) + 1 /\ wire'[Len(wire) + 1] = p
              /\ \A i \in 1 .. Len(wire) : wire'[i] = wire[i]
          BY <4>1, <4>2, Appended
        <4>4. CASE j = Len(wire) + 1
          BY <4>1, <4>3, <4>4 DEF Link
        <4>5. CASE j # Len(wire) + 1
          <5>1. j \in DOMAIN wire /\ wire'[j] = wire[j]
            BY <4>3, <4>5, OnWire DEF Ours
          <5>2. j \in Ours
            BY <5>1 DEF Ours
          <5> QED
            BY <2>2, <5>1, <5>2
        <4> QED
          BY <4>4, <4>5
      <3>2. CASE Lose
        <4>1. PICK i \in DOMAIN wire : wire' = RemoveAt(wire, i)
          BY <3>2 DEF Lose
        <4>2. /\ DOMAIN wire' = 1 .. Len(wire) - 1
              /\ \A m \in 1 .. Len(wire) - 1 : wire'[m] = IF m < i THEN wire[m] ELSE wire[m + 1]
          BY <4>1, OneLost
        <4>3. j \in DOMAIN wire /\ j + 1 \in DOMAIN wire
          BY <4>2, OnWire DEF Ours
        <4>4. \E m \in DOMAIN wire : wire'[j] = wire[m]
          BY <4>2, <4>3 DEF Ours
        <4>5. PICK m \in DOMAIN wire : wire'[j] = wire[m]
          BY <4>4
        <4>6. m \in Ours
          BY <4>5 DEF Ours
        <4> QED
          BY <2>2, <4>5, <4>6
      <3> QED
        BY <3>1, <3>2
    <2> QED
      BY <2>3, <2>4 DEF OutOfStep
  <1>6. \A l \in DOMAIN lines :
          /\ lines[l] = 0 => l \in DOMAIN delivered /\ delivered[l].frame = l /\ delivered[l].wrong = {}
          /\ lines[l] > 0 => /\ err_count = Place(Expected)
                             /\ \A m \in DOMAIN lines : l < m => lines[m] = FramePackets
    BY <1>1 DEF Statistic, Expected
  <1>7. \A l \in DOMAIN lines' :
          /\ lines'[l] = 0 => /\ l \in DOMAIN delivered' /\ delivered'[l].frame = l
                              /\ delivered'[l].wrong = {}
          /\ lines'[l] > 0 => /\ err_count' = Place(Expected')
                              /\ \A m \in DOMAIN lines' : l < m => lines'[m] = FramePackets
    BY <1>2, <1>6
  <1> QED
    BY <1>3, <1>4, <1>5, <1>7 DEF Statistic, Expected

\* As long as nothing is missing before it, the packet is the expected one and
\* the lines stay free of errors; the line is that of the frame delivered.
LEMMA ExpectedTaken ==
  ASSUME Typed, Link, Contents, Deliveries, Counted, Statistic, Depackage, FewLost, strays = 0,
         Cardinality(lost) < FramePackets, Clean, Part(wire[1]) = Expected
  PROVE  Statistic'
  <1> DEFINE p == wire[1]  g == wire[1].frame  n == Len(lines) + 1
             d == [frame |-> g, wrong |-> WrongParts(index_rx_write, g)]
  <1>1. /\ 1 \in DOMAIN wire /\ Predict(p)
        /\ 1 \in Ours /\ Complete(p)
        /\ lost' = lost /\ Deliveries'
    BY Unpacked, Expectation, DepackageDeliveries DEF Depackage
  <1>2. /\ Serial(Id(p)) = Taken /\ g = n /\ g \in Frames /\ Id(p) = <<g, Part(p)>>
        /\ \A x \in lost : ~(Serial(x) < Serial(Id(p)))
        /\ Id(p) \notin lost /\ Id(p) \in Frames \X Parts
    BY <1>1, Expectation, Oldest, OnWire DEF Link
  <1>3. /\ InStep /\ err_count = 0 /\ Len(delivered) = Len(lines) /\ Len(lines) \in Nat
        /\ delivered \in Seq([frame : Frames, wrong : SUBSET Parts])
        /\ lines \in Seq(0 .. FramePackets)
        /\ Expected \in Parts
    BY DEF Statistic, Clean, InStep, Typed, Expected
  <1>4. Errors(p) = 0
    BY <1>3 DEF Errors
  <1>5. /\ Taken' = Taken + 1 /\ Taken \in Int
        /\ Expected = LastPart => lines' = Append(lines, 0) /\ err_count' = 0
        /\ Expected # LastPart => lines' = lines /\ err_count' = 0
    BY <1>1, <1>4, PredictionMoves
  <1>6. \A x \in lost' : Taken' <= Serial(x)
    <2> SUFFICES ASSUME NEW x \in lost PROVE Taken + 1 <= Serial(x)
      BY <1>1, <1>5
    <2>1. x \in Frames \X Parts
      BY DEF Typed
    <2>2. Serial(x) \in Int /\ Serial(x) # Serial(Id(p))
      BY <1>2, <2>1, Order
    <2> QED
      BY <1>2, <1>5, <2>2
  <1>7. \A l \in DOMAIN lines : /\ lines[l] = 0 /\ l \in DOMAIN delivered
                                /\ delivered[l].frame = l /\ delivered[l].wrong = {}
    BY DEF Statistic, Clean
  <1>8. CASE Expected # LastPart
    <2>1. lines' = lines /\ err_count' = 0 /\ delivered' = delivered
      BY <1>1, <1>5, <1>8 DEF Complete, Part
    <2>2. Clean'
      BY <1>7, <2>1 DEF Clean
    <2>3. InStep'
      BY <1>3, <1>6, <2>1 DEF InStep
    <2> QED
      BY <1>7, <2>1, <2>2, <2>3 DEF Statistic
  <1>9. CASE Expected = LastPart
    <2>1. /\ lines' = Append(lines, 0) /\ err_count' = 0
          /\ delivered' = Append(delivered, d)
      BY <1>1, <1>5, <1>9 DEF Complete, Part
    <2>2. d.frame = n /\ d.wrong = {}
      <3>1. d.wrong = LostOf(g)
        BY <1>1, <1>9, WrongAreLost
      <3>2. \A q \in Parts : <<g, q>> \notin lost
        <4> SUFFICES ASSUME NEW q \in Parts, <<g, q>> \in lost PROVE FALSE
          OBVIOUS
        <4>1. <<g, q>> \in Frames \X Parts
          BY <1>2
        <4>2. /\ Serial(<<g, q>>) <= Serial(<<g, LastPart>>) /\ Serial(<<g, q>>) \in Int
              /\ Serial(<<g, q>>) = Serial(Id(p)) => <<g, q>> = Id(p)
          BY <1>2, <4>1, Order
        <4>3. Id(p) = <<g, LastPart>> /\ Serial(Id(p)) \in Int
          BY <1>2, <1>5, <1>9
        <4>4. Serial(<<g, q>>) < Serial(Id(p))
          BY <1>2, <4>2, <4>3
        <4> QED
          BY <1>2, <4>4
      <3> QED
        BY <1>2, <3>1, <3>2 DEF LostOf
    <2> HIDE DEF d, p, g
    <2>3. /\ DOMAIN lines' = 1 .. n /\ Len(lines') = n /\ lines'[n] = 0
          /\ \A l \in DOMAIN lines : lines'[l] = lines[l]
          /\ DOMAIN lines = 1 .. n - 1
      BY <1>3, <2>1
    <2>4. /\ DOMAIN delivered' = 1 .. n /\ Len(delivered') = n /\ delivered'[n] = d
          /\ \A l \in DOMAIN delivered : delivered'[l] = delivered[l]
          /\ DOMAIN delivered = 1 .. n - 1
      BY <1>3, <2>1
    <2>5. ASSUME NEW l \in DOMAIN lines'
          PROVE  /\ lines'[l] = 0 /\ l \in DOMAIN delivered'
                 /\ delivered'[l].frame = l /\ delivered'[l].wrong = {}
      <3>1. CASE l = n
        BY <2>2, <2>3, <2>4, <3>1
      <3>2. CASE l # n
        <4>1. l \in DOMAIN lines /\ l \in DOMAIN delivered
          BY <1>3, <2>3, <2>4, <3>2
        <4> QED
          BY <1>7, <2>3, <2>4, <4>1
      <3> QED
        BY <3>1, <3>2
    <2>6. Clean'
      BY <2>1, <2>5 DEF Clean
    <2>7. InStep'
      BY <1>6, <2>3, <2>4, <2>5 DEF InStep
    <2> QED
      BY <2>5, <2>6, <2>7 DEF Statistic
  <1> QED
    BY <1>8, <1>9

\* Once a packet was missing every packet is another one than expected: the line
\* of the first error is followed by lines in which all packets count as wrong.
LEMMA UnexpectedTaken ==
  ASSUME Typed, Link, Counted, Statistic, Depackage, FewLost, strays = 0,
         Cardinality(lost) < FramePackets, Part(wire[1]) # Expected
  PROVE  Statistic'
  <1> DEFINE p == wire[1]  n == Len(lines) + 1
  <1>1. /\ 1 \in DOMAIN wire /\ Predict(p) /\ 1 \in Ours /\ Complete(p)
        /\ lost' = lost /\ wire # << >> /\ wire' = Tail(wire)
    BY Unpacked, Expectation DEF Depackage
  <1>2. /\ err_count \in Nat /\ lines \in Seq(0 .. FramePackets) /\ Len(lines) \in Nat
        /\ delivered \in Seq([frame : Frames, wrong : SUBSET Parts])
        /\ Expected \in Parts
    <2>1. Place(Expected) \in Nat /\ err_count \in 0 .. Place(Expected)
      BY Places DEF Typed, Expected
    <2> QED
      BY <2>1 DEF Typed, Expected
  <1>3. Errors(p) = err_count + 1
    BY DEF Errors
  <1>4. /\ Expected = LastPart => /\ lines' = Append(lines, err_count + 1) /\ err_count' = 0
                                  /\ Expected' = <<0, 0>>
        /\ Expected # LastPart => /\ lines' = lines /\ err_count' = err_count + 1
                                  /\ Place(Expected') = Place(Expected) + 1
    BY <1>1, <1>3, PredictionMoves
  <1>5. OutOfStep'
    <2>1. PICK x \in lost : Serial(x) < Serial(Id(p))
      BY <1>1, Expectation
    <2>2. /\ DOMAIN wire' = 1 .. Len(wire) - 1
          /\ \A i \in 1 .. Len(wire) - 1 : wire'[i] = wire[i + 1]
      BY <1>1, FirstTaken
    <2>3. ASSUME NEW j \in Ours'
          PROVE  Serial(x) < Serial(Id(wire'[j]))
      <3>1. j + 1 \in Ours /\ wire'[j] = wire[j + 1] /\ 1 < j + 1
        BY <2>2, OnWire DEF Ours
      <3>2. Serial(Id(p)) < Serial(Id(wire[j + 1]))
        BY <1>1, <3>1 DEF Link
      <3>3. /\ Serial(x) \in Int /\ Serial(Id(p)) \in Int /\ Serial(Id(wire[j + 1])) \in Int
        BY <1>1, <3>1, OnWire, Order DEF Typed
      <3> QED
        BY <2>1, <3>1, <3>2, <3>3
    <2> QED
      BY <1>1, <2>3 DEF OutOfStep
  <1>6. \A l \in DOMAIN lines :
          /\ lines[l] = 0 => l \in DOMAIN delivered /\ delivered[l].frame = l /\ delivered[l].wrong = {}
          /\ lines[l] > 0 => /\ err_count = Place(Expected)
                             /\ \A m \in DOMAIN lines : l < m => lines[m] = FramePackets
    BY DEF Statistic, Expected
  <1>7. \A l \in DOMAIN delivered : l \in DOMAIN delivered' /\ delivered'[l] = delivered[l]
    <2>1. CASE Part(p) = LastPart
      BY <1>1, <1>2, <2>1 DEF Complete, Part
    <2>2. CASE Part(p) # LastPart
      BY <1>1, <2>2 DEF Complete, Part
    <2> QED
      BY <2>1, <2>2
  <1> HIDE DEF p
  <1>8. CASE Expected # LastPart
    <2>1. /\ lines' = lines /\ err_count' = err_count + 1
          /\ Place(Expected') = Place(Expected) + 1
      BY <1>4, <1>8
    <2>2. ~Clean'
      BY <1>2, <2>1 DEF Clean
    <2>3. \A l \in DOMAIN lines' :
            /\ lines'[l] = 0 => /\ l \in DOMAIN delivered' /\ delivered'[l].frame = l
                                /\ delivered'[l].wrong = {}
            /\ lines'[l] > 0 => /\ err_count' = Place(Expected')
                                /\ \A m \in DOMAIN lines' : l < m => lines'[m] = FramePackets
      BY <1>6, <1>7, <2>1
    <2> QED
      BY <1>5, <2>2, <2>3 DEF Statistic, Expected
  <1>9. CASE Expected = LastPart
    <2>1. lines' = Append(lines, err_count + 1) /\ err_count' = 0 /\ Place(Expected') = 0
      BY <1>4, <1>9, Ends
    <2>2. /\ DOMAIN lines' = 1 .. n /\ lines'[n] = err_count + 1
          /\ \A l \in DOMAIN lines : lines'[l] = lines[l]
          /\ DOMAIN lines = 1 .. n - 1 /\ \A l \in DOMAIN lines : lines[l] \in Nat
      BY <1>2, <2>1, FrameLength
    <2>3. ~Clean'
      <3>1. n \in DOMAIN lines' /\ lines'[n] # 0
        BY <1>2, <2>2
      <3> QED
        BY <3>1 DEF Clean
    <2>4. ASSUME NEW l \in DOMAIN lines'
          PROVE  /\ lines'[l] = 0 => /\ l \in DOMAIN delivered' /\ delivered'[l].frame = l
                                     /\ delivered'[l].wrong = {}
                 /\ lines'[l] > 0 => /\ err_count' = Place(Expected')
                                     /\ \A m \in DOMAIN lines' : l < m => lines'[m] = FramePackets
      <3>1. CASE l = n
        BY <1>2, <2>1, <2>2, <3>1
      <3>2. CASE l # n
        <4>1. l \in DOMAIN lines /\ lines'[l] = lines[l]
          BY <1>2, <2>2, <3>2
        <4>2. ASSUME lines[l] > 0, NEW m \in DOMAIN lines', l < m
              PROVE  lines'[m] = FramePackets
          <5>1. CASE m = n
            <6>1. err_count = FramePackets - 1
              BY <1>6, <1>9, <4>1, <4>2, Ends
            <6> QED
              BY <2>2, <5>1, <6>1, FrameLength
          <5>2. CASE m # n
            <6>1. m \in DOMAIN lines /\ lines'[m] = lines[m]
              BY <1>2, <2>2, <5>2
            <6> QED
              BY <1>6, <4>1, <4>2, <6>1
          <5> QED
            BY <5>1, <5>2
        <4> QED
          BY <1>6, <1>7, <2>1, <4>1, <4>2
      <3> QED
        BY <3>1, <3>2
    <2> QED
      BY <1>5, <2>3, <2>4 DEF Statistic, Expected
  <1> QED
    BY <1>8, <1>9

\* All steps.
LEMMA StepStatistic ==
  Typed /\ Link /\ Contents /\ Deliveries /\ Counted /\ Statistic /\ [Next]_vars => Statistic'
  <1> SUFFICES ASSUME Typed, Link, Contents, Deliveries, Counted, Statistic, [Next]_vars, FewLost'
               PROVE  Statistic'
    BY DEF Statistic
  <1>1. FewLost /\ ~StrayArrives /\ strays = 0 /\ Cardinality(lost) < FramePackets
    BY FewBefore
  <1>2. CASE SendPacket \/ Lose
    BY <1>2, OnLinkStatistic
  <1>3. CASE Depackage
    <2>1. CASE Part(wire[1]) # Expected
      BY <1>1, <1>3, <2>1, UnexpectedTaken
    <2>2. CASE Part(wire[1]) = Expected
      <3>1. 1 \in Ours /\ \A x \in lost : ~(Serial(x) < Serial(Id(wire[1])))
        BY <1>1, <1>3, <2>2, Expectation, Unpacked
      <3>2. Clean
        BY <1>1, <3>1 DEF Statistic, OutOfStep
      <3> QED
        BY <1>1, <1>3, <2>2, <3>2, ExpectedTaken
    <2> QED
      BY <2>1, <2>2
  <1>4. CASE TakeFrame \/ FinishFrame \/ UNCHANGED vars
    <2>1. UNCHANGED <<linkVars, statVars, delivered>>
      BY <1>4 DEF TakeFrame, FinishFrame, vars, placeVars
    <2>2. /\ Clean' = Clean /\ InStep' = InStep /\ OutOfStep' = OutOfStep
          /\ lines' = lines /\ delivered' = delivered /\ err_count' = err_count
          /\ Expected' = Expected
      BY <2>1 DEF linkVars, statVars, Clean, InStep, OutOfStep, Ours, Taken, Expected
    <2>3. /\ Clean => InStep
          /\ ~Clean => OutOfStep
          /\ \A l \in DOMAIN lines :
               /\ lines[l] = 0 => /\ l \in DOMAIN delivered /\ delivered[l].frame = l
                                  /\ delivered[l].wrong = {}
               /\ lines[l] > 0 => /\ err_count = Place(Expected)
                                  /\ \A m \in DOMAIN lines : l < m => lines[m] = FramePackets
      BY <1>1 DEF Statistic, Expected
    <2>4. \A l \in DOMAIN lines' :
            /\ lines'[l] = 0 => /\ l \in DOMAIN delivered' /\ delivered'[l].frame = l
                                /\ delivered'[l].wrong = {}
            /\ lines'[l] > 0 => /\ err_count' = Place(Expected')
                                /\ \A m \in DOMAIN lines' : l < m => lines'[m] = FramePackets
      BY <2>2, <2>3
    <2> QED
      BY <2>2, <2>3, <2>4 DEF Statistic, Expected
  <1> QED
    BY <1>1, <1>2, <1>3, <1>4 DEF Next

-----------------------------------------------------------------------------
(* The invariant and what follows from it *)

\* The first state satisfies the invariant.
LEMMA InitInv == Init => PktInv
  BY InitTyped, InitLink, InitContents, InitRooms, InitCounted, InitStatistic DEF PktInv

\* Every step keeps it.
LEMMA StepInv == PktInv /\ [Next]_vars => PktInv'
  <1> SUFFICES ASSUME Typed, Link, Contents, Deliveries, Rooms, Counted, Statistic, [Next]_vars
               PROVE  PktInv'
    BY DEF PktInv
  <1>1. Typed' /\ Link'
    BY StepTyped, StepLink
  <1>2. Contents' /\ Deliveries'
    BY StepContents, StepDeliveries
  <1>3. Rooms' /\ Counted' /\ Statistic'
    BY StepRooms, StepCounted, StepStatistic
  <1> QED
    BY <1>1, <1>2, <1>3 DEF PktInv

\* In every reachable state of sender, link and receiver the packets are
\* numbered, arrived, written and counted as PktInv says.
THEOREM Invariance == Spec => []PktInv
  BY InitInv, StepInv, PTL DEF Spec

\* Every variable keeps its type; in particular startNum_rx falls below zero by
\* no more than the number of lost packets, and err_count stays below the length
\* of a frame.
THEOREM TypeCorrect == Spec => []TypeOK
  <1>1. PktInv => TypeOK
    <2> SUFFICES ASSUME Typed, Link, Deliveries, Rooms PROVE TypeOK
      BY DEF PktInv
    <2>1. wire \in Seq([frame : 0 .. MaxFrames, type : 0 .. 2 + MAX_BEAM, num : Nat, sized : BOOLEAN])
      <3>1. \A p \in Strays \union Sound :
              p \in [frame : 0 .. MaxFrames, type : 0 .. 2 + MAX_BEAM, num : Nat, sized : BOOLEAN]
        BY SoundPackets, StrayPackets
      <3>2. wire \in Seq(Strays \union Sound)
        BY DEF Typed
      <3> HIDE DEF Sound, Strays
      <3> DEFINE P == [frame : 0 .. MaxFrames, type : 0 .. 2 + MAX_BEAM, num : Nat, sized : BOOLEAN]
                 S == Strays \union Sound
      <3>3. S \subseteq P /\ wire \in Seq(S)
        BY <3>1, <3>2
      <3> HIDE DEF P, S
      <3>4. wire \in Seq(P)
        BY <3>3
      <3> QED
        BY <3>4 DEF P
    <2>2. readyNum_rx \in 0 .. MaxFrames
      <3>1. /\ readyNum_rx \in Nat /\ working \in Nat /\ Len(delivered) \in Nat
            /\ readyNum_rx + working <= Len(delivered) /\ MaxFrames \in Nat
        BY PacketsAssumption DEF Typed, Rooms, PacketsAssumption
      <3>2. CASE Len(delivered) = 0
        BY <3>1, <3>2
      <3>3. CASE Len(delivered) > 0
        <4> DEFINE k == Len(delivered)
        <4>1. k \in DOMAIN delivered
          BY <3>1, <3>3 DEF Typed
        <4>2. <<delivered[k].frame, LastPart>> \in Frames \X Parts /\ k <= delivered[k].frame
          BY <4>1 DEF Deliveries, Arrived
        <4>3. delivered[k].frame \in 1 .. MaxFrames
          BY <4>2 DEF Frames
        <4> QED
          BY <3>1, <4>2, <4>3
      <3> QED
        BY <3>1, <3>2, <3>3
    <2>3. startNum_rx \in -MaxLost .. PACK_CACHE
      <3>1. Cardinality(Lasts) <= Cardinality(Headers) + Cardinality(lost)
        BY NoMoreLasts
      <3>2. Cardinality(Lasts) \in Nat /\ Cardinality(Headers) \in Nat
        BY HeadersAndLasts
      <3>3. Cardinality(lost) \in Nat /\ Cardinality(lost) <= MaxLost
        BY FS_CardinalityType DEF Typed
      <3>4. startNum_rx - working - readyNum_rx = Cardinality(Headers) - Cardinality(Lasts)
        BY DEF Rooms
      <3>5. /\ startNum_rx \in Int /\ startNum_rx <= PACK_CACHE
            /\ working \in Nat /\ readyNum_rx \in Nat
            /\ MaxLost \in Nat /\ PACK_CACHE \in Nat
        BY PacketsAssumption DEF Typed, PacketsAssumption
      <3> QED
        BY <3>1, <3>2, <3>3, <3>4, <3>5
    <2>4. err_count \in 0 .. FramePackets - 1
      BY Places, FrameLength DEF Typed
    <2> QED
      BY <2>1, <2>2, <2>3, <2>4 DEF Typed, TypeOK
  <1> QED
    BY <1>1, Invariance, PTL

\* Of the frames whose header has arrived and whose last packet has not, all but
\* the one being received have lost it: packets arrive in order, so when a later
\* header is there the last packet of the frame is not on its way any more.
LEMMA Unfinished ==
  ASSUME Typed, Link
  PROVE  LET cut == {f \in Frames : LastPart \in LostOf(f)}
         IN  Cardinality(Headers) - Cardinality(Lasts) <= Cardinality(cut) + 1
  <1> DEFINE cut  == {f \in Frames : LastPart \in LostOf(f)}
             open == Headers \ (Lasts \union cut)
  <1>1. ASSUME NEW f \in open, NEW g \in open, f < g PROVE FALSE
    <2> DEFINE x == <<f, LastPart>>  y == <<g, <<0, 0>>>>
    <2>1. /\ x \in Frames \X Parts /\ y \in Frames \X Parts /\ y \in Arrived
          /\ x \notin lost /\ x \notin Arrived /\ x[1] = f /\ y[1] = g
      BY Ends DEF Headers, Lasts, LostOf
    <2> HIDE DEF x, y
    <2>2. Serial(x) < Serial(y) /\ Serial(x) \in Int /\ Serial(y) \in Int /\ Serial(y) < Sent
      BY <1>1, <2>1, Order DEF Arrived
    <2>3. Serial(x) < Sent
      BY <2>2, Totals
    <2>4. PICK i \in DOMAIN wire : Id(wire[i]) = x
      BY <2>1, <2>3 DEF Arrived
    <2>5. i \in Ours
      BY <2>1, <2>4, OnWire
    <2>6. Serial(y) < Serial(x)
      BY <2>1, <2>4, <2>5 DEF Link
    <2> QED
      BY <2>2, <2>6
  <1>2. /\ IsFiniteSet(Frames) /\ Frames \subseteq Int
        /\ cut \in SUBSET Frames /\ open \in SUBSET Frames
    <2>1. IsFiniteSet(Frames) /\ Frames \subseteq Int
      BY FS_Interval, PacketsAssumption DEF PacketsAssumption, Frames
    <2>2. cut \in SUBSET Frames
      OBVIOUS
    <2>3. open \in SUBSET Frames
      BY HeadersAndLasts
    <2> QED
      BY <2>1, <2>2, <2>3
  <1>3. /\ IsFiniteSet(cut) /\ Cardinality(cut) \in Nat
        /\ IsFiniteSet(open) /\ Cardinality(open) \in Nat
    BY <1>2, FS_Subset, FS_CardinalityType
  <1>4. Cardinality(open) <= 1
    <2>1. CASE open = {}
      BY <2>1, FS_EmptySet
    <2>2. CASE open # {}
      <3>1. PICK f \in open : TRUE
        BY <2>2
      <3>2. ASSUME NEW g \in open PROVE g = f
        <4>1. ~(f < g) /\ ~(g < f)
          BY <1>1
        <4>2. f \in Int /\ g \in Int
          BY <1>2
        <4> QED
          BY <4>1, <4>2
      <3>3. open = {f}
        BY <3>2
      <3> QED
        BY <3>3, FS_Singleton
    <2> QED
      BY <2>1, <2>2
  <1>5. Headers \in SUBSET (open \union cut \union Lasts)
    OBVIOUS
  <1> HIDE DEF cut, open
  <1>6. /\ IsFiniteSet(open \union cut)
        /\ Cardinality(open \union cut) <= Cardinality(open) + Cardinality(cut)
        /\ Cardinality(open \union cut) \in Nat
    BY <1>3, UnionBound
  <1>7. /\ IsFiniteSet(open \union cut \union Lasts)
        /\ Cardinality(open \union cut \union Lasts)
             <= Cardinality(open \union cut) + Cardinality(Lasts)
        /\ Cardinality(open \union cut \union Lasts) \in Nat
    BY <1>6, HeadersAndLasts, UnionBound
  <1>8. Cardinality(Headers) <= Cardinality(open \union cut \union Lasts)
    BY <1>5, <1>7, FS_Subset
  <1>9. Cardinality(Headers) - Cardinality(Lasts) <= Cardinality(cut) + 1
    BY <1>3, <1>4, <1>6, <1>7, <1>8, HeadersAndLasts
  <1> QED
    BY <1>9 DEF cut

\* However packets are lost, the receiver takes packets again and again unless it
\* has lost the last packets of PACK_CACHE - 1 frames.
THEOREM StopsByLosses == Spec => []StopsOnlyByLosses
  <1>1. PktInv => StopsOnlyByLosses
    <2> SUFFICES ASSUME Typed, Link, Rooms,
                        startNum_rx >= PACK_CACHE, readyNum_rx = 0, working = 0
                 PROVE  Cardinality({f \in Frames : LastPart \in LostOf(f)}) >= PACK_CACHE - 1
      BY DEF PktInv, StopsOnlyByLosses
    <2> DEFINE n == Cardinality({f \in Frames : LastPart \in LostOf(f)})
    <2>1. n \in Nat
      <3>1. IsFiniteSet(Frames)
        BY FS_Interval, PacketsAssumption DEF PacketsAssumption, Frames
      <3>2. {f \in Frames : LastPart \in LostOf(f)} \in SUBSET Frames
        OBVIOUS
      <3> QED
        BY <3>1, <3>2, FS_Subset, FS_CardinalityType
    <2>2. Cardinality(Headers) - Cardinality(Lasts) <= n + 1
      BY Unfinished
    <2> HIDE DEF n
    <2>3. startNum_rx - working - readyNum_rx = Cardinality(Headers) - Cardinality(Lasts)
      BY DEF Rooms
    <2>4. startNum_rx \in Int /\ PACK_CACHE \in Nat
      BY PacketsAssumption DEF Typed, PacketsAssumption
    <2>5. n >= PACK_CACHE - 1
      BY <2>1, <2>2, <2>3, <2>4, HeadersAndLasts
    <2> QED
      BY <2>5 DEF n
  <1> QED
    BY <1>1, Invariance, PTL

\* A completed frame lacks exactly its lost packets, the completed frames come in
\* the order sent, and only a frame whose last packet was lost is missing.
THEOREM OrderKept == Spec => []FramesAsSent
  <1>1. PktInv => FramesAsSent
    <2> SUFFICES ASSUME Typed, Link, Deliveries PROVE FramesAsSent
      BY DEF PktInv
    <2>1. DOMAIN delivered = 1 .. Len(delivered) /\ Len(delivered) \in Nat
      BY DEF Typed
    <2>2. \A k \in DOMAIN delivered : delivered[k].wrong = LostOf(delivered[k].frame)
      BY DEF Deliveries
    <2>3. ASSUME NEW k \in 1 .. Len(delivered) - 1
          PROVE  delivered[k].frame < delivered[k + 1].frame
      <3>1. k \in DOMAIN delivered /\ k + 1 \in DOMAIN delivered /\ k < k + 1
        BY <2>1
      <3> QED
        BY <3>1 DEF Deliveries
    <2>4. ASSUME NEW f \in Frames, NEW k \in DOMAIN delivered,
                 f < delivered[k].frame, LastPart \notin LostOf(f)
          PROVE  \E j \in 1 .. k : delivered[j].frame = f
      <3> DEFINE x == <<f, LastPart>>  y == <<delivered[k].frame, LastPart>>
      <3>1. y \in Arrived /\ y \in Frames \X Parts
        BY DEF Deliveries, Arrived
      <3>2. x \in Frames \X Parts /\ x \notin lost
        BY <2>4, Ends DEF LostOf
      <3>3. x[1] = f /\ y[1] = delivered[k].frame
        OBVIOUS
      <3>4. Serial(x) < Serial(y) /\ Serial(x) \in Int /\ Serial(y) \in Int /\ Serial(y) < Sent
        BY <2>4, <3>1, <3>2, <3>3, Order DEF Arrived
      <3> HIDE DEF x, y
      <3>5. ASSUME NEW i \in DOMAIN wire, Id(wire[i]) = x
            PROVE  FALSE
        <4>1. i \in Ours
          BY <3>2, <3>5, OnWire
        <4>2. Serial(y) < Serial(Id(wire[i]))
          BY <3>1, <4>1 DEF Link
        <4> QED
          BY <3>4, <3>5, <4>2
      <3>6. Serial(x) < Sent
        BY <3>4, Totals
      <3>7. x \in Arrived
        BY <3>2, <3>5, <3>6 DEF Arrived
      <3>8. f \in Lasts
        BY <3>7 DEF Lasts, x
      <3>9. PICK j \in DOMAIN delivered : delivered[j].frame = f
        BY <3>8 DEF Deliveries
      <3>10. ~(k < j)
        <4>1. k < j => delivered[k].frame < delivered[j].frame
          BY DEF Deliveries
        <4>2. f \in Int /\ delivered[k].frame \in Int
          BY <3>1 DEF y, Frames
        <4> QED
          BY <2>4, <3>9, <4>1, <4>2
      <3>11. j \in 1 .. k
        BY <2>1, <3>10
      <3> QED
        BY <3>9, <3>11
    <2> QED
      BY <2>2, <2>3, <2>4 DEF FramesAsSent
  <1> QED
    BY <1>1, Invariance, PTL

\* While less than a frame's worth of packets is lost and no foreign frame has
\* come, the statistic of the receiver notices every damaged or missing frame.
THEOREM LossSeen == Spec => []StatisticSeesLoss
  <1>1. PktInv => StatisticSeesLoss
    <2> SUFFICES ASSUME Typed, Statistic, FewLost
                 PROVE  /\ \A l \in DOMAIN lines :
                             lines[l] = 0 => /\ l \in DOMAIN delivered
                                             /\ delivered[l].frame = l /\ Whole(delivered[l])
                        /\ (\E k \in DOMAIN delivered :
                              ~Whole(delivered[k]) \/ delivered[k].frame # k) => Noticed
      BY DEF PktInv, StatisticSeesLoss
    <2>1. \A l \in DOMAIN lines :
             lines[l] = 0 => /\ l \in DOMAIN delivered
                             /\ delivered[l].frame = l /\ Whole(delivered[l])
      BY DEF Statistic, Whole
    <2>2. ASSUME ~Noticed, NEW k \in DOMAIN delivered
          PROVE  Whole(delivered[k]) /\ delivered[k].frame = k
      <3>1. err_count \in Int /\ err_count >= 0
        BY Places DEF Typed
      <3>2. \A l \in DOMAIN lines : lines[l] \in Int /\ lines[l] >= 0
        <4>1. lines \in Seq(0 .. FramePackets)
          BY DEF Typed
        <4>2. \A l \in DOMAIN lines : lines[l] \in 0 .. FramePackets
          BY <4>1, FrameLength
        <4> QED
          BY <4>2, FrameLength
      <3>3. Clean
        BY <2>2, <3>1, <3>2 DEF Noticed, Clean
      <3>4. k \in DOMAIN lines
        BY <3>3 DEF Statistic, InStep, Typed
      <3> QED
        BY <2>1, <3>3, <3>4 DEF Clean
    <2> QED
      BY <2>1, <2>2
  <1> QED
    BY <1>1, Invariance, PTL

\* While less than a frame's worth of packets is lost and no foreign frame has
\* come, every line after the first with an error counts each packet as wrong.
THEOREM NeverInStepAgain == Spec => []OutOfStepForEver
  <1>1. PktInv => OutOfStepForEver
    BY DEF PktInv, Statistic, OutOfStepForEver
  <1> QED
    BY <1>1, Invariance, PTL

\* A step of the receiver leaves the complete frames that no slot has taken as
\* they are, while no header has been lost: startNum_rx then bounds the frames of
\* the ring that are complete or at work, so the place written is not one of them.
LEMMA ReadyKept ==
  ASSUME PktInv, Depackage, \A f \in Frames : <<0, 0>> \notin LostOf(f), NEW i \in ReadyWindow
  PROVE  package_rx'[i] = package_rx[i]
  <1>1. Typed /\ Link /\ Rooms
    BY DEF PktInv
  <1>2. readyNum_rx < PACK_CACHE
    <2>1. Cardinality(Lasts) <= Cardinality(Headers)
      BY <1>1, NoMoreLasts
    <2>2. Cardinality(Lasts) \in Nat /\ Cardinality(Headers) \in Nat
      BY HeadersAndLasts
    <2>3. startNum_rx - working - readyNum_rx = Cardinality(Headers) - Cardinality(Lasts)
      BY <1>1 DEF Rooms
    <2>4. /\ startNum_rx \in Int /\ startNum_rx < PACK_CACHE
          /\ working \in Nat /\ readyNum_rx \in Nat /\ PACK_CACHE \in Nat
      BY <1>1, PacketsAssumption DEF Typed, Depackage, HasRoom, PacketsAssumption
    <2> QED
      BY <2>1, <2>2, <2>3, <2>4
  <1>3. PICK j \in 0 .. readyNum_rx - 1 : i = (index_rx_read + j) % PACK_CACHE
    BY DEF ReadyWindow
  <1>4. /\ PACK_CACHE \in Nat \ {0} /\ index_rx_read \in Int /\ index_rx_write \in Int
        /\ 0 <= index_rx_read /\ index_rx_read < PACK_CACHE
        /\ j \in Nat /\ j < readyNum_rx /\ readyNum_rx \in Nat
    BY <1>1, PacketsAssumption DEF Typed, Ring, PacketsAssumption
  <1>5. i \in Ring /\ (i = index_rx_read + j \/ i = index_rx_read + j - PACK_CACHE)
    <2>1. index_rx_read + j \in Nat /\ index_rx_read + j < PACK_CACHE + PACK_CACHE
      BY <1>2, <1>4
    <2>2. ASSUME NEW a \in Nat, a < PACK_CACHE + PACK_CACHE
          PROVE  /\ a % PACK_CACHE = a \/ a % PACK_CACHE = a - PACK_CACHE
                 /\ a % PACK_CACHE \in 0 .. PACK_CACHE - 1
      <3>1. CASE a < PACK_CACHE
        <4>1. a % PACK_CACHE = a
          BY <1>4, <2>2, <3>1
        <4> QED
          BY <1>4, <2>2, <3>1, <4>1
      <3>2. CASE a >= PACK_CACHE
        <4>1. a % PACK_CACHE = a - PACK_CACHE
          BY <1>4, <2>2, <3>2
        <4> QED
          BY <1>4, <2>2, <3>2, <4>1
      <3> QED
        BY <1>4, <2>2, <3>1, <3>2
    <2> DEFINE b == index_rx_read + j
    <2>3. b \in Nat /\ b < PACK_CACHE + PACK_CACHE /\ i = b % PACK_CACHE
      BY <1>3, <2>1
    <2> HIDE DEF b
    <2>4. (i = b \/ i = b - PACK_CACHE) /\ i \in Ring
      BY <2>2, <2>3 DEF Ring
    <2> QED
      BY <1>4, <2>4 DEF b
  <1>6. i # index_rx_write
    <2> SUFFICES ASSUME i = index_rx_write PROVE FALSE
      OBVIOUS
    <2>1. PICK q \in {0, 1} : index_rx_write = index_rx_read + j - PACK_CACHE * q
      <3>1. PACK_CACHE * 0 = 0 /\ PACK_CACHE * 1 = PACK_CACHE
        BY <1>4
      <3>2. index_rx_read + j = index_rx_read + j - 0
        BY <1>4
      <3> QED
        BY <1>5, <3>1, <3>2
    <2>2. PICK r \in Int : index_rx_read + readyNum_rx - index_rx_write = PACK_CACHE * r
      BY <1>1 DEF Rooms, Multiple
    <2>3. readyNum_rx - j = PACK_CACHE * (r - q)
      <3>1. PACK_CACHE * (r - q) = PACK_CACHE * r - PACK_CACHE * q
        BY <1>4, <2>1
      <3>2. PACK_CACHE * r \in Int /\ PACK_CACHE * q \in Int
        BY <1>4, <2>1
      <3> QED
        BY <1>4, <2>1, <2>2, <3>1, <3>2
    <2> DEFINE s == r - q
    <2>4. s \in Int /\ readyNum_rx - j = PACK_CACHE * s
      BY <2>1, <2>3
    <2> HIDE DEF s
    <2>5. CASE s <= 0
      <3>1. PACK_CACHE * s <= 0
        BY <1>4, <2>4, <2>5
      <3> QED
        BY <1>4, <2>4, <3>1
    <2>6. CASE s >= 1
      <3>1. PACK_CACHE * s >= PACK_CACHE
        BY <1>4, <2>4, <2>6
      <3> QED
        BY <1>2, <1>4, <2>4, <3>1
    <2> QED
      BY <2>4, <2>5, <2>6
  <1>7. CASE 1 \in Ours
    <2>1. package_rx' = [package_rx EXCEPT ![index_rx_write][Part(wire[1])] = wire[1].frame]
      BY <1>1, <1>7, Unpacked
    <2>2. package_rx \in [Ring -> [Parts -> 0 .. MaxFrames]]
      BY <1>1 DEF Typed
    <2> QED
      BY <1>5, <1>6, <2>1, <2>2
  <1>8. CASE 1 \notin Ours
    BY <1>1, <1>8, Unpacked DEF placeVars
  <1> QED
    BY <1>7, <1>8

\* A complete frame that no slot has taken is not written to, as long as no
\* header was lost.
THEOREM ReadyFramesSafe == Spec => ReadyFramesKept
  <1> DEFINE Kept == (\A f \in Frames : <<0, 0>> \notin LostOf(f)) =>
                        \A i \in ReadyWindow : package_rx'[i] = package_rx[i]
  <1>1. PktInv /\ [Next]_vars => [Kept]_vars
    <2> SUFFICES ASSUME PktInv, [Next]_vars, \A f \in Frames : <<0, 0>> \notin LostOf(f),
                        NEW i \in ReadyWindow
                 PROVE  package_rx'[i] = package_rx[i]
      BY Zenon
    <2>1. CASE Depackage
      BY <2>1, ReadyKept
    <2>2. CASE ~Depackage
      BY <2>2, OnLink DEF Next, vars, placeVars, SendPacket, Lose, StrayArrives,
         TakeFrame, FinishFrame
    <2> QED
      BY <2>1, <2>2
  <1> QED
    BY <1>1, Invariance, PTL DEF Spec, ReadyFramesKept

=============================================================================
