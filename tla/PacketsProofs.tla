---------------------------- MODULE PacketsProofs ----------------------------
(***************************************************************************)
(* Bytes from a device, for every byte stream and every way to cut it: the *)
(* parsers make the same of a stream however the reads cut it, keep a      *)
(* bounded buffer, and lose and repeat nothing of what is sent whole.      *)
(*                                                                         *)
(* The parsers are recursive functions.  What their equations determine is *)
(* proved from one lemma about recursion (RecursionExists), and what they  *)
(* return by looking at a shortest input for which it would be wrong.      *)
(***************************************************************************)
EXTENDS Packets, SequenceTheorems, WellFoundedInduction, TLAPS

-----------------------------------------------------------------------------
(* Least elements and recursion.                                           *)

(* A set of natural numbers has a least one. *)
LEMMA MinExists ==
  ASSUME NEW S \in SUBSET Nat, S # {}
  PROVE  Min(S) \in S /\ \A i \in S : Min(S) <= i
<1>1. PICK m \in S : \A i \in S : ~(<<i, m>> \in OpToRel(<, Nat))
  BY WFMin, NatLessThanWellFounded
<1>2. \A i \in S : ~(i < m)
  BY <1>1 DEF OpToRel
<1>3. \A i \in S : m <= i
  BY <1>2
<1> QED BY <1>3 DEF Min

(* An element of S of least size. *)
LEMMA LeastExists ==
  ASSUME NEW S, S # {}, NEW size \in [S -> Nat]
  PROVE  \E a \in S : \A b \in S : size[a] <= size[b]
<1> DEFINE N == {size[a] : a \in S}
<1>1. N \in SUBSET Nat /\ N # {}
  OBVIOUS
<1> HIDE DEF N
<1>2. Min(N) \in N /\ \A i \in N : Min(N) <= i
  BY <1>1, MinExists
<1>3. PICK a \in S : size[a] = Min(N)
  BY <1>2 DEF N
<1>4. \A b \in S : size[a] <= size[b]
  BY <1>2, <1>3 DEF N
<1> QED BY <1>4

(* A function that satisfies an equation by which each of its values is    *)
(* computed from the others.                                               *)
Recursive(D, V, step, f) == f \in [D -> V] /\ \A d \in D : f[d] = step[<<d, f>>]

(* When only the values for what is smaller count, there is one: it is put *)
(* together from functions that satisfy the equation up to a size.         *)
LEMMA RecursionExists ==
  ASSUME NEW D, NEW V, V # {}, NEW size \in [D -> Nat],
         NEW step \in [D \X [D -> V] -> V],
         \A d \in D : \A f, g \in [D -> V] :
           (\A e \in D : size[e] < size[d] => f[e] = g[e])
             => step[<<d, f>>] = step[<<d, g>>]
  PROVE  \E f : Recursive(D, V, step, f)
<1> DEFINE G(n) == {f \in [D -> V] : \A d \in D : size[d] < n => f[d] = step[<<d, f>>]}
           Empty == {n \in Nat : G(n) = {}}
<1>1. G(0) # {}
  <2>1. PICK v \in V : TRUE
    OBVIOUS
  <2>2. [d \in D |-> v] \in G(0)
    OBVIOUS
  <2> QED BY <2>2
<1>2. ASSUME NEW n \in Nat, NEW f \in G(n)
      PROVE  [d \in D |-> step[<<d, f>>]] \in G(n + 1)
  <2> DEFINE g == [d \in D |-> step[<<d, f>>]]
  <2>1. f \in [D -> V] /\ g \in [D -> V]
    OBVIOUS
  <2>2. \A d \in D : size[d] < n => g[d] = f[d]
    OBVIOUS
  <2>3. ASSUME NEW d \in D, size[d] < n + 1
        PROVE  g[d] = step[<<d, g>>]
    <3>1. \A e \in D : size[e] < size[d] => f[e] = g[e]
      BY <2>2, <2>3
    <3>2. step[<<d, f>>] = step[<<d, g>>]
      BY <2>1, <3>1
    <3> QED BY <3>2
  <2> HIDE DEF g
  <2>4. g \in G(n + 1)
    BY <2>1, <2>3
  <2> QED BY <2>4 DEF g
<1>3. Empty = {}
  <2> SUFFICES ASSUME Empty # {} PROVE FALSE OBVIOUS
  <2>1. Empty \in SUBSET Nat
    OBVIOUS
  <2> DEFINE n == Min(Empty)
  <2> HIDE DEF G, Empty
  <2>2. n \in Empty /\ \A i \in Empty : n <= i
    BY <2>1, MinExists
  <2> HIDE DEF n
  <2>3. n \in Nat /\ G(n) = {}
    BY <2>2 DEF Empty
  <2>4. n # 0
    BY <1>1, <2>3
  <2>5. n - 1 \in Nat /\ n - 1 \notin Empty
    BY <2>2, <2>3, <2>4
  <2>6. PICK f : f \in G(n - 1)
    BY <2>5 DEF Empty
  <2>7. G(n - 1 + 1) # {}
    BY <1>2, <2>5, <2>6
  <2> QED BY <2>3, <2>7
<1>4. ASSUME NEW n \in Nat, NEW f \in G(n), NEW g \in G(n)
      PROVE  \A d \in D : size[d] < n => f[d] = g[d]
  <2> DEFINE Differ == {d \in D : size[d] < n /\ f[d] # g[d]}
             sizes == [d \in Differ |-> size[d]]
  <2> SUFFICES ASSUME Differ # {} PROVE FALSE OBVIOUS
  <2>1. sizes \in [Differ -> Nat]
    OBVIOUS
  <2>2. PICK d \in Differ : \A e \in Differ : sizes[d] <= sizes[e]
    <3> HIDE DEF Differ, sizes
    <3> QED BY <2>1, LeastExists
  <2>3. \A e \in D : size[e] < size[d] => f[e] = g[e]
    BY <2>2
  <2>4. step[<<d, f>>] = step[<<d, g>>]
    BY <2>3
  <2> QED BY <2>4
<1> DEFINE Approx(n) == CHOOSE f : f \in G(n)
           F == [d \in D |-> Approx(size[d] + 1)[d]]
<1>5. \A n \in Nat : Approx(n) \in G(n)
  <2> HIDE DEF G
  <2> QED BY <1>3
<1> HIDE DEF Approx, Empty
<1>6. F \in [D -> V]
  BY <1>5
<1>7. ASSUME NEW d \in D
      PROVE  F[d] = step[<<d, F>>]
  <2> DEFINE n == size[d] + 1
             f == Approx(n)
  <2>1. n \in Nat /\ f \in G(n)
    <3> HIDE DEF G
    <3> QED BY <1>5
  <2>2. ASSUME NEW e \in D, size[e] < size[d]
        PROVE  f[e] = F[e]
    <3> DEFINE h == Approx(size[e] + 1)
    <3>1. size[e] + 1 \in Nat /\ h \in G(size[e] + 1)
      <4> HIDE DEF G
      <4> QED BY <1>5
    <3>2. f \in G(size[e] + 1)
      <4> HIDE DEF f, h
      <4> QED BY <2>1, <2>2
    <3>3. f[e] = h[e]
      <4> HIDE DEF G, h, f
      <4>1. size[e] < size[e] + 1
        OBVIOUS
      <4> QED BY <1>4, <3>1, <3>2, <4>1
    <3> QED BY <3>3
  <2>3. f \in [D -> V] /\ f[d] = step[<<d, f>>]
    <3> HIDE DEF f
    <3> QED BY <2>1
  <2>4. step[<<d, f>>] = step[<<d, F>>]
    <3> HIDE DEF f, F
    <3> QED BY <1>6, <2>2, <2>3
  <2>5. F[d] = f[d]
    OBVIOUS
  <2> QED BY <2>3, <2>4, <2>5
<1> HIDE DEF F
<1> QED BY <1>6, <1>7 DEF Recursive

-----------------------------------------------------------------------------
(* Where the packets are.                                                  *)

(* What a parser may return, and the two binary parsers.                   *)
Results == [rest : Seq(Byte), values : Seq(Seq(Byte))]
Binary == {"xsens", "ublox"}

(* Where the first packet ends, or 0 if it is not complete.                *)
CutEnd(k, b) ==
  IF Preambles(k, b) = {} THEN 0 ELSE PacketEnd(k, b, Min(Preambles(k, b)))

(* The packet, and what is behind it.                                      *)
Cut(k, b) == SubSeq(b, Min(Preambles(k, b)), CutEnd(k, b))
Behind(k, b) == SubSeq(b, CutEnd(k, b) + 1, Len(b))

Nothing(b) == [rest |-> b, values |-> <<>>]
Then(vs, result) == [rest |-> result.rest, values |-> vs \o result.values]

(* A round of the parser, given how it goes on.                            *)
RoundOf(k, b, parse) ==
  IF CutEnd(k, b) = 0 THEN Nothing(b)
  ELSE Then(PacketValues(k, Cut(k, b)), parse[Behind(k, b)])

(* The high byte of a length, scaled, is a number. *)
LEMMA ProductTyped ==
  ASSUME NEW x \in Nat, NEW y \in Nat PROVE x * y \in Nat
  OBVIOUS

(* The same, with its low byte. *)
LEMMA LengthTyped == \A x, y \in Nat : x + Base * y \in Nat
<1> SUFFICES ASSUME NEW x \in Nat, NEW y \in Nat PROVE x + Base * y \in Nat
  OBVIOUS
<1>1. Base \in Nat
  BY PacketFormatAssumption
<1>2. Base * y \in Nat
  BY <1>1, ProductTyped
<1> QED BY <1>2

(* A packet ends behind its preamble and within the buffer.                *)
LEMMA PacketEndWithin ==
  ASSUME NEW k \in Binary, NEW b \in Seq(Byte), NEW p \in 1..(Len(b) - 1)
  PROVE  \/ PacketEnd(k, b, p) = 0
         \/ PacketEnd(k, b, p) \in (p + 4)..Len(b)
<1>1. \A i \in 1..Len(b) : b[i] \in Nat
  <2>1. \A x \in Byte : x \in Nat
    BY PacketFormatAssumption DEF Byte
  <2>2. \A i \in 1..Len(b) : b[i] \in Byte
    OBVIOUS
  <2> QED BY <2>1, <2>2
<1>2. \A x, y \in Nat : x + Base * y \in Nat
  BY LengthTyped
<1>3. CASE k = "xsens"
  <2>1. CASE p + 3 <= Len(b)
    <3>1. b[p + 3] \in Nat
      BY <1>1, <2>1
    <3>2. PacketEnd(k, b, p) = IF p + 3 + b[p + 3] + 1 <= Len(b) THEN p + 3 + b[p + 3] + 1 ELSE 0
      BY <1>3, <2>1, <3>1 DEF PacketEnd
    <3> QED BY <3>1, <3>2
  <2>2. CASE ~(p + 3 <= Len(b))
    BY <1>3, <2>2 DEF PacketEnd
  <2> QED BY <2>1, <2>2
<1>4. CASE k = "ublox"
  <2> DEFINE length == b[p + 4] + Base * b[p + 5]
  <2>1. CASE p + 5 <= Len(b)
    <3>1. length \in Nat
      <4>1. b[p + 4] \in Nat /\ b[p + 5] \in Nat
        BY <1>1, <2>1
      <4> QED BY <1>2, <4>1
    <3>2. PacketEnd(k, b, p) = IF p + 5 + length + 2 <= Len(b) THEN p + 5 + length + 2 ELSE 0
      BY <1>4, <2>1, <3>1 DEF PacketEnd
    <3> HIDE DEF length
    <3> QED BY <3>1, <3>2
  <2>2. CASE ~(p + 5 <= Len(b))
    BY <1>4, <2>2 DEF PacketEnd
  <2> QED BY <2>1, <2>2
<1> QED BY <1>3, <1>4 DEF Binary

(* Bytes that come later do not move it.                                   *)
LEMMA PacketEndStays ==
  ASSUME NEW k \in Binary, NEW b \in Seq(Byte), NEW c \in Seq(Byte),
         NEW p \in 1..(Len(b) - 1), PacketEnd(k, b, p) # 0
  PROVE  PacketEnd(k, b \o c, p) = PacketEnd(k, b, p)
<1> DEFINE d == b \o c
<1>1. /\ Len(d) = Len(b) + Len(c) /\ Len(b) \in Nat /\ Len(c) \in Nat
      /\ \A i \in 1..Len(b) : d[i] = b[i] /\ b[i] \in Nat
  <2>1. \A i \in 1..Len(b) : b[i] \in Byte
    OBVIOUS
  <2>2. Byte \subseteq Nat
    BY PacketFormatAssumption DEF Byte
  <2>3. \A i \in 1..Len(b) : d[i] = b[i]
    OBVIOUS
  <2>4. Len(d) = Len(b) + Len(c) /\ Len(b) \in Nat /\ Len(c) \in Nat
    OBVIOUS
  <2> QED BY <2>1, <2>2, <2>3, <2>4
<1> HIDE DEF d
<1>2. \A x, y \in Nat : x + Base * y \in Nat
  BY LengthTyped
<1>3. CASE k = "xsens"
  <2>1. p + 3 <= Len(b)
    BY <1>3 DEF PacketEnd
  <2>2. b[p + 3] \in Nat /\ d[p + 3] = b[p + 3]
    BY <1>1, <2>1
  <2>3. PacketEnd(k, b, p) = IF p + 3 + b[p + 3] + 1 <= Len(b) THEN p + 3 + b[p + 3] + 1 ELSE 0
    BY <1>3, <2>1, <2>2 DEF PacketEnd
  <2>4. PacketEnd(k, d, p) = IF p + 3 + b[p + 3] + 1 <= Len(d) THEN p + 3 + b[p + 3] + 1 ELSE 0
    BY <1>1, <1>3, <2>1, <2>2 DEF PacketEnd
  <2> QED BY <1>1, <2>2, <2>3, <2>4 DEF d
<1>4. CASE k = "ublox"
  <2> DEFINE length == b[p + 4] + Base * b[p + 5]
  <2>1. p + 5 <= Len(b)
    BY <1>4 DEF PacketEnd
  <2>2. length \in Nat /\ d[p + 4] + Base * d[p + 5] = length
    <3>1. /\ b[p + 4] \in Nat /\ b[p + 5] \in Nat
          /\ d[p + 4] = b[p + 4] /\ d[p + 5] = b[p + 5]
      BY <1>1, <2>1
    <3> QED BY <1>2, <3>1
  <2>3. PacketEnd(k, b, p) = IF p + 5 + length + 2 <= Len(b) THEN p + 5 + length + 2 ELSE 0
    BY <1>4, <2>1, <2>2 DEF PacketEnd
  <2>4. PacketEnd(k, d, p) = IF p + 5 + length + 2 <= Len(d) THEN p + 5 + length + 2 ELSE 0
    <3> DEFINE longer == d[p + 4] + Base * d[p + 5]
    <3>1. longer = length
      BY <2>2
    <3>2. PacketEnd(k, d, p) = IF p + 5 + longer + 2 <= Len(d) THEN p + 5 + longer + 2 ELSE 0
      BY <1>1, <1>4, <2>1, <2>2, <3>1 DEF PacketEnd
    <3> HIDE DEF length, longer
    <3> QED BY <3>1, <3>2
  <2> HIDE DEF length
  <2> QED BY <1>1, <2>2, <2>3, <2>4 DEF d
<1> QED BY <1>3, <1>4 DEF Binary

(* The first packet begins at the first preamble and ends behind it.       *)
LEMMA CutWithin ==
  ASSUME NEW k \in Binary, NEW b \in Seq(Byte)
  PROVE  /\ CutEnd(k, b) \in 0..Len(b)
         /\ CutEnd(k, b) # 0 => /\ Min(Preambles(k, b)) \in Preambles(k, b)
                                /\ Min(Preambles(k, b)) \in 1..(Len(b) - 1)
                                /\ \A q \in Preambles(k, b) : Min(Preambles(k, b)) <= q
                                /\ Min(Preambles(k, b)) + 4 <= CutEnd(k, b)
<1>1. Preambles(k, b) \in SUBSET (1..(Len(b) - 1)) /\ Preambles(k, b) \in SUBSET Nat
  BY DEF Preambles
<1>2. CASE Preambles(k, b) = {}
  BY <1>2 DEF CutEnd
<1>3. CASE Preambles(k, b) # {}
  <2> DEFINE p == Min(Preambles(k, b))
  <2>1. p \in Preambles(k, b) /\ \A q \in Preambles(k, b) : p <= q
    BY <1>1, <1>3, MinExists
  <2>2. p \in 1..(Len(b) - 1)
    BY <1>1, <2>1
  <2>3. CutEnd(k, b) = PacketEnd(k, b, p)
    BY <1>3 DEF CutEnd
  <2> HIDE DEF p
  <2>4. PacketEnd(k, b, p) = 0 \/ PacketEnd(k, b, p) \in (p + 4)..Len(b)
    BY <2>2, PacketEndWithin
  <2>5. CutEnd(k, b) \in 0..Len(b) /\ (CutEnd(k, b) # 0 => p + 4 <= CutEnd(k, b))
    BY <2>2, <2>3, <2>4
  <2> QED BY <2>1, <2>2, <2>5 DEF p
<1> QED BY <1>2, <1>3

(* A packet that is complete is cut the same when more bytes have come.    *)
LEMMA CutStays ==
  ASSUME NEW k \in Binary, NEW b \in Seq(Byte), NEW c \in Seq(Byte), CutEnd(k, b) # 0
  PROVE  /\ CutEnd(k, b \o c) = CutEnd(k, b)
         /\ Cut(k, b \o c) = Cut(k, b)
         /\ Behind(k, b \o c) = Behind(k, b) \o c
<1> DEFINE d == b \o c
           p == Min(Preambles(k, b))
           e == CutEnd(k, b)
<1>1. /\ Len(d) = Len(b) + Len(c) /\ Len(b) \in Nat /\ Len(c) \in Nat /\ d \in Seq(Byte)
      /\ \A i \in 1..Len(b) : d[i] = b[i]
      /\ \A i \in 1..Len(c) : d[Len(b) + i] = c[i]
  OBVIOUS
<1>2. /\ p \in Preambles(k, b) /\ p \in 1..(Len(b) - 1) /\ e \in 0..Len(b)
      /\ \A q \in Preambles(k, b) : p <= q
      /\ p + 4 <= e
  BY CutWithin
<1>3. PacketEnd(k, b, p) = e
  BY DEF CutEnd
<1>4. PacketEnd(k, d, p) = e
  <2> HIDE DEF p, e
  <2> QED BY <1>2, <1>3, PacketEndStays DEF e
<1> HIDE DEF d, p, e
<1>5. \A q \in 1..(Len(b) - 1) : q \in Preambles(k, b) <=> q \in Preambles(k, d)
  <2>1. ASSUME NEW q \in 1..(Len(b) - 1)
        PROVE  d[q] = b[q] /\ d[q + 1] = b[q + 1] /\ q \in 1..(Len(d) - 1)
    <3>1. q \in 1..Len(b) /\ q + 1 \in 1..Len(b)
      BY <1>1
    <3> QED BY <1>1, <3>1
  <2> QED BY <2>1 DEF Preambles
<1>6. \A q \in Preambles(k, d) : p <= q
  <2> SUFFICES ASSUME NEW q \in Preambles(k, d), q < p PROVE FALSE
    BY <1>2 DEF Preambles
  <2>1. q \in Preambles(k, b)
    <3>1. q \in 1..(Len(b) - 1)
      BY <1>2 DEF Preambles
    <3> QED BY <1>5, <3>1
  <2> QED BY <1>2, <2>1 DEF Preambles
<1>7. p \in Preambles(k, d) /\ Min(Preambles(k, d)) = p
  <2>1. Preambles(k, d) \in SUBSET Nat /\ Preambles(k, d) # {}
    <3>1. p \in Preambles(k, d)
      BY <1>2, <1>5
    <3>2. \A q \in Preambles(k, d) : q \in Nat
      BY <1>1 DEF Preambles
    <3> QED BY <3>1, <3>2
  <2>2. /\ Min(Preambles(k, d)) \in Preambles(k, d)
        /\ \A q \in Preambles(k, d) : Min(Preambles(k, d)) <= q
    BY <2>1, MinExists
  <2> QED BY <1>2, <1>5, <1>6, <2>1, <2>2
<1>8. CutEnd(k, d) = e
  BY <1>4, <1>7 DEF CutEnd
<1>9. SubSeq(d, p, e) = SubSeq(b, p, e)
  BY <1>1, <1>2
<1>10. SubSeq(d, e + 1, Len(d)) = SubSeq(b, e + 1, Len(b)) \o c
  <2> DEFINE x == SubSeq(d, e + 1, Len(d))
             y == SubSeq(b, e + 1, Len(b))
  <2>1. x \in Seq(Byte) /\ Len(x) = Len(d) - e /\ \A i \in 1..(Len(d) - e) : x[i] = d[e + i]
    <3>1. e + 1 \in 1..(Len(d) + 1) /\ Len(d) \in Nat /\ e \in Nat
      BY <1>1, <1>2
    <3>2. Len(x) = Len(d) - e
      BY <3>1
    <3>3. x \in Seq(Byte)
      BY <1>1, <3>1
    <3>4. \A i \in 1..(Len(d) - e) : x[i] = d[e + i]
      BY <3>1
    <3> QED BY <3>2, <3>3, <3>4
  <2>2. y \in Seq(Byte) /\ Len(y) = Len(b) - e /\ \A i \in 1..(Len(b) - e) : y[i] = b[e + i]
    BY <1>1, <1>2
  <2> HIDE DEF x, y
  <2>3. y \o c \in Seq(Byte) /\ Len(y \o c) = Len(x)
    <3>1. y \o c \in Seq(Byte) /\ Len(y \o c) = Len(y) + Len(c)
      BY <2>2, ConcatProperties
    <3> QED BY <1>1, <1>2, <2>1, <2>2, <3>1
  <2>4. ASSUME NEW i \in 1..Len(x)
        PROVE  x[i] = (y \o c)[i]
    <3>1. CASE i <= Len(y)
      <4>1. i \in 1..(Len(b) - e) /\ e + i \in 1..Len(b) /\ (y \o c)[i] = y[i]
        BY <1>2, <2>2, <3>1
      <4> QED BY <1>1, <2>1, <2>2, <4>1
    <3>2. CASE ~(i <= Len(y))
      <4>1. i - Len(y) \in 1..Len(c) /\ Len(b) + (i - Len(y)) = e + i
        BY <1>1, <1>2, <2>1, <2>2, <3>2
      <4>3. (y \o c)[i] = c[i - Len(y)]
        BY <2>2, <3>2, <4>1
      <4>2. d[e + i] = c[i - Len(y)]
        BY <1>1, <4>1
      <4> QED BY <1>2, <2>1, <4>1, <4>2, <4>3
    <3> QED BY <3>1, <3>2
  <2>5. x = y \o c
    BY <2>1, <2>3, <2>4
  <2> QED BY <2>5 DEF x, y
<1>11. Cut(k, d) = Cut(k, b) /\ Behind(k, d) = Behind(k, b) \o c
  BY <1>7, <1>8, <1>9, <1>10 DEF Cut, Behind, e, p
<1> QED BY <1>8, <1>11 DEF d, e

-----------------------------------------------------------------------------
(* What the parsers return.                                                *)

(* An item that is not cut off ends behind its beginning, in the packet.   *)
LEMMA ItemEndWithin ==
  ASSUME NEW data \in Seq(Byte), NEW i \in 1..(Len(data) + 1)
  PROVE  ItemEnd(data, i) = 0 \/ ItemEnd(data, i) \in (i + 1)..Len(data)
<1>1. CASE i + 1 <= Len(data)
  <2>1. data[i + 1] \in Nat
    <3>1. \A x \in Byte : x \in Nat
      BY PacketFormatAssumption DEF Byte
    <3>2. i + 1 \in 1..Len(data)
      BY <1>1
    <3>3. data[i + 1] \in Byte
      BY <3>2
    <3> QED BY <3>1, <3>3
  <2> QED BY <1>1, <2>1 DEF ItemEnd
<1>2. CASE ~(i + 1 <= Len(data))
  BY <1>2 DEF ItemEnd
<1> QED BY <1>1, <1>2

(* The values of an Xsens packet: each the bytes of an item.               *)
LEMMA ItemValuesTyped ==
  ASSUME NEW data \in Seq(Byte)
  PROVE  ItemValues(data) \in Seq(Seq(Byte))
<1> DEFINE D == 1..(Len(data) + 1)
           V == Seq(Seq(Byte))
           Items(i, f) == IF ItemEnd(data, i) = 0 THEN <<>>
                          ELSE IF <<data[i], data[i + 1]>> \in XsensItems
                               THEN <<SubSeq(data, i, ItemEnd(data, i))>>
                                      \o f[ItemEnd(data, i) + 1]
                               ELSE f[ItemEnd(data, i) + 1]
           size == [i \in D |-> Len(data) + 1 - i]
           step == [x \in D \X [D -> V] |-> Items(x[1], x[2])]
           from == CHOOSE f : f = [i \in D |-> Items(i, f)]
<1>1. V # {} /\ size \in [D -> Nat]
  <2>1. <<>> \in V
    OBVIOUS
  <2>2. \A i \in D : Len(data) + 1 - i \in Nat
    OBVIOUS
  <2> HIDE DEF D, V
  <2> QED BY <2>1, <2>2
<1>2. ASSUME NEW i \in D, ItemEnd(data, i) # 0
      PROVE  /\ ItemEnd(data, i) + 1 \in D /\ i < ItemEnd(data, i) + 1
             /\ <<SubSeq(data, i, ItemEnd(data, i))>> \in V
  <2>1. ItemEnd(data, i) \in (i + 1)..Len(data)
    BY <1>2, ItemEndWithin
  <2>2. SubSeq(data, i, ItemEnd(data, i)) \in Seq(Byte)
    BY <2>1
  <2>3. <<SubSeq(data, i, ItemEnd(data, i))>> \in V
    <3> DEFINE item == SubSeq(data, i, ItemEnd(data, i))
    <3> HIDE DEF item
    <3> QED BY <2>2 DEF item
  <2> QED BY <2>1, <2>3
<1>3. ASSUME NEW i \in D, NEW f, \A j \in D : i < j => f[j] \in V
      PROVE  Items(i, f) \in V
  <2>1. CASE ItemEnd(data, i) = 0
    BY <2>1
  <2>2. CASE ItemEnd(data, i) # 0
    <3>1. f[ItemEnd(data, i) + 1] \in V
      BY <1>2, <1>3, <2>2
    <3> HIDE DEF D
    <3>2. <<SubSeq(data, i, ItemEnd(data, i))>> \o f[ItemEnd(data, i) + 1] \in V
      BY <1>2, <2>2, <3>1
    <3> QED BY <2>2, <3>1, <3>2
  <2> QED BY <2>1, <2>2
<1>4. step \in [D \X [D -> V] -> V]
  <2>1. ASSUME NEW i \in D, NEW f \in [D -> V] PROVE Items(i, f) \in V
    <3> HIDE DEF D, V, Items
    <3> QED BY <1>3
  <2> HIDE DEF D, V, Items
  <2> QED BY <2>1
<1>5. ASSUME NEW i \in D, NEW f \in [D -> V], NEW g \in [D -> V],
             \A j \in D : size[j] < size[i] => f[j] = g[j]
      PROVE  step[<<i, f>>] = step[<<i, g>>]
  <2>1. \A j \in D : i < j => f[j] = g[j]
    BY <1>5
  <2>2. Items(i, f) = Items(i, g)
    BY <1>2, <2>1
  <2> HIDE DEF D, V, Items
  <2> QED BY <2>2
<1>6. PICK f : Recursive(D, V, step, f)
  <2> HIDE DEF D, V, size, step
  <2> QED BY <1>1, <1>4, <1>5, RecursionExists
<1>7. f = [i \in D |-> Items(i, f)]
  <2> HIDE DEF D, V, Items
  <2> QED BY <1>6 DEF Recursive
<1>8. from = [i \in D |-> Items(i, from)]
  <2> HIDE DEF D, V, Items
  <2> QED BY <1>7, Zenon
<1>9. \A i \in D : from[i] \in V
  <2> DEFINE Untyped == {i \in D : from[i] \notin V}
             sizes == [i \in Untyped |-> size[i]]
  <2> HIDE DEF Items, from
  <2> SUFFICES ASSUME Untyped # {} PROVE FALSE OBVIOUS
  <2>1. PICK i \in Untyped : \A j \in Untyped : sizes[i] <= sizes[j]
    <3>1. sizes \in [Untyped -> Nat]
      OBVIOUS
    <3> HIDE DEF Untyped, sizes
    <3> QED BY <3>1, LeastExists
  <2>2. ASSUME NEW j \in D, i < j
        PROVE  from[j] \in V
    <3>1. size[j] < size[i]
      BY <2>2
    <3>2. j \in Untyped => sizes[i] <= sizes[j] /\ sizes[i] = size[i] /\ sizes[j] = size[j]
      BY <2>1
    <3>3. size[j] \in Nat /\ size[i] \in Nat
      BY <1>1
    <3> QED BY <3>1, <3>2, <3>3
  <2>3. Items(i, from) \in V
    BY <1>3, <2>2
  <2> QED BY <1>8, <2>3
<1>10. ItemValues(data) = from[1]
  BY DEF ItemValues
<1>11. 1 \in D
  OBVIOUS
<1> HIDE DEF from, V, D
<1> QED BY <1>9, <1>10, <1>11 DEF V

(* The values of a packet, whatever is in it.                              *)
LEMMA PacketValuesTyped ==
  ASSUME NEW k \in Binary, NEW packet \in Seq(Byte)
  PROVE  PacketValues(k, packet) \in Seq(Seq(Byte))
<1>1. <<>> \in Seq(Seq(Byte))
  OBVIOUS
<1>2. SubSeq(packet, 5, Len(packet) - 1) \in Seq(Byte)
  OBVIOUS
<1>3. XsensValues(packet) \in Seq(Seq(Byte))
  <2> DEFINE data == SubSeq(packet, 5, Len(packet) - 1)
  <2>1. XsensValues(packet) = ItemValues(data) \/ XsensValues(packet) = <<>>
    BY DEF XsensValues
  <2> HIDE DEF data
  <2>2. ItemValues(data) \in Seq(Seq(Byte))
    BY <1>2, ItemValuesTyped DEF data
  <2> QED BY <1>1, <2>1, <2>2
<1>4. UbloxValues(packet) \in Seq(Seq(Byte))
  <2>1. UbloxData(packet) \in Seq(Byte)
    BY DEF UbloxData
  <2>2. UbloxValues(packet) = <<UbloxData(packet)>> \/ UbloxValues(packet) = <<>>
    BY DEF UbloxValues
  <2>3. <<UbloxData(packet)>> \in Seq(Seq(Byte))
    BY <2>1
  <2> QED BY <1>1, <2>2, <2>3
<1> QED BY <1>3, <1>4 DEF PacketValues

-----------------------------------------------------------------------------
(* The parser, round by round.                                             *)

(* A round leaves less to do.                                              *)
LEMMA BehindIsShorter ==
  ASSUME NEW k \in Binary, NEW b \in Seq(Byte), CutEnd(k, b) # 0
  PROVE  /\ Behind(k, b) \in Seq(Byte) /\ Len(Behind(k, b)) < Len(b)
         /\ PacketValues(k, Cut(k, b)) \in Seq(Seq(Byte))
<1> DEFINE p == Min(Preambles(k, b))
           e == CutEnd(k, b)
<1>1. p \in 1..Len(b) /\ e \in 1..Len(b)
  BY CutWithin
<1> HIDE DEF p, e
<1>2. SubSeq(b, p, e) \in Seq(Byte)
  BY <1>1
<1>3. SubSeq(b, e + 1, Len(b)) \in Seq(Byte) /\ Len(SubSeq(b, e + 1, Len(b))) < Len(b)
  BY <1>1
<1>4. Cut(k, b) \in Seq(Byte)
  BY <1>2 DEF Cut, p, e
<1> QED BY <1>3, <1>4, PacketValuesTyped DEF Behind, e

(* The parser takes a packet from the front and goes on behind it, until   *)
(* none is complete.                                                       *)
LEMMA PacketsParsedRound ==
  ASSUME NEW k \in Binary, NEW b \in Seq(Byte)
  PROVE  /\ PacketsParsed(k, b) \in Results
         /\ PacketsParsed(k, b) =
              IF CutEnd(k, b) = 0 THEN Nothing(b)
              ELSE Then(PacketValues(k, Cut(k, b)), PacketsParsed(k, Behind(k, b)))
<1> DEFINE D == Seq(Byte)
           size == [d \in D |-> Len(d)]
           step == [x \in D \X [D -> Results] |-> RoundOf(k, x[1], x[2])]
           parse == CHOOSE f : f = [d \in D |-> RoundOf(k, d, f)]
<1>1. Results # {} /\ size \in [D -> Nat]
  <2>1. Nothing(<<>>) \in Results
    BY DEF Nothing, Results
  <2> QED BY <2>1
<1>2. ASSUME NEW d \in D, NEW f, \A e \in D : Len(e) < Len(d) => f[e] \in Results
      PROVE  RoundOf(k, d, f) \in Results
  <2>1. CASE CutEnd(k, d) = 0
    BY <2>1 DEF RoundOf, Nothing, Results
  <2>2. CASE CutEnd(k, d) # 0
    <3> DEFINE vs == PacketValues(k, Cut(k, d))
               r  == f[Behind(k, d)]
    <3>1. vs \in Seq(Seq(Byte)) /\ r \in Results
      BY <1>2, <2>2, BehindIsShorter
    <3>2. RoundOf(k, d, f) = Then(vs, r)
      BY <2>2 DEF RoundOf
    <3> HIDE DEF vs, r
    <3>3. r.rest \in Seq(Byte) /\ r.values \in Seq(Seq(Byte))
      BY <3>1 DEF Results
    <3>4. vs \o r.values \in Seq(Seq(Byte))
      BY <3>1, <3>3
    <3> QED BY <3>2, <3>3, <3>4 DEF Then, Results
  <2> QED BY <2>1, <2>2
<1>3. step \in [D \X [D -> Results] -> Results]
  <2>1. ASSUME NEW d \in D, NEW f \in [D -> Results] PROVE RoundOf(k, d, f) \in Results
    <3> HIDE DEF D
    <3> QED BY <1>2
  <2> HIDE DEF D
  <2> QED BY <2>1
<1>4. ASSUME NEW d \in D, NEW f \in [D -> Results], NEW g \in [D -> Results],
             \A e \in D : size[e] < size[d] => f[e] = g[e]
      PROVE  step[<<d, f>>] = step[<<d, g>>]
  <2>1. CutEnd(k, d) # 0 => f[Behind(k, d)] = g[Behind(k, d)]
    <3> SUFFICES ASSUME CutEnd(k, d) # 0 PROVE f[Behind(k, d)] = g[Behind(k, d)] OBVIOUS
    <3>1. Behind(k, d) \in D /\ Len(Behind(k, d)) < Len(d)
      BY BehindIsShorter
    <3> QED BY <1>4, <3>1
  <2>2. RoundOf(k, d, f) = RoundOf(k, d, g)
    BY <2>1 DEF RoundOf
  <2> HIDE DEF D
  <2> QED BY <2>2
<1>5. PICK f : Recursive(D, Results, step, f)
  <2> HIDE DEF D, size, step
  <2> QED BY <1>1, <1>3, <1>4, RecursionExists
<1>6. f = [d \in D |-> RoundOf(k, d, f)]
  <2> HIDE DEF D
  <2> QED BY <1>5 DEF Recursive
<1>7. parse = [d \in D |-> RoundOf(k, d, parse)]
  <2> HIDE DEF D
  <2> QED BY <1>6, Zenon
<1>8. \A d \in D : parse[d] \in Results
  <2> DEFINE Untyped == {d \in D : parse[d] \notin Results}
             sizes == [d \in Untyped |-> size[d]]
  <2> HIDE DEF parse
  <2> SUFFICES ASSUME Untyped # {} PROVE FALSE OBVIOUS
  <2>1. PICK d \in Untyped : \A e \in Untyped : sizes[d] <= sizes[e]
    <3>1. sizes \in [Untyped -> Nat]
      OBVIOUS
    <3> HIDE DEF Untyped, sizes
    <3> QED BY <3>1, LeastExists
  <2>2. ASSUME NEW e \in D, Len(e) < Len(d)
        PROVE  parse[e] \in Results
    <3>1. e \in Untyped => sizes[d] <= sizes[e] /\ sizes[d] = Len(d) /\ sizes[e] = Len(e)
      BY <2>1
    <3>2. Len(d) \in Nat /\ Len(e) \in Nat
      OBVIOUS
    <3> QED BY <2>2, <3>1, <3>2
  <2>3. RoundOf(k, d, parse) \in Results
    BY <1>2, <2>2
  <2> QED BY <1>7, <2>3
<1>9. \A d : PacketsParsed(k, d) = parse[d]
  BY DEF PacketsParsed, RoundOf, Nothing, Then, Cut, Behind, CutEnd
<1> HIDE DEF parse
<1>10. parse[b] \in Results /\ parse[b] = RoundOf(k, b, parse)
  BY <1>7, <1>8
<1> QED BY <1>9, <1>10 DEF RoundOf

(* What is left is not longer than what there was.                         *)
LEMMA RestIsNotLonger ==
  ASSUME NEW k \in Binary, NEW b \in Seq(Byte)
  PROVE  Len(PacketsParsed(k, b).rest) <= Len(b)
<1> DEFINE Longer == {d \in Seq(Byte) : ~(Len(PacketsParsed(k, d).rest) <= Len(d))}
           size == [d \in Longer |-> Len(d)]
<1> SUFFICES ASSUME Longer # {} PROVE FALSE OBVIOUS
<1>1. PICK d \in Longer : \A e \in Longer : size[d] <= size[e]
  <2>1. size \in [Longer -> Nat]
    OBVIOUS
  <2> HIDE DEF Longer, size
  <2> QED BY <2>1, LeastExists
<1>2. CASE CutEnd(k, d) = 0
  BY <1>2, PacketsParsedRound DEF Nothing
<1>3. CASE CutEnd(k, d) # 0
  <2> DEFINE e == Behind(k, d)
  <2>1. e \in Seq(Byte) /\ Len(e) < Len(d)
    BY <1>3, BehindIsShorter
  <2>2. PacketsParsed(k, d).rest = PacketsParsed(k, e).rest
    BY <1>3, PacketsParsedRound DEF Then
  <2>3. PacketsParsed(k, e).rest \in Seq(Byte)
    BY <2>1, PacketsParsedRound DEF Results
  <2> HIDE DEF e
  <2>4. e \notin Longer
    <3>1. e \in Longer => size[d] <= size[e] /\ size[d] = Len(d) /\ size[e] = Len(e)
      BY <1>1
    <3> QED BY <2>1, <3>1
  <2> QED BY <2>1, <2>2, <2>3, <2>4
<1> QED BY <1>2, <1>3

(* Of three streams any two can be put together first, *)
LEMMA BytesRegrouped ==
  ASSUME NEW s \in Seq(Byte), NEW t \in Seq(Byte), NEW u \in Seq(Byte)
  PROVE  s \o t \in Seq(Byte) /\ s \o (t \o u) = (s \o t) \o u
<1> DEFINE x == s \o (t \o u)
           y == (s \o t) \o u
<1>1. s \o t \in Seq(Byte) /\ t \o u \in Seq(Byte)
  OBVIOUS
<1>2. x \in Seq(Byte) /\ y \in Seq(Byte)
  BY <1>1
<1>3. Len(x) = Len(s) + Len(t) + Len(u) /\ Len(y) = Len(x)
  BY <1>1
<1>4. \A i \in 1..Len(x) : x[i] = y[i]
  BY <1>1, <1>3
<1> HIDE DEF x, y
<1>5. x = y
  BY <1>2, <1>3, <1>4, SeqEqual
<1> QED BY <1>1, <1>5 DEF x, y

(* and of three runs of values.                        *)
LEMMA ValuesRegrouped ==
  ASSUME NEW s \in Seq(Seq(Byte)), NEW t \in Seq(Seq(Byte)), NEW u \in Seq(Seq(Byte))
  PROVE  s \o t \in Seq(Seq(Byte)) /\ s \o (t \o u) = (s \o t) \o u
<1> DEFINE S == Seq(Byte)
<1>0. s \in Seq(S) /\ t \in Seq(S) /\ u \in Seq(S)
  OBVIOUS
<1> HIDE DEF S
<1> DEFINE x == s \o (t \o u)
           y == (s \o t) \o u
<1>1. s \o t \in Seq(S) /\ t \o u \in Seq(S)
  BY <1>0
<1>2. x \in Seq(S) /\ y \in Seq(S)
  BY <1>0, <1>1
<1>3. Len(x) = Len(s) + Len(t) + Len(u) /\ Len(y) = Len(x)
  BY <1>0, <1>1
<1>4. \A i \in 1..Len(x) : x[i] = y[i]
  BY <1>0, <1>1, <1>3
<1> HIDE DEF x, y, S
<1>5. x = y
  BY <1>2, <1>3, <1>4, SeqEqual
<1> QED BY <1>1, <1>5 DEF x, y, S

(* Bytes parsed in two pieces, the second behind what the first has left,  *)
(* give the same values in the same order and leave the same behind as     *)
(* when they are parsed at once, wherever they are cut                     *)
(* (parser.h:46-56, xsens_impl.h:497-552, ublox_impl.h:462-512).           *)
THEOREM ParsedInPieces ==
  ASSUME NEW k \in Binary, NEW b \in Seq(Byte), NEW c \in Seq(Byte)
  PROVE  PacketsParsed(k, b \o c)
           = Then(PacketsParsed(k, b).values,
                  PacketsParsed(k, PacketsParsed(k, b).rest \o c))
<1> DEFINE Piecewise(d) ==
             PacketsParsed(k, d \o c)
               = Then(PacketsParsed(k, d).values,
                      PacketsParsed(k, PacketsParsed(k, d).rest \o c))
           Wrong == {d \in Seq(Byte) : ~Piecewise(d)}
           size == [d \in Wrong |-> Len(d)]
<1> SUFFICES ASSUME Wrong # {} PROVE FALSE OBVIOUS
<1> HIDE DEF Piecewise
<1>1. PICK d \in Wrong : \A e \in Wrong : size[d] <= size[e]
  <2>1. size \in [Wrong -> Nat]
    OBVIOUS
  <2> HIDE DEF Wrong, size
  <2> QED BY <2>1, LeastExists
<1>2. CASE CutEnd(k, d) = 0
  <2> DEFINE whole == PacketsParsed(k, d \o c)
  <2>1. PacketsParsed(k, d).rest = d /\ PacketsParsed(k, d).values = <<>>
    BY <1>2, PacketsParsedRound DEF Nothing
  <2>2. whole \in Results
    <3>1. d \o c \in Seq(Byte)
      OBVIOUS
    <3> QED BY <3>1, PacketsParsedRound
  <2> HIDE DEF whole
  <2>3. Then(<<>>, whole) = whole
    <3>1. whole.values \in Seq(Seq(Byte))
      BY <2>2 DEF Results
    <3>2. <<>> \o whole.values = whole.values
      BY <3>1, ConcatEmptySeq
    <3>3. whole = [rest |-> whole.rest, values |-> whole.values]
      BY <2>2 DEF Results
    <3> QED BY <3>2, <3>3 DEF Then
  <2>4. Piecewise(d)
    BY <2>1, <2>3 DEF Piecewise, whole
  <2> QED BY <2>4
<1>3. CASE CutEnd(k, d) # 0
  <2> DEFINE e  == Behind(k, d)
             vs == PacketValues(k, Cut(k, d))
             x  == PacketsParsed(k, e)
             y  == PacketsParsed(k, x.rest \o c)
  <2>1. e \in Seq(Byte) /\ Len(e) < Len(d) /\ vs \in Seq(Seq(Byte))
    BY <1>3, BehindIsShorter
  <2>2. Piecewise(e)
    <3>1. e \in Wrong => size[d] <= size[e] /\ size[d] = Len(d) /\ size[e] = Len(e)
      BY <1>1
    <3> HIDE DEF e
    <3> QED BY <2>1, <3>1
  <2>3. x \in Results
    BY <2>1, PacketsParsedRound
  <2>4. x.rest \o c \in Seq(Byte)
    <3>1. x.rest \in Seq(Byte)
      BY <2>3 DEF Results
    <3> HIDE DEF x
    <3> QED BY <3>1
  <2>5. y \in Results
    BY <2>4, PacketsParsedRound
  <2>6. PacketsParsed(k, d) = Then(vs, x)
    BY <1>3, PacketsParsedRound
  <2>7. PacketsParsed(k, d \o c) = Then(vs, PacketsParsed(k, e \o c))
    <3>1. d \o c \in Seq(Byte)
      OBVIOUS
    <3>2. /\ CutEnd(k, d \o c) # 0 /\ Cut(k, d \o c) = Cut(k, d)
          /\ Behind(k, d \o c) = e \o c
      BY <1>3, CutStays
    <3> QED BY <3>1, <3>2, PacketsParsedRound
  <2>8. PacketsParsed(k, e \o c) = Then(x.values, y)
    BY <2>2 DEF Piecewise
  <2> HIDE DEF e, vs, x, y
  <2>9. /\ vs \o x.values \in Seq(Seq(Byte)) /\ y.values \in Seq(Seq(Byte))
        /\ vs \o (x.values \o y.values) = (vs \o x.values) \o y.values
    <3>1. x.values \in Seq(Seq(Byte)) /\ y.values \in Seq(Seq(Byte))
      BY <2>3, <2>5 DEF Results
    <3>2. vs \in Seq(Seq(Byte))
      BY <2>1
    <3> DEFINE u == x.values
               w == y.values
    <3>3. u \in Seq(Seq(Byte)) /\ w \in Seq(Seq(Byte))
      BY <3>1
    <3> HIDE DEF u, w
    <3>4. vs \o u \in Seq(Seq(Byte)) /\ vs \o (u \o w) = (vs \o u) \o w
      BY <3>2, <3>3, ValuesRegrouped
    <3> QED BY <3>3, <3>4 DEF u, w
  <2>10. PacketsParsed(k, d \o c) = Then(vs \o x.values, y)
    <3>1. Then(vs, Then(x.values, y))
            = [rest |-> y.rest, values |-> vs \o (x.values \o y.values)]
      BY DEF Then
    <3>2. Then(vs \o x.values, y)
            = [rest |-> y.rest, values |-> (vs \o x.values) \o y.values]
      BY DEF Then
    <3> QED BY <2>7, <2>8, <2>9, <3>1, <3>2
  <2>11. PacketsParsed(k, d).values = vs \o x.values /\ PacketsParsed(k, d).rest = x.rest
    BY <2>6 DEF Then
  <2>12. Piecewise(d)
    BY <2>10, <2>11 DEF Piecewise, y
  <2> QED BY <2>12
<1> QED BY <1>2, <1>3

-----------------------------------------------------------------------------
(* The text parser: what a round finds.                                    *)

(* A set of natural numbers with a bound has a greatest one.               *)
LEMMA MaxExists ==
  ASSUME NEW S \in SUBSET Nat, S # {}, NEW m \in Nat, \A i \in S : i <= m
  PROVE  Max(S) \in S /\ \A i \in S : i <= Max(S)
<1> DEFINE T == {m - i : i \in S}
<1>1. T \in SUBSET Nat /\ T # {}
  <2>1. \A i \in S : m - i \in Nat
    OBVIOUS
  <2> QED BY <2>1
<1> HIDE DEF T
<1>2. Min(T) \in T /\ \A j \in T : Min(T) <= j
  BY <1>1, MinExists
<1>3. PICK n \in S : Min(T) = m - n
  BY <1>2 DEF T
<1>4. ASSUME NEW i \in S PROVE i <= n
  <2>1. m - i \in T
    BY DEF T
  <2>2. m - n <= m - i
    BY <1>2, <1>3, <2>1
  <2> QED BY <2>2
<1> QED BY <1>4 DEF Max

(* A filter that matches does so with a text of its own, which is not      *)
(* empty and lies within the buffer.                                       *)
LEMMA FirstMatchWithin ==
  ASSUME NEW b \in Seq(Byte), NEW cur \in 1..(Len(b) + 1), NEW filter \in SUBSET Seq(Nat),
         <<>> \notin filter, Found(filter, b, cur) # {}
  PROVE  /\ FirstMatch(filter, b, cur) \in Seq(Nat)
         /\ Min(Found(filter, b, cur)) + Len(FirstMatch(filter, b, cur)) \in (cur + 1)..(Len(b) + 1)
<1> DEFINE i == Min(Found(filter, b, cur))
           Here == {text \in filter : Matches(text, b, i)}
           lengths == {Len(text) : text \in Here}
           IsLongest(text) == /\ Matches(text, b, i)
                              /\ \A other \in filter : Matches(other, b, i) => Len(other) <= Len(text)
<1>1. Found(filter, b, cur) \in SUBSET Nat
  BY DEF Found
<1>2. i \in Found(filter, b, cur)
  BY <1>1, MinExists
<1> HIDE DEF i
<1>3. i \in cur..Len(b) /\ Here # {}
  BY <1>2 DEF Found
<1>4. \A text \in Here : Len(text) \in Nat /\ Len(text) # 0 /\ i + Len(text) - 1 <= Len(b)
  BY <1>3 DEF Matches
<1>5. lengths \in SUBSET Nat /\ lengths # {} /\ \A n \in lengths : n <= Len(b)
  <2>1. \A text \in Here : Len(text) <= Len(b)
    BY <1>3, <1>4
  <2> HIDE DEF Here
  <2> QED BY <1>3, <1>4, <2>1
<1>6. Max(lengths) \in lengths /\ \A n \in lengths : n <= Max(lengths)
  <2> HIDE DEF lengths
  <2>1. Len(b) \in Nat
    OBVIOUS
  <2> QED BY <1>5, <2>1, MaxExists
<1>7. PICK text \in Here : Len(text) = Max(lengths)
  BY <1>6
<1>8. text \in filter /\ IsLongest(text)
  <2>1. \A other \in Here : Len(other) <= Len(text)
    BY <1>6, <1>7
  <2> QED BY <2>1
<1>9. FirstMatch(filter, b, cur) = CHOOSE t \in filter : IsLongest(t)
  BY DEF FirstMatch, i
<1> DEFINE found == FirstMatch(filter, b, cur)
<1> HIDE DEF found
<1>10. found \in filter /\ IsLongest(found)
  <2> HIDE DEF IsLongest
  <2> QED BY <1>8, <1>9 DEF found
<1>11. found \in Here
  BY <1>10
<1>12. found \in Seq(Nat) /\ i + Len(found) \in (cur + 1)..(Len(b) + 1)
  BY <1>3, <1>4, <1>11
<1> QED BY <1>12 DEF found, i

(* What a filter finds from a place on in a buffer of this length.         *)
Finds(length, cur) ==
  [quantity : 1..Len(Filters), text : Seq(Nat), end : (cur + 1)..(length + 1)]

(* A round finds one text for each filter at most, all of them behind its  *)
(* beginning.                                                              *)
LEMMA RoundTyped ==
  ASSUME NEW b \in Seq(Byte), NEW cur \in 1..(Len(b) + 1)
  PROVE  Round(b, cur) \in Seq(Finds(Len(b), cur))
<1> DEFINE D == 1..(Len(Filters) + 1)
           V == Seq(Finds(Len(b), cur))
           Find(f) == [quantity |-> f, text |-> FirstMatch(Filters[f], b, cur),
                       end |-> Min(Found(Filters[f], b, cur)) + Len(FirstMatch(Filters[f], b, cur))]
           Filtered(f, g) == IF f > Len(Filters) THEN <<>>
                             ELSE IF Found(Filters[f], b, cur) = {} THEN g[f + 1]
                             ELSE <<Find(f)>> \o g[f + 1]
           size == [f \in D |-> Len(Filters) + 1 - f]
           step == [x \in D \X [D -> V] |-> Filtered(x[1], x[2])]
           from == CHOOSE g : g = [f \in D |-> Filtered(f, g)]
<1>1. Len(Filters) \in Nat
  BY RegexParserAssumption
<1>2. V # {} /\ size \in [D -> Nat]
  <2>1. <<>> \in V
    OBVIOUS
  <2>2. \A f \in D : Len(Filters) + 1 - f \in Nat
    BY <1>1
  <2> HIDE DEF D, V
  <2> QED BY <2>1, <2>2
<1>3. ASSUME NEW f \in D, NEW g, \A h \in D : f < h => g[h] \in V
      PROVE  Filtered(f, g) \in V
  <2>1. CASE f > Len(Filters)
    BY <2>1
  <2>2. CASE f <= Len(Filters)
    <3>1. f \in 1..Len(Filters) /\ f + 1 \in D /\ g[f + 1] \in V
      BY <1>1, <1>3, <2>2
    <3>2. ASSUME Found(Filters[f], b, cur) # {}
          PROVE  Find(f) \in Finds(Len(b), cur)
      <4>1. Filters[f] \in SUBSET Seq(Nat) /\ <<>> \notin Filters[f]
        BY <3>1, RegexParserAssumption
      <4>2. /\ FirstMatch(Filters[f], b, cur) \in Seq(Nat)
            /\ Min(Found(Filters[f], b, cur)) + Len(FirstMatch(Filters[f], b, cur))
                 \in (cur + 1)..(Len(b) + 1)
        BY <3>2, <4>1, FirstMatchWithin
      <4> QED BY <3>1, <4>2 DEF Finds
    <3> DEFINE here == Find(f)
               rest == g[f + 1]
    <3>3. Found(Filters[f], b, cur) # {} => <<here>> \o rest \in V
      <4> SUFFICES ASSUME Found(Filters[f], b, cur) # {} PROVE <<here>> \o rest \in V
        OBVIOUS
      <4>1. here \in Finds(Len(b), cur) /\ rest \in V
        BY <3>1, <3>2
      <4> HIDE DEF here, rest
      <4>2. <<here>> \in V
        BY <4>1
      <4> QED BY <4>1, <4>2, ConcatProperties
    <3> HIDE DEF V, D
    <3>4. ~(f > Len(Filters))
      BY <1>1, <2>2, <3>1
    <3> QED BY <3>1, <3>3, <3>4
  <2> QED BY <1>1, <2>1, <2>2
<1>4. step \in [D \X [D -> V] -> V]
  <2>1. ASSUME NEW f \in D, NEW g \in [D -> V] PROVE Filtered(f, g) \in V
    <3> HIDE DEF D, V, Filtered
    <3> QED BY <1>3
  <2> HIDE DEF D, V, Filtered
  <2> QED BY <2>1
<1>5. ASSUME NEW f \in D, NEW g \in [D -> V], NEW h \in [D -> V],
             \A e \in D : size[e] < size[f] => g[e] = h[e]
      PROVE  step[<<f, g>>] = step[<<f, h>>]
  <2>1. f <= Len(Filters) => g[f + 1] = h[f + 1]
    BY <1>1, <1>5
  <2>2. Filtered(f, g) = Filtered(f, h)
    BY <1>1, <2>1
  <2> HIDE DEF D, V, Filtered
  <2> QED BY <2>2
<1>6. PICK g : Recursive(D, V, step, g)
  <2> HIDE DEF D, V, size, step
  <2> QED BY <1>2, <1>4, <1>5, RecursionExists
<1>7. g = [f \in D |-> Filtered(f, g)]
  <2> HIDE DEF D, V, Filtered
  <2> QED BY <1>6 DEF Recursive
<1>8. from = [f \in D |-> Filtered(f, from)]
  <2> HIDE DEF D, V, Filtered
  <2> QED BY <1>7, Zenon
<1>9. \A f \in D : from[f] \in V
  <2> DEFINE Untyped == {f \in D : from[f] \notin V}
             sizes == [f \in Untyped |-> size[f]]
  <2> HIDE DEF Filtered, from
  <2> SUFFICES ASSUME Untyped # {} PROVE FALSE OBVIOUS
  <2>1. PICK f \in Untyped : \A e \in Untyped : sizes[f] <= sizes[e]
    <3>1. sizes \in [Untyped -> Nat]
      BY <1>2
    <3> HIDE DEF Untyped, sizes
    <3> QED BY <3>1, LeastExists
  <2>2. ASSUME NEW e \in D, f < e
        PROVE  from[e] \in V
    <3>1. size[e] < size[f]
      BY <1>1, <2>2
    <3>2. e \in Untyped => sizes[f] <= sizes[e] /\ sizes[f] = size[f] /\ sizes[e] = size[e]
      BY <2>1
    <3>3. size[e] \in Nat /\ size[f] \in Nat
      BY <1>2
    <3> QED BY <3>1, <3>2, <3>3
  <2>3. Filtered(f, from) \in V
    BY <1>3, <2>2
  <2> QED BY <1>8, <2>3
<1>10. Round(b, cur) = from[1]
  BY DEF Round
<1>11. 1 \in D
  BY <1>1
<1> HIDE DEF from, V, D
<1> QED BY <1>9, <1>10, <1>11 DEF V

(* What the text parser may return of a buffer: it leaves no more than     *)
(* there was.                                                              *)
Texts == Seq((1..Len(Filters)) \X Seq(Nat))
TextResults(length) ==
  [rest : {s \in Seq(Byte) : Len(s) <= length}, values : Texts, threw : BOOLEAN]

(* The next round begins behind this one.                                  *)
LEMMA RoundEndBehind ==
  ASSUME NEW length \in Nat, NEW cur \in 1..(length + 1),
         NEW round \in Seq(Finds(length, cur)), round # <<>>
  PROVE  RoundEnd(round) \in (cur + 1)..(length + 1)
<1> DEFINE S == {round[k].end : k \in DOMAIN round}
<1>1. \A k \in DOMAIN round : round[k].end \in (cur + 1)..(length + 1)
  <2>1. \A k \in DOMAIN round : round[k] \in Finds(length, cur)
    OBVIOUS
  <2>2. \A x \in Finds(length, cur) : x.end \in (cur + 1)..(length + 1)
    BY DEF Finds
  <2> QED BY <2>1, <2>2
<1>2. S \in SUBSET Nat /\ S # {} /\ \A i \in S : i <= length + 1
  <2>1. 1 \in DOMAIN round
    OBVIOUS
  <2>2. S # {}
    BY <2>1
  <2> QED BY <1>1, <2>2
<1>3. \A i \in S : i \in (cur + 1)..(length + 1)
  BY <1>1
<1> HIDE DEF S
<1>4. Max(S) \in S
  <2>1. length + 1 \in Nat
    OBVIOUS
  <2> QED BY <1>2, <2>1, MaxExists
<1>5. RoundEnd(round) = Max(S)
  BY DEF RoundEnd, S
<1> QED BY <1>3, <1>4, <1>5

(* What is inserted of a round.                                            *)
LEMMA RoundValuesTyped ==
  ASSUME NEW length \in Nat, NEW cur \in 1..(length + 1),
         NEW round \in Seq(Finds(length, cur))
  PROVE  RoundValues(round) \in Texts
<1>1. \A k \in 1..Len(round) : round[k] \in Finds(length, cur)
  OBVIOUS
<1>2. \A x \in Finds(length, cur) : <<x.quantity, x.text>> \in (1..Len(Filters)) \X Seq(Nat)
  BY DEF Finds
<1>3. DOMAIN round = 1..Len(round) /\ Len(round) \in Nat
  OBVIOUS
<1>4. RoundValues(round) = [k \in 1..Len(round) |-> <<round[k].quantity, round[k].text>>]
  BY <1>3 DEF RoundValues
<1> DEFINE Pairs == (1..Len(Filters)) \X Seq(Nat)
           pair(k) == <<round[k].quantity, round[k].text>>
<1>5. \A k \in 1..Len(round) : pair(k) \in Pairs
  BY <1>1, <1>2
<1> HIDE DEF Pairs, pair
<1>6. [k \in 1..Len(round) |-> pair(k)] \in Seq(Pairs)
  BY <1>3, <1>5
<1> QED BY <1>4, <1>6 DEF Pairs, pair, Texts

(* The text parser, round by round: it ends, for each round begins behind  *)
(* the one before.                                                         *)
LEMMA RegexParsedTyped ==
  ASSUME NEW b \in Seq(Byte)
  PROVE  RegexParsed(b) \in TextResults(Len(b))
<1> DEFINE D == 1..(Len(b) + 1)
           V == TextResults(Len(b))
           Wrong(cur) == {k \in DOMAIN Round(b, cur) : Round(b, cur)[k].text \in Unconvertible}
           Parse(cur, f) ==
             IF cur > Len(b) \/ Round(b, cur) = <<>>
             THEN [rest |-> SubSeq(b, cur, Len(b)), values |-> <<>>, threw |-> FALSE]
             ELSE IF Wrong(cur) # {}
             THEN [rest |-> b, threw |-> TRUE,
                   values |-> RoundValues(SubSeq(Round(b, cur), 1, Min(Wrong(cur)) - 1))]
             ELSE [f[RoundEnd(Round(b, cur))] EXCEPT !.values = RoundValues(Round(b, cur)) \o @]
           size == [cur \in D |-> Len(b) + 1 - cur]
           step == [x \in D \X [D -> V] |-> Parse(x[1], x[2])]
           parse == CHOOSE f : f = [cur \in D |-> Parse(cur, f)]
<1>1. V # {} /\ size \in [D -> Nat]
  <2>1. [rest |-> b, values |-> <<>>, threw |-> TRUE] \in V
    BY DEF TextResults, Texts
  <2>2. \A cur \in D : Len(b) + 1 - cur \in Nat
    OBVIOUS
  <2> HIDE DEF D, V
  <2> QED BY <2>1, <2>2
<1>2. ASSUME NEW cur \in D, Round(b, cur) # <<>>
      PROVE  RoundEnd(Round(b, cur)) \in D /\ cur < RoundEnd(Round(b, cur))
  <2>1. Round(b, cur) \in Seq(Finds(Len(b), cur))
    BY RoundTyped
  <2>2. RoundEnd(Round(b, cur)) \in (cur + 1)..(Len(b) + 1)
    BY <1>2, <2>1, RoundEndBehind
  <2> QED BY <2>2
<1>3. ASSUME NEW cur \in D, NEW f, \A e \in D : cur < e => f[e] \in V
      PROVE  Parse(cur, f) \in V
  <2> DEFINE round == Round(b, cur)
  <2>1. round \in Seq(Finds(Len(b), cur))
    BY RoundTyped
  <2>2. CASE cur > Len(b) \/ round = <<>>
    <3>1. SubSeq(b, cur, Len(b)) \in Seq(Byte) /\ Len(SubSeq(b, cur, Len(b))) <= Len(b)
      OBVIOUS
    <3>2. <<>> \in Texts
      BY DEF Texts
    <3> QED BY <2>2, <3>1, <3>2 DEF TextResults
  <2>3. CASE ~(cur > Len(b) \/ round = <<>>) /\ Wrong(cur) # {}
    <3> DEFINE part == SubSeq(round, 1, Min(Wrong(cur)) - 1)
    <3>1. Wrong(cur) \in SUBSET (1..Len(round)) /\ Wrong(cur) \in SUBSET Nat
      <4> HIDE DEF round
      <4> QED BY <2>1 DEF round
    <3>2. Min(Wrong(cur)) \in 1..Len(round)
      <4> HIDE DEF Wrong
      <4> QED BY <2>3, <3>1, MinExists
    <3>3. part \in Seq(Finds(Len(b), cur))
      <4> HIDE DEF round, Wrong
      <4> QED BY <2>1, <3>2
    <3>4. RoundValues(part) \in Texts
      <4> HIDE DEF part
      <4> QED BY <3>3, RoundValuesTyped
    <3> DEFINE vs == RoundValues(part)
    <3>5. Parse(cur, f) = [rest |-> b, threw |-> TRUE, values |-> vs]
      BY <2>3
    <3> HIDE DEF vs, Parse
    <3> QED BY <3>4, <3>5 DEF TextResults, vs
  <2>4. CASE ~(cur > Len(b) \/ round = <<>>) /\ Wrong(cur) = {}
    <3> DEFINE next == f[RoundEnd(round)]
               vs == RoundValues(round)
    <3>1. next \in V
      BY <1>2, <1>3, <2>4
    <3>2. vs \in Texts
      <4> HIDE DEF round
      <4> QED BY <2>1, RoundValuesTyped
    <3>3. Parse(cur, f) = [next EXCEPT !.values = vs \o @]
      BY <2>4
    <3> HIDE DEF next, vs, Parse
    <3>4. next.values \in Texts
      BY <3>1 DEF TextResults
    <3>5. vs \o next.values \in Texts
      BY <3>2, <3>4, ConcatProperties DEF Texts
    <3> DEFINE all == vs \o next.values
    <3>6. Parse(cur, f) = [next EXCEPT !.values = all]
      BY <3>3
    <3> HIDE DEF all
    <3> QED BY <3>1, <3>5, <3>6 DEF TextResults, all
  <2> QED BY <2>2, <2>3, <2>4
<1>4. step \in [D \X [D -> V] -> V]
  <2>1. ASSUME NEW cur \in D, NEW f \in [D -> V] PROVE Parse(cur, f) \in V
    <3> HIDE DEF D, V, Parse
    <3> QED BY <1>3
  <2> HIDE DEF D, V, Parse
  <2> QED BY <2>1
<1>5. ASSUME NEW cur \in D, NEW f \in [D -> V], NEW g \in [D -> V],
             \A e \in D : size[e] < size[cur] => f[e] = g[e]
      PROVE  step[<<cur, f>>] = step[<<cur, g>>]
  <2> DEFINE end == RoundEnd(Round(b, cur))
  <2>1. Round(b, cur) # <<>> => f[end] = g[end]
    <3> SUFFICES ASSUME Round(b, cur) # <<>> PROVE f[end] = g[end] OBVIOUS
    <3>1. end \in D /\ cur < end
      BY <1>2
    <3>2. size[end] < size[cur]
      BY <3>1
    <3> HIDE DEF end
    <3> QED BY <1>5, <3>1, <3>2
  <2>2. Parse(cur, f) = Parse(cur, g)
    BY <2>1
  <2> HIDE DEF D, V, Parse
  <2> QED BY <2>2
<1>6. PICK f : Recursive(D, V, step, f)
  <2> HIDE DEF D, V, size, step
  <2> QED BY <1>1, <1>4, <1>5, RecursionExists
<1>7. f = [cur \in D |-> Parse(cur, f)]
  <2> HIDE DEF D, V, Parse
  <2> QED BY <1>6 DEF Recursive
<1>8. parse = [cur \in D |-> Parse(cur, parse)]
  <2> HIDE DEF D, V, Parse
  <2> QED BY <1>7, Zenon
<1>9. \A cur \in D : parse[cur] \in V
  <2> DEFINE Untyped == {cur \in D : parse[cur] \notin V}
             sizes == [cur \in Untyped |-> size[cur]]
  <2> HIDE DEF Parse, parse
  <2> SUFFICES ASSUME Untyped # {} PROVE FALSE OBVIOUS
  <2>1. PICK cur \in Untyped : \A e \in Untyped : sizes[cur] <= sizes[e]
    <3>1. sizes \in [Untyped -> Nat]
      BY <1>1
    <3> HIDE DEF Untyped, sizes
    <3> QED BY <3>1, LeastExists
  <2>2. ASSUME NEW e \in D, cur < e
        PROVE  parse[e] \in V
    <3>1. size[e] < size[cur]
      BY <2>2
    <3>2. e \in Untyped => sizes[cur] <= sizes[e] /\ sizes[cur] = size[cur] /\ sizes[e] = size[e]
      BY <2>1
    <3>3. size[e] \in Nat /\ size[cur] \in Nat
      BY <1>1
    <3> QED BY <3>1, <3>2, <3>3
  <2>3. Parse(cur, parse) \in V
    BY <1>3, <2>2
  <2> QED BY <1>8, <2>3
<1>10. RegexParsed(b) = parse[1]
  BY DEF RegexParsed
<1>11. 1 \in D
  OBVIOUS
<1> HIDE DEF parse, V, D
<1> QED BY <1>9, <1>10, <1>11 DEF V

-----------------------------------------------------------------------------
(* The reads.                                                              *)

(* What is inserted from a parser of this kind.                            *)
ValuesOf(k) == IF k = "regex" THEN Texts ELSE Seq(Seq(Byte))

(* What each variable may be.                                              *)
Typed ==
  /\ kind \in Kinds
  /\ wire \in Seq(Byte) /\ buffer \in Seq(Byte) /\ received \in Seq(Byte)
  /\ values \in ValuesOf(kind)
  /\ queue # {} => threw
  /\ sent \in 0..MaxFragments /\ good \in 0..RecoveryPackets[kind]
  /\ recovered \in BOOLEAN /\ threw \in BOOLEAN
  /\ recovered => good > 0

(* A binary parser does not throw, so that the bytes it has read since the *)
(* buffer was cleared are known, and with them what it made of them.       *)
IInv ==
  /\ Typed
  /\ threw => kind = "regex"
  /\ BufferBounded
  /\ ChunksDoNotMatter

(* What the parser of the device returns.                                  *)
LEMMA ParsedTyped ==
  ASSUME kind \in Kinds, NEW b \in Seq(Byte)
  PROVE  /\ Parsed(b).rest \in Seq(Byte) /\ Len(Parsed(b).rest) <= Len(b)
         /\ Parsed(b).values \in ValuesOf(kind)
         /\ Parsed(b).threw \in BOOLEAN
         /\ kind # "regex" =>
              /\ Parsed(b).threw = FALSE
              /\ [rest |-> Parsed(b).rest, values |-> Parsed(b).values] = PacketsParsed(kind, b)
<1>1. CASE kind = "regex"
  <2>1. Parsed(b) = RegexParsed(b)
    BY <1>1 DEF Parsed
  <2>2. Parsed(b) \in TextResults(Len(b))
    BY <2>1, RegexParsedTyped
  <2>3. \A x \in TextResults(Len(b)) : /\ x.rest \in Seq(Byte) /\ Len(x.rest) <= Len(b)
                                       /\ x.values \in Texts /\ x.threw \in BOOLEAN
    BY DEF TextResults
  <2> QED BY <1>1, <2>2, <2>3 DEF ValuesOf
<1>2. CASE kind # "regex"
  <2> DEFINE p == PacketsParsed(kind, b)
  <2>1. kind \in Binary
    BY <1>2, PacketsAssumption DEF Binary
  <2>2. p \in Results /\ Len(p.rest) <= Len(b)
    BY <2>1, PacketsParsedRound, RestIsNotLonger
  <2>3. Parsed(b) = [rest |-> p.rest, values |-> p.values, threw |-> FALSE]
    BY <1>2 DEF Parsed
  <2> HIDE DEF p
  <2>4. /\ p.rest \in Seq(Byte) /\ p.values \in Seq(Seq(Byte))
        /\ [rest |-> p.rest, values |-> p.values] = p
    BY <2>2 DEF Results
  <2> QED BY <1>2, <2>2, <2>3, <2>4 DEF ValuesOf, p
<1> QED BY <1>1, <1>2

(* Nothing has been sent.                                                  *)
LEMMA InitIInv == Init => IInv
<1> SUFFICES ASSUME Init PROVE IInv OBVIOUS
<1>1. <<>> \in Seq(Byte) /\ <<>> \in Seq(Seq(Byte)) /\ <<>> \in Texts /\ Len(<<>>) = 0
  BY DEF Texts
<1>2. 0 \in 0..MaxFragments /\ 0 \in 0..RecoveryPackets[kind] /\ 0 <= BufferLimit + MaxChunk
  BY PacketsAssumption DEF Init
<1>3. ChunksDoNotMatter
  <2> SUFFICES ASSUME kind # "regex"
               PROVE  [rest |-> buffer, values |-> values] = PacketsParsed(kind, received)
    BY DEF ChunksDoNotMatter
  <2>1. kind \in Binary
    BY PacketsAssumption DEF Init, Binary
  <2>2. Preambles(kind, <<>>) = {}
    BY <1>1 DEF Preambles
  <2>3. PacketsParsed(kind, <<>>) = Nothing(<<>>)
    BY <1>1, <2>1, <2>2, PacketsParsedRound DEF CutEnd
  <2> QED BY <2>3 DEF Init, Nothing
<1> QED BY <1>1, <1>2, <1>3 DEF Init, IInv, Typed, ValuesOf, BufferBounded

(* A device puts whole bytes on the wire and the parser does not see them  *)
(* yet.                                                                    *)
LEMMA SentIInv == ASSUME IInv, SendFragment \/ SendGood PROVE IInv'
<1> USE DEF IInv, Typed
<1>1. PICK fragment \in Fragments[kind] \cup GoodPackets[kind] : Sent(fragment)
  BY DEF SendFragment, SendGood
<1>2. fragment[1] \in Seq(Byte)
  BY PacketsAssumption
<1>3. /\ wire' \in Seq(Byte)
      /\ UNCHANGED <<kind, buffer, queue, values, received, recovered, threw>>
  BY <1>1, <1>2, ConcatProperties DEF Sent
<1>4. sent' \in 0..MaxFragments /\ good' \in 0..RecoveryPackets[kind] /\ good' >= good
  <2>1. MaxFragments \in Nat /\ RecoveryPackets[kind] \in Nat
    BY PacketsAssumption
  <2> QED BY <2>1 DEF SendFragment, SendGood
<1>5. BufferBounded' /\ ChunksDoNotMatter'
  BY <1>3 DEF BufferBounded, ChunksDoNotMatter
<1> QED BY <1>3, <1>4, <1>5 DEF ValuesOf

(* A read takes part of what is on the wire, a chunk at most.              *)
LEMMA ReadWithin ==
  ASSUME Typed, NEW n \in 1..Min({MaxChunk, Len(wire)})
  PROVE  /\ SubSeq(wire, 1, n) \in Seq(Byte) /\ Len(SubSeq(wire, 1, n)) <= MaxChunk
         /\ SubSeq(wire, n + 1, Len(wire)) \in Seq(Byte)
<1>1. MaxChunk \in Nat /\ wire \in Seq(Byte) /\ Len(wire) \in Nat
  BY PacketsAssumption DEF Typed
<1> DEFINE S == {MaxChunk, Len(wire)}
<1>2. S \in SUBSET Nat /\ S # {}
  BY <1>1
<1>3. Min(S) <= MaxChunk /\ Min(S) <= Len(wire) /\ Min(S) \in Nat
  <2>1. Min(S) \in S /\ \A i \in S : Min(S) <= i
    <3> HIDE DEF S
    <3> QED BY <1>2, MinExists
  <2> QED BY <1>1, <2>1
<1>4. n \in 1..Len(wire) /\ n <= MaxChunk
  BY <1>1, <1>3
<1> QED BY <1>1, <1>4

(* What a read makes of the buffer, given the chunk.                       *)
LEMMA ExtendedTyped ==
  ASSUME IInv, NEW chunk \in Seq(Byte), Len(chunk) <= MaxChunk
  PROVE  /\ Extended(chunk) \in Seq(Byte)
         /\ Len(Extended(chunk)) <= BufferLimit + MaxChunk
<1>1. BufferLimit \in Nat /\ MaxChunk \in Nat /\ buffer \in Seq(Byte)
  BY PacketsAssumption DEF IInv, Typed
<1> DEFINE old == IF Cleared THEN <<>> ELSE buffer
<1>2. old \in Seq(Byte) /\ Len(old) <= BufferLimit
  BY <1>1 DEF Cleared
<1>3. Extended(chunk) = old \o chunk
  BY DEF Extended
<1> HIDE DEF old
<1> QED BY <1>1, <1>2, <1>3, ConcatProperties

(* Parsing what is left together with the next chunk is parsing everything *)
(* that has been read.                                                     *)
LEMMA ReceivedParsed ==
  ASSUME IInv, kind # "regex", NEW chunk \in Seq(Byte),
         received' = (IF Cleared THEN <<>> ELSE received) \o chunk,
         buffer' = Parsed(Extended(chunk)).rest,
         values' = (IF Cleared THEN <<>> ELSE values) \o Parsed(Extended(chunk)).values
  PROVE  [rest |-> buffer', values |-> values'] = PacketsParsed(kind, received')
<1> DEFINE p == PacketsParsed(kind, Extended(chunk))
<1>1. /\ kind \in Binary /\ values \in Seq(Seq(Byte))
      /\ buffer \in Seq(Byte) /\ received \in Seq(Byte)
  BY PacketsAssumption DEF IInv, Typed, Binary, ValuesOf
<1>2. Extended(chunk) \in Seq(Byte)
  BY <1>1, ConcatProperties DEF Extended
<1>3. p = [rest |-> Parsed(Extended(chunk)).rest, values |-> Parsed(Extended(chunk)).values]
  BY <1>2, ParsedTyped DEF IInv, Typed
<1>4. p \in Results
  BY <1>1, <1>2, PacketsParsedRound
<1> HIDE DEF p
<1>5. buffer' = p.rest /\ p.values = Parsed(Extended(chunk)).values /\ p.values \in Seq(Seq(Byte))
  BY <1>3, <1>4 DEF Results
<1>6. CASE Cleared
  <2>1. received' = chunk /\ Extended(chunk) = chunk /\ values' = p.values
    BY <1>5, <1>6, ConcatEmptySeq DEF Extended
  <2> QED BY <1>4, <1>5, <2>1 DEF Results, p
<1>7. CASE ~Cleared
  <2>1. received' = received \o chunk /\ Extended(chunk) = buffer \o chunk
    BY <1>7 DEF Extended
  <2>2. PacketsParsed(kind, received).rest = buffer /\ PacketsParsed(kind, received).values = values
    <3>1. [rest |-> buffer, values |-> values] = PacketsParsed(kind, received)
      BY DEF IInv, ChunksDoNotMatter
    <3>2. [rest |-> buffer, values |-> values].rest = buffer
          /\ [rest |-> buffer, values |-> values].values = values
      OBVIOUS
    <3> QED BY <3>1, <3>2
  <2>3. PacketsParsed(kind, received') = Then(values, p)
    BY <1>1, <2>1, <2>2, ParsedInPieces DEF p
  <2>4. values' = values \o p.values
    BY <1>5, <1>7
  <2> QED BY <1>5, <2>3, <2>4 DEF Then
<1> QED BY <1>6, <1>7

(* A read.                                                                 *)
LEMMA ReceiveIInv == ASSUME IInv, Receive PROVE IInv'
<1>1. PICK n \in 1..Min({MaxChunk, Len(wire)}) :
        LET chunk  == SubSeq(wire, 1, n)
            parsed == Parsed(Extended(chunk))
        IN  /\ buffer' = parsed.rest
            /\ threw' = (threw \/ parsed.threw)
            /\ received' = Since(received, chunk)
            /\ values' = Since(values, parsed.values)
            /\ queue' = Untaken(parsed)
            /\ wire' = IF parsed.threw THEN <<>> ELSE SubSeq(wire, n + 1, Len(wire))
            /\ recovered' = (recovered \/ (good > 0 /\ ~parsed.threw
                                             /\ parsed.values # <<>>))
            /\ UNCHANGED <<kind, sent, good, owed>>
  BY DEF Receive
<1> DEFINE chunk  == SubSeq(wire, 1, n)
           left   == SubSeq(wire, n + 1, Len(wire))
           parsed == Parsed(Extended(chunk))
<1>2. chunk \in Seq(Byte) /\ Len(chunk) <= MaxChunk /\ left \in Seq(Byte)
  BY ReadWithin DEF IInv
<1>3. /\ buffer' = parsed.rest
      /\ threw' = (threw \/ parsed.threw)
      /\ received' = Since(received, chunk)
      /\ values' = Since(values, parsed.values)
      /\ queue' = Untaken(parsed)
      /\ wire' = IF parsed.threw THEN <<>> ELSE left
      /\ recovered' = (recovered \/ (good > 0 /\ ~parsed.threw /\ parsed.values # <<>>))
      /\ UNCHANGED <<kind, sent, good, owed>>
  BY <1>1
<1> HIDE DEF chunk, left
<1>4. /\ Extended(chunk) \in Seq(Byte) /\ Len(Extended(chunk)) <= BufferLimit + MaxChunk
  BY <1>2, ExtendedTyped
<1>5. /\ parsed.rest \in Seq(Byte) /\ Len(parsed.rest) <= Len(Extended(chunk))
      /\ parsed.values \in ValuesOf(kind) /\ parsed.threw \in BOOLEAN
      /\ kind # "regex" => parsed.threw = FALSE
  BY <1>4, ParsedTyped DEF IInv, Typed
<1>6. BufferBounded'
  <2>1. BufferLimit + MaxChunk \in Nat
    BY PacketsAssumption
  <2>2. Len(Extended(chunk)) \in Nat /\ Len(parsed.rest) \in Nat
    BY <1>4, <1>5
  <2> HIDE DEF parsed
  <2> QED BY <1>3, <1>4, <1>5, <2>1, <2>2 DEF BufferBounded
<1>7. /\ (IF Cleared THEN <<>> ELSE received) \o chunk \in Seq(Byte)
      /\ (IF Cleared THEN <<>> ELSE values) \o parsed.values \in ValuesOf(kind)
      /\ <<>> \in Seq(Byte) /\ <<>> \in ValuesOf(kind)
  <2> HIDE DEF parsed
  <2>1. (IF Cleared THEN <<>> ELSE received) \in Seq(Byte)
    BY DEF IInv, Typed
  <2>2. PICK S : ValuesOf(kind) = Seq(S)
    BY DEF ValuesOf, Texts
  <2>3. (IF Cleared THEN <<>> ELSE values) \in Seq(S)
    BY <2>2 DEF IInv, Typed
  <2> QED BY <1>2, <1>5, <2>1, <2>2, <2>3, ConcatProperties
<1>8. Typed'
  <2> HIDE DEF parsed
  <2>1. received' \in Seq(Byte) /\ values' \in ValuesOf(kind)
    BY <1>3, <1>7 DEF Since
  <2>2. buffer' \in Seq(Byte) /\ wire' \in Seq(Byte)
    BY <1>2, <1>3, <1>5, <1>7
  <2>3. /\ threw' \in BOOLEAN /\ recovered' \in BOOLEAN
        /\ recovered' => good' > 0
        /\ queue' # {} => threw'
    BY <1>3, <1>5 DEF IInv, Typed, Untaken
  <2> QED BY <1>3, <2>1, <2>2, <2>3 DEF IInv, Typed, ValuesOf
<1>9. threw' => kind' = "regex"
  <2> HIDE DEF parsed
  <2> QED BY <1>3, <1>5 DEF IInv
<1>10. ChunksDoNotMatter'
  <2> SUFFICES ASSUME kind # "regex"
               PROVE  [rest |-> buffer', values |-> values'] = PacketsParsed(kind, received')
    BY <1>3 DEF ChunksDoNotMatter
  <2>1. ~threw'
    BY <1>3, <1>9
  <2>2. /\ received' = (IF Cleared THEN <<>> ELSE received) \o chunk
        /\ values' = (IF Cleared THEN <<>> ELSE values) \o parsed.values
    BY <1>3, <2>1 DEF Since
  <2> QED BY <1>2, <1>3, <2>2, ReceivedParsed
<1> QED BY <1>6, <1>8, <1>9, <1>10 DEF IInv

(* Every step keeps the inductive invariant.                               *)
LEMMA NextIInv == IInv /\ [Next]_vars => IInv'
<1> SUFFICES ASSUME IInv, [Next]_vars PROVE IInv' OBVIOUS
<1>1. CASE UNCHANGED vars
  BY <1>1 DEF vars, IInv, Typed, ValuesOf, BufferBounded, ChunksDoNotMatter
<1>2. CASE Next
  BY <1>2, SentIInv, ReceiveIInv DEF Next
<1> QED BY <1>1, <1>2

(* So it holds in every reachable state.                                   *)
LEMMA Inductive == Spec => []IInv
  BY InitIInv, NextIInv, PTL DEF Spec

(* The state of the parser and of the line is what it is declared to be;   *)
(* only a conversion that throws leaves values in the queue                *)
(* (parser.h:32-64, regex.h:61-123).                                       *)
THEOREM TypeCorrect == Spec => []TypeOK
<1>1. IInv => TypeOK
  <2> SUFFICES ASSUME IInv PROVE TypeOK OBVIOUS
  <2>1. Len(values) \in Nat
    BY DEF IInv, Typed, ValuesOf, Texts
  <2> QED BY <2>1 DEF IInv, Typed, TypeOK
<1> QED BY <1>1, Inductive, PTL

(* However the reads cut what a device sends, noise and all, the values    *)
(* inserted and the bytes kept are those of a parser that has read it at   *)
(* once (parser.h:46-56).                                                  *)
THEOREM ReadsDoNotMatter == Spec => []ChunksDoNotMatter
<1>1. IInv => ChunksDoNotMatter
  BY DEF IInv
<1> QED BY <1>1, Inductive, PTL

(* Whatever a device sends, the buffer of its parser never holds more than *)
(* the limit and one read (parser.h:50-52).                                *)
THEOREM BufferNeverGrows == Spec => []BufferBounded
<1>1. IInv => BufferBounded
  BY DEF IInv
<1> QED BY <1>1, Inductive, PTL

-----------------------------------------------------------------------------
(* Whole packets.                                                          *)

(* However much of the bytes has been read, what is kept of it does not    *)
(* make the buffer too full.                                               *)
Fits(k, all) ==
  \A n \in 0..Len(all) : Len(PacketsParsed(k, SubSeq(all, 1, n)).rest) <= BufferLimit

(* As long as only whole packets were sent, all bytes since the beginning  *)
(* make up the values that are owed.                                       *)
OnItsWay ==
  kind # "regex" /\ owed # NoPacket =>
    /\ PacketsParsed(kind, received \o wire) = [rest |-> <<>>, values |-> owed]
    /\ Fits(kind, received \o wire)

(* A whole packet alone gives its values and leaves nothing.               *)
LEMMA WholePacketParsed ==
  ASSUME NEW k \in Kinds, k # "regex", NEW fragment \in Fragments[k] \cup GoodPackets[k],
         fragment[2] # NoPacket
  PROVE  /\ fragment[1] \in Seq(Byte) /\ Len(fragment[1]) <= BufferLimit + 1
         /\ PacketsParsed(k, fragment[1]) = [rest |-> <<>>, values |-> fragment[2]]
<1> DEFINE w == fragment[1]
<1>1. k \in Binary /\ w \in Seq(Byte)
  BY PacketsAssumption DEF Binary
<1>2. /\ 1 \in Preambles(k, w) /\ PacketEnd(k, w, 1) = Len(w)
      /\ PacketValues(k, w) = fragment[2] /\ Len(w) <= BufferLimit + 1
  BY WholePacketsAssumption
<1> HIDE DEF w
<1>3. Min(Preambles(k, w)) = 1
  <2>1. Preambles(k, w) \in SUBSET Nat /\ \A p \in Preambles(k, w) : p >= 1
    BY DEF Preambles
  <2>2. Min(Preambles(k, w)) \in Preambles(k, w) /\ Min(Preambles(k, w)) <= 1
    BY <1>2, <2>1, MinExists
  <2>3. Min(Preambles(k, w)) \in Nat /\ Min(Preambles(k, w)) >= 1
    BY <2>1, <2>2
  <2> QED BY <2>2, <2>3
<1>4. Len(w) # 0
  BY <1>1, <1>2 DEF Preambles
<1>5. CutEnd(k, w) = Len(w)
  BY <1>2, <1>3 DEF CutEnd
<1>6. Cut(k, w) = w /\ Behind(k, w) = <<>>
  <2>1. SubSeq(w, 1, Len(w)) = w /\ SubSeq(w, Len(w) + 1, Len(w)) = <<>>
    BY <1>1, SubSeqFull
  <2> QED BY <1>3, <1>5, <2>1 DEF Cut, Behind
<1>7. PacketsParsed(k, <<>>) = Nothing(<<>>)
  <2>1. <<>> \in Seq(Byte) /\ Preambles(k, <<>>) = {}
    BY DEF Preambles
  <2> QED BY <1>1, <2>1, PacketsParsedRound DEF CutEnd
<1>8. PacketsParsed(k, w) = Then(fragment[2], Nothing(<<>>))
  BY <1>1, <1>2, <1>4, <1>5, <1>6, <1>7, PacketsParsedRound
<1>9. fragment[2] \o <<>> = fragment[2]
  <2>1. fragment[2] \in Seq(Seq(Byte))
    BY <1>1, <1>2, PacketValuesTyped
  <2> QED BY <2>1, ConcatEmptySeq
<1> QED BY <1>1, <1>2, <1>8, <1>9 DEF Then, Nothing, w

(* It may follow others.                                                   *)
LEMMA WholePacketFollows ==
  ASSUME NEW k \in Binary, NEW all \in Seq(Byte), NEW w \in Seq(Byte), NEW vs, NEW v,
         PacketsParsed(k, all) = [rest |-> <<>>, values |-> vs], Fits(k, all),
         PacketsParsed(k, w) = [rest |-> <<>>, values |-> v], Len(w) <= BufferLimit + 1
  PROVE  /\ PacketsParsed(k, all \o w) = [rest |-> <<>>, values |-> vs \o v]
         /\ Fits(k, all \o w)
<1>1. BufferLimit \in Nat
  BY PacketsAssumption
<1>2. PacketsParsed(k, all).rest = <<>> /\ PacketsParsed(k, all).values = vs
  OBVIOUS
<1>3. ASSUME NEW c \in Seq(Byte)
      PROVE  PacketsParsed(k, all \o c) = Then(vs, PacketsParsed(k, c))
  <2>1. <<>> \o c = c
    BY ConcatEmptySeq
  <2>2. PacketsParsed(k, all \o c)
          = Then(PacketsParsed(k, all).values, PacketsParsed(k, PacketsParsed(k, all).rest \o c))
    BY ParsedInPieces
  <2> QED BY <1>2, <2>1, <2>2, Zenon
<1>4. PacketsParsed(k, all \o w) = [rest |-> <<>>, values |-> vs \o v]
  <2>1. PacketsParsed(k, all \o w) = Then(vs, [rest |-> <<>>, values |-> v])
    BY <1>3, Zenon
  <2> QED BY <2>1 DEF Then
<1>5. ASSUME NEW n \in 0..Len(all \o w)
      PROVE  Len(PacketsParsed(k, SubSeq(all \o w, 1, n)).rest) <= BufferLimit
  <2>1. Len(all) \in Nat /\ Len(w) \in Nat /\ Len(all \o w) = Len(all) + Len(w)
    OBVIOUS
  <2>2. CASE n <= Len(all)
    <3>1. n \in 0..Len(all)
      BY <2>1, <2>2
    <3>2. SubSeq(all \o w, 1, n) = SubSeq(all, 1, n)
      BY <2>1, <3>1
    <3> QED BY <3>1, <3>2 DEF Fits
  <2>3. CASE n > Len(all)
    <3> DEFINE m == n - Len(all)
               part == SubSeq(w, 1, m)
    <3>1. m \in 1..Len(w)
      BY <2>1, <2>3
    <3>2. part \in Seq(Byte) /\ Len(part) = m
      BY <3>1
    <3>3. SubSeq(all \o w, 1, n) = all \o part
      <4> DEFINE x == SubSeq(all \o w, 1, n)
                 y == all \o part
      <4>1. x \in Seq(Byte) /\ Len(x) = n
        BY <2>1
      <4>2. \A i \in 1..n : x[i] = (all \o w)[i]
        BY <2>1
      <4>3. y \in Seq(Byte) /\ Len(y) = n
        <5> HIDE DEF part
        <5> QED BY <2>1, <3>2, ConcatProperties
      <4>4. ASSUME NEW i \in 1..n
            PROVE  y[i] = (all \o w)[i]
        <5>1. CASE i <= Len(all)
          <6>1. y[i] = all[i] /\ (all \o w)[i] = all[i]
            <7> HIDE DEF part
            <7> QED BY <2>1, <3>2, <5>1
          <6> QED BY <6>1
        <5>2. CASE i > Len(all)
          <6>1. i - Len(all) \in 1..m /\ i - Len(all) \in 1..Len(w)
            BY <2>1, <3>1, <5>2
          <6>2. y[i] = part[i - Len(all)]
            <7> HIDE DEF part
            <7> QED BY <2>1, <3>2, <5>2, <6>1
          <6>3. part[i - Len(all)] = w[i - Len(all)]
            BY <3>1, <6>1
          <6>4. (all \o w)[i] = w[i - Len(all)]
            BY <2>1, <5>2, <6>1
          <6> QED BY <6>2, <6>3, <6>4
        <5> QED BY <2>1, <5>1, <5>2
      <4> HIDE DEF x, y
      <4>5. x = y
        BY <4>1, <4>2, <4>3, <4>4, SeqEqual
      <4> QED BY <4>5 DEF x, y
    <3>4. PacketsParsed(k, all \o part).rest = PacketsParsed(k, part).rest
      <4> HIDE DEF part
      <4> QED BY <1>3, <3>2 DEF Then
    <3>5. CASE m <= BufferLimit
      <4>1. Len(PacketsParsed(k, part).rest) <= m /\ PacketsParsed(k, part).rest \in Seq(Byte)
        <5> HIDE DEF part
        <5> QED BY <3>2, RestIsNotLonger, PacketsParsedRound DEF Results
      <4>2. Len(PacketsParsed(k, SubSeq(all \o w, 1, n)).rest) = Len(PacketsParsed(k, part).rest)
        <5> HIDE DEF part
        <5> QED BY <3>3, <3>4, Zenon
      <4> DEFINE l == Len(PacketsParsed(k, part).rest)
      <4>3. l \in Nat /\ l <= m
        <5> HIDE DEF part
        <5> QED BY <4>1
      <4> HIDE DEF l
      <4>4. l <= BufferLimit
        BY <1>1, <3>1, <3>5, <4>3
      <4> QED BY <4>2, <4>4 DEF l
    <3>6. CASE m > BufferLimit
      <4>1. m = Len(w)
        BY <1>1, <2>1, <3>1, <3>6
      <4>2. part = w
        BY <4>1, SubSeqFull
      <4> HIDE DEF part
      <4>3. PacketsParsed(k, part).rest = <<>>
        BY <4>2
      <4>4. PacketsParsed(k, SubSeq(all \o w, 1, n)).rest = <<>>
        BY <3>3, <3>4, <4>3, Zenon
      <4> QED BY <1>1, <4>4
    <3> QED BY <1>1, <3>1, <3>5, <3>6
  <2> QED BY <2>1, <2>2, <2>3
<1> QED BY <1>4, <1>5 DEF Fits

(* Only whole packets have been sent so far, or nothing is owed any more.  *)
LEMMA SentOnItsWay ==
  ASSUME IInv, OnItsWay, SendFragment \/ SendGood
  PROVE  OnItsWay'
<1>1. PICK fragment \in Fragments[kind] \cup GoodPackets[kind] : Sent(fragment)
  BY DEF SendFragment, SendGood
<1>2. /\ kind \in Kinds /\ wire \in Seq(Byte) /\ received \in Seq(Byte)
      /\ fragment[1] \in Seq(Byte)
  BY PacketsAssumption DEF IInv, Typed
<1>3. /\ kind' = kind /\ received' = received /\ wire' = wire \o fragment[1]
      /\ owed' = IF owed = NoPacket \/ fragment[2] = NoPacket
                 THEN NoPacket ELSE owed \o fragment[2]
  BY <1>1 DEF Sent
<1> SUFFICES ASSUME kind # "regex", owed' # NoPacket
             PROVE  /\ PacketsParsed(kind, received \o wire') = [rest |-> <<>>, values |-> owed']
                    /\ Fits(kind, received \o wire')
  BY <1>3 DEF OnItsWay
<1>4. owed # NoPacket /\ fragment[2] # NoPacket /\ owed' = owed \o fragment[2]
  BY <1>3
<1> DEFINE all == received \o wire
<1>5. /\ PacketsParsed(kind, all) = [rest |-> <<>>, values |-> owed]
      /\ Fits(kind, all)
  BY <1>4 DEF OnItsWay
<1>6. received \o wire' = all \o fragment[1] /\ all \in Seq(Byte)
  <2> DEFINE w == fragment[1]
  <2>1. w \in Seq(Byte)
    BY <1>2
  <2> HIDE DEF w
  <2>2. received \in Seq(Byte) /\ wire \in Seq(Byte)
    BY <1>2
  <2>3. received \o wire \in Seq(Byte) /\ received \o (wire \o w) = (received \o wire) \o w
    BY <2>1, <2>2, BytesRegrouped
  <2> QED BY <1>3, <2>3 DEF w
<1>7. /\ Len(fragment[1]) <= BufferLimit + 1
      /\ PacketsParsed(kind, fragment[1]) = [rest |-> <<>>, values |-> fragment[2]]
  BY <1>2, <1>4, WholePacketParsed
<1>8. kind \in Binary
  BY <1>2, PacketsAssumption DEF Binary
<1> HIDE DEF all
<1>9. /\ PacketsParsed(kind, all \o fragment[1]) = [rest |-> <<>>, values |-> owed \o fragment[2]]
      /\ Fits(kind, all \o fragment[1])
  <2> DEFINE w == fragment[1]
             v == fragment[2]
  <2>1. /\ w \in Seq(Byte) /\ Len(w) <= BufferLimit + 1
        /\ PacketsParsed(kind, w) = [rest |-> <<>>, values |-> v]
    BY <1>2, <1>7
  <2> HIDE DEF w, v
  <2>2. /\ PacketsParsed(kind, all \o w) = [rest |-> <<>>, values |-> owed \o v]
        /\ Fits(kind, all \o w)
    BY <1>5, <1>6, <1>8, <2>1, WholePacketFollows
  <2> QED BY <2>2 DEF w, v
<1> QED BY <1>4, <1>6, <1>9

(* A read moves bytes from the wire to what has been received; the buffer  *)
(* is not cleared meanwhile.                                               *)
LEMMA ReceivedOnItsWay ==
  ASSUME IInv, IInv', OnItsWay, Receive
  PROVE  OnItsWay'
<1>1. PICK n \in 1..Min({MaxChunk, Len(wire)}) :
        LET chunk  == SubSeq(wire, 1, n)
            parsed == Parsed(Extended(chunk))
        IN  /\ threw' = (threw \/ parsed.threw)
            /\ received' = Since(received, chunk)
            /\ wire' = IF parsed.threw THEN <<>> ELSE SubSeq(wire, n + 1, Len(wire))
            /\ UNCHANGED <<kind, owed>>
  BY DEF Receive
<1> SUFFICES ASSUME kind # "regex", owed # NoPacket
             PROVE  received' \o wire' = received \o wire
  BY <1>1 DEF OnItsWay
<1> DEFINE chunk == SubSeq(wire, 1, n)
           left  == SubSeq(wire, n + 1, Len(wire))
           all   == received \o wire
<1>2. /\ kind \in Binary /\ wire \in Seq(Byte) /\ received \in Seq(Byte) /\ buffer \in Seq(Byte)
      /\ BufferLimit \in Nat
  BY PacketsAssumption DEF IInv, Typed, Binary
<1>3. ~threw' /\ ~threw /\ ~Parsed(Extended(chunk)).threw
  BY <1>1 DEF IInv
<1>4. Len(buffer) <= BufferLimit
  <2>1. Len(received) \in 0..Len(all) /\ SubSeq(all, 1, Len(received)) = received
    <3>1. Len(all) = Len(received) + Len(wire) /\ Len(received) \in Nat /\ Len(wire) \in Nat
      BY <1>2
    <3>2. \A i \in 1..Len(received) : all[i] = received[i]
      BY <1>2
    <3>3. all \in Seq(Byte)
      BY <1>2
    <3> HIDE DEF all
    <3> QED BY <1>2, <3>1, <3>2, <3>3
  <2>2. Fits(kind, all)
    BY DEF OnItsWay
  <2>3. PacketsParsed(kind, received).rest = buffer
    <3>1. [rest |-> buffer, values |-> values] = PacketsParsed(kind, received)
      BY DEF IInv, ChunksDoNotMatter
    <3> QED BY <3>1
  <2> HIDE DEF all
  <2>4. Len(PacketsParsed(kind, SubSeq(all, 1, Len(received))).rest) <= BufferLimit
    BY <2>1, <2>2 DEF Fits
  <2> QED BY <2>1, <2>3, <2>4
<1>5. ~Cleared
  BY <1>2, <1>4 DEF Cleared
<1>6. received' = received \o chunk /\ wire' = left
  BY <1>1, <1>3, <1>5 DEF Since
<1>7. chunk \in Seq(Byte) /\ left \in Seq(Byte) /\ chunk \o left = wire
  <2>1. chunk \in Seq(Byte) /\ left \in Seq(Byte)
    BY ReadWithin DEF IInv
  <2>2. n \in 0..Len(wire)
    <3> DEFINE S == {MaxChunk, Len(wire)}
    <3>1. S \in SUBSET Nat /\ S # {}
      BY <1>2, PacketsAssumption
    <3>2. Min(S) <= Len(wire) /\ Min(S) \in Nat
      <4>1. Min(S) \in S /\ \A i \in S : Min(S) <= i
        <5> HIDE DEF S
        <5> QED BY <3>1, MinExists
      <4> QED BY <3>1, <4>1
    <3> QED BY <1>2, <3>2
  <2>3. 1 \in 1..(Len(wire) + 1) /\ n \in (1 - 1)..Len(wire) /\ Len(wire) \in n..Len(wire)
    BY <1>2, <2>2
  <2>4. chunk \o left = SubSeq(wire, 1, Len(wire))
    BY <1>2, <2>3, ConcatAdjacentSubSeq
  <2>5. SubSeq(wire, 1, Len(wire)) = wire
    BY <1>2, SubSeqFull
  <2> QED BY <2>1, <2>4, <2>5
<1> HIDE DEF chunk, left, all
<1>8. received \o (chunk \o left) = (received \o chunk) \o left
  <2>1. received \in Seq(Byte) /\ chunk \in Seq(Byte) /\ left \in Seq(Byte)
    BY <1>2, <1>7
  <2> QED BY <2>1, BytesRegrouped
<1> QED BY <1>6, <1>7, <1>8

(* From the start, and with every step.                                    *)
LEMMA InductiveOnItsWay == Spec => []OnItsWay
<1>1. Init => OnItsWay
  <2> SUFFICES ASSUME Init, kind # "regex"
               PROVE  /\ PacketsParsed(kind, received \o wire) = [rest |-> <<>>, values |-> owed]
                      /\ Fits(kind, received \o wire)
    BY DEF OnItsWay
  <2>1. kind \in Binary /\ BufferLimit \in Nat
    BY PacketsAssumption DEF Init, Binary
  <2>2. <<>> \in Seq(Byte) /\ Preambles(kind, <<>>) = {} /\ <<>> \o <<>> = <<>>
    BY DEF Preambles
  <2>3. PacketsParsed(kind, <<>>) = [rest |-> <<>>, values |-> <<>>]
    BY <2>1, <2>2, PacketsParsedRound DEF CutEnd, Nothing
  <2>4. Fits(kind, <<>>)
    <3>1. ASSUME NEW n \in 0..Len(<<>>)
          PROVE  PacketsParsed(kind, SubSeq(<<>>, 1, n)).rest = <<>>
      <4>1. SubSeq(<<>>, 1, n) = <<>>
        OBVIOUS
      <4>2. PacketsParsed(kind, <<>>).rest = <<>>
        BY <2>3
      <4> QED BY <4>1, <4>2, Zenon
    <3>2. Len(<<>>) <= BufferLimit
      BY <2>1
    <3> QED BY <3>1, <3>2 DEF Fits
  <2> QED BY <2>2, <2>3, <2>4 DEF Init
<1>2. IInv /\ IInv' /\ OnItsWay /\ [Next]_vars => OnItsWay'
  <2> SUFFICES ASSUME IInv, IInv', OnItsWay, [Next]_vars PROVE OnItsWay' OBVIOUS
  <2>1. CASE UNCHANGED vars
    BY <2>1 DEF vars, OnItsWay
  <2>2. CASE Next
    BY <2>2, SentOnItsWay, ReceivedOnItsWay DEF Next
  <2> QED BY <2>1, <2>2
<1> QED BY <1>1, <1>2, Inductive, PTL DEF Spec

(* What a device says on a good line arrives: as long as it sends whole    *)
(* packets only, the values inserted are the first of those it has sent,   *)
(* none left out, none twice, and when all bytes have been read they are   *)
(* all of them (xsens_impl.h:497-552, ublox_impl.h:462-512).  For devices  *)
(* that send packets; what is taken from texts twice is left to TLC.       *)
THEOREM PacketsArrive == Spec => [](kind # "regex" => NoneLostNoneTwice)
<1>1. IInv /\ OnItsWay => (kind # "regex" => NoneLostNoneTwice)
  <2> SUFFICES ASSUME IInv, OnItsWay, kind # "regex", owed # NoPacket
               PROVE  IsPrefix(values, owed) /\ (wire = <<>> => values = owed)
    BY DEF NoneLostNoneTwice, EveryPacketArrives, EachMatchOnce
  <2>1. /\ kind \in Binary /\ wire \in Seq(Byte) /\ received \in Seq(Byte) /\ buffer \in Seq(Byte)
        /\ values \in Seq(Seq(Byte))
    BY PacketsAssumption DEF IInv, Typed, Binary, ValuesOf
  <2>2. PacketsParsed(kind, received).rest = buffer /\ PacketsParsed(kind, received).values = values
    <3>1. [rest |-> buffer, values |-> values] = PacketsParsed(kind, received)
      BY DEF IInv, ChunksDoNotMatter
    <3> QED BY <3>1
  <2>3. PacketsParsed(kind, received \o wire) = [rest |-> <<>>, values |-> owed]
    BY DEF OnItsWay
  <2> DEFINE come == PacketsParsed(kind, buffer \o wire)
  <2>4. come.values \in Seq(Seq(Byte))
    <3>1. buffer \o wire \in Seq(Byte)
      BY <2>1
    <3>2. come \in Results
      BY <2>1, <3>1, PacketsParsedRound
    <3> QED BY <3>2 DEF Results
  <2>5. owed = values \o come.values
    <3>1. PacketsParsed(kind, received \o wire) = Then(values, come)
      BY <2>1, <2>2, ParsedInPieces
    <3> QED BY <2>3, <3>1 DEF Then
  <2>6. IsPrefix(values, owed)
    <3> DEFINE more == come.values
               S == Seq(Byte)
    <3> HIDE DEF more, S, come
    <3>1. values \in Seq(S) /\ more \in Seq(S) /\ owed = values \o more
      BY <2>1, <2>4, <2>5 DEF more, S
    <3>2. Len(values) <= Len(owed) /\ SubSeq(values, 1, Len(values)) = SubSeq(owed, 1, Len(values))
      BY <3>1
    <3> QED BY <3>2 DEF IsPrefix
  <2>7. ASSUME wire = <<>> PROVE values = owed
    <3>1. received \o wire = received
      BY <2>1, <2>7, ConcatEmptySeq
    <3> QED BY <2>2, <2>3, <3>1
  <2> QED BY <2>6, <2>7
<1> QED BY <1>1, Inductive, InductiveOnItsWay, PTL

-----------------------------------------------------------------------------
(* Parts of a stream.                                                      *)

(* The bytes behind the first i, up to the j-th.                           *)
Part(s, i, j) == SubSeq(s, i + 1, j)

(* They are bytes of the stream. *)
LEMMA PartTyped ==
  ASSUME NEW s \in Seq(Byte), NEW j \in 0..Len(s), NEW i \in 0..j
  PROVE  /\ Part(s, i, j) \in Seq(Byte) /\ Len(Part(s, i, j)) = j - i
         /\ \A x \in 1..(j - i) : Part(s, i, j)[x] = s[i + x]
<1>1. Len(s) \in Nat /\ i + 1 \in 1..(Len(s) + 1)
  OBVIOUS
<1>2. SubSeq(s, i + 1, j) \in Seq(Byte)
  BY <1>1
<1>3. Len(SubSeq(s, i + 1, j)) = j - i
  BY <1>1
<1>4. \A x \in 1..(j - i) : SubSeq(s, i + 1, j)[x] = s[i + x]
  BY <1>1
<1> QED BY <1>2, <1>3, <1>4 DEF Part

(* A part of a part is one of the stream. *)
LEMMA PartOfPart ==
  ASSUME NEW s \in Seq(Byte), NEW j \in 0..Len(s), NEW i \in 0..j,
         NEW d \in 0..(j - i), NEW c \in 0..d
  PROVE  Part(Part(s, i, j), c, d) = Part(s, i + c, i + d)
<1> DEFINE t == Part(s, i, j)
           x == Part(t, c, d)
           y == Part(s, i + c, i + d)
<1>1. t \in Seq(Byte) /\ Len(t) = j - i /\ \A n \in 1..(j - i) : t[n] = s[i + n]
  BY PartTyped
<1> HIDE DEF t
<1>2. x \in Seq(Byte) /\ Len(x) = d - c /\ \A n \in 1..(d - c) : x[n] = t[c + n]
  <2>1. d \in 0..Len(t)
    BY <1>1
  <2> QED BY <1>1, <2>1, PartTyped
<1>3. i + d \in 0..Len(s) /\ i + c \in 0..(i + d) /\ (i + d) - (i + c) = d - c
  OBVIOUS
<1>4. y \in Seq(Byte) /\ Len(y) = d - c /\ \A n \in 1..(d - c) : y[n] = s[(i + c) + n]
  BY <1>3, PartTyped
<1> HIDE DEF x, y
<1>5. \A n \in 1..(d - c) : x[n] = y[n]
  <2> SUFFICES ASSUME NEW n \in 1..(d - c) PROVE x[n] = y[n]
    OBVIOUS
  <2>1. c + n \in 1..(j - i) /\ i + (c + n) = (i + c) + n
    OBVIOUS
  <2> QED BY <1>1, <1>2, <1>4, <2>1
<1>6. x = y
  BY <1>2, <1>4, <1>5, SeqEqual
<1> QED BY <1>6 DEF x, y, t

(* Two that meet make one. *)
LEMMA PartsJoin ==
  ASSUME NEW s \in Seq(Byte), NEW j \in 0..Len(s), NEW m \in 0..j, NEW i \in 0..m
  PROVE  Part(s, i, m) \o Part(s, m, j) = Part(s, i, j)
<1>1. i + 1 \in 1..(Len(s) + 1) /\ m \in ((i + 1) - 1)..Len(s) /\ j \in m..Len(s)
  OBVIOUS
<1>2. SubSeq(s, i + 1, m) \o SubSeq(s, m + 1, j) = SubSeq(s, i + 1, j)
  BY <1>1, ConcatAdjacentSubSeq
<1> QED BY <1>2 DEF Part

(* They remain when the stream goes on, and what is left of it grows. *)
LEMMA PartStays ==
  ASSUME NEW s \in Seq(Byte), NEW t \in Seq(Byte), NEW j \in 0..Len(s), NEW i \in 0..j
  PROVE  /\ Part(s \o t, i, j) = Part(s, i, j)
         /\ Part(s \o t, i, Len(s \o t)) = Part(s, i, Len(s)) \o t
<1> DEFINE u == s \o t
<1>1. /\ u \in Seq(Byte) /\ Len(u) = Len(s) + Len(t) /\ Len(s) \in Nat /\ Len(t) \in Nat
      /\ \A n \in 1..Len(s) : u[n] = s[n]
      /\ \A n \in 1..Len(t) : u[Len(s) + n] = t[n]
  OBVIOUS
<1> HIDE DEF u
<1>2. ASSUME NEW e \in 0..Len(s), i <= e
      PROVE  Part(u, i, e) = Part(s, i, e)
  <2> DEFINE x == Part(u, i, e)
             y == Part(s, i, e)
  <2>1. i \in 0..e /\ e \in 0..Len(u)
    BY <1>1, <1>2
  <2>2. x \in Seq(Byte) /\ Len(x) = e - i /\ \A n \in 1..(e - i) : x[n] = u[i + n]
    BY <1>1, <2>1, PartTyped
  <2>3. y \in Seq(Byte) /\ Len(y) = e - i /\ \A n \in 1..(e - i) : y[n] = s[i + n]
    BY <2>1, PartTyped
  <2> HIDE DEF x, y
  <2>4. \A n \in 1..(e - i) : i + n \in 1..Len(s)
    BY <1>1, <2>1
  <2>5. x = y
    BY <1>1, <2>2, <2>3, <2>4, SeqEqual
  <2> QED BY <2>5 DEF x, y
<1>3. Part(u, Len(s), Len(u)) = t
  <2> DEFINE x == Part(u, Len(s), Len(u))
  <2>1. x \in Seq(Byte) /\ Len(x) = Len(u) - Len(s) /\ \A n \in 1..(Len(u) - Len(s)) : x[n] = u[Len(s) + n]
    <3>1. Len(u) \in 0..Len(u) /\ Len(s) \in 0..Len(u)
      BY <1>1
    <3> QED BY <1>1, <3>1, PartTyped
  <2> HIDE DEF x
  <2>2. Len(x) = Len(t) /\ \A n \in 1..Len(x) : x[n] = t[n]
    BY <1>1, <2>1
  <2>3. x = t
    BY <2>1, <2>2, SeqEqual
  <2> QED BY <2>3 DEF x
<1>4. Part(u, i, Len(u)) = Part(u, i, Len(s)) \o Part(u, Len(s), Len(u))
  <2>1. Len(u) \in 0..Len(u) /\ Len(s) \in 0..Len(u) /\ i \in 0..Len(s)
    BY <1>1
  <2> QED BY <1>1, <2>1, PartsJoin
<1>5. Part(u, i, Len(s)) = Part(s, i, Len(s))
  BY <1>1, <1>2
<1>6. Part(u, i, j) = Part(s, i, j)
  BY <1>2
<1> QED BY <1>3, <1>4, <1>5, <1>6 DEF u

-----------------------------------------------------------------------------
(* Packets in parts of a stream.                                           *)

(* A preamble is where it is, whatever part it is seen in. *)
LEMMA PreamblesOfPart ==
  ASSUME NEW k \in Binary, NEW s \in Seq(Byte), NEW j \in 0..Len(s), NEW i \in 0..j
  PROVE  /\ \A p \in Preambles(k, Part(s, i, j)) : p \in 1..(j - i - 1)
         /\ \A p \in 1..(j - i - 1) : p \in Preambles(k, Part(s, i, j)) <=> i + p \in Preambles(k, s)
<1> DEFINE t == Part(s, i, j)
<1>1. t \in Seq(Byte) /\ Len(t) = j - i /\ \A x \in 1..(j - i) : t[x] = s[i + x]
  BY PartTyped
<1> HIDE DEF t
<1>2. \A p \in Preambles(k, t) : p \in 1..(j - i - 1)
  BY <1>1 DEF Preambles
<1>3. ASSUME NEW p \in 1..(j - i - 1)
      PROVE  p \in Preambles(k, t) <=> i + p \in Preambles(k, s)
  <2>1. p \in 1..(j - i) /\ p + 1 \in 1..(j - i) /\ i + (p + 1) = (i + p) + 1
    OBVIOUS
  <2>2. t[p] = s[i + p] /\ t[p + 1] = s[(i + p) + 1]
    <3>1. t[p] = s[i + p] /\ t[p + 1] = s[i + (p + 1)]
      BY <1>1, <2>1
    <3> QED BY <2>1, <3>1
  <2>3. p \in 1..(Len(t) - 1) /\ i + p \in 1..(Len(s) - 1)
    BY <1>1
  <2> QED BY <2>2, <2>3 DEF Preambles
<1> QED BY <1>2, <1>3 DEF t

(* So is the end of a packet, if the part holds it. *)
LEMMA PacketEndOfPart ==
  ASSUME NEW k \in Binary, NEW s \in Seq(Byte), NEW j \in 0..Len(s), NEW i \in 0..j,
         NEW p \in 1..(j - i - 1)
  PROVE  PacketEnd(k, Part(s, i, j), p)
           = IF PacketEnd(k, s, i + p) # 0 /\ PacketEnd(k, s, i + p) <= j
             THEN PacketEnd(k, s, i + p) - i ELSE 0
<1> DEFINE t == Part(s, i, j)
<1>1. /\ t \in Seq(Byte) /\ Len(t) = j - i /\ \A x \in 1..(j - i) : t[x] = s[i + x]
      /\ Len(s) \in Nat
  <2>1. Len(s) \in Nat
    OBVIOUS
  <2> QED BY <2>1, PartTyped
<1>2. \A x \in 1..Len(s) : s[x] \in Nat
  <2>1. \A x \in 1..Len(s) : s[x] \in Byte
    OBVIOUS
  <2> QED BY <2>1, PacketFormatAssumption DEF Byte
<1> HIDE DEF t
<1>3. CASE k = "xsens"
  <2>1. CASE p + 3 <= j - i
    <3> DEFINE length == s[i + p + 3]
    <3>1. p + 3 \in 1..(j - i) /\ i + (p + 3) = i + p + 3 /\ i + p + 3 \in 1..Len(s)
      BY <2>1
    <3>2. t[p + 3] = length /\ length \in Nat
      BY <1>1, <1>2, <3>1
    <3>3. PacketEnd(k, t, p) = IF p + 3 + length + 1 <= j - i THEN p + 3 + length + 1 ELSE 0
      BY <1>1, <1>3, <2>1, <3>2 DEF PacketEnd
    <3>4. PacketEnd(k, s, i + p) = IF i + p + 3 + length + 1 <= Len(s) THEN i + p + 3 + length + 1 ELSE 0
      BY <1>3, <3>1, <3>2 DEF PacketEnd
    <3> HIDE DEF length
    <3> QED BY <1>1, <3>2, <3>3, <3>4 DEF t
  <2>2. CASE ~(p + 3 <= j - i)
    <3>1. PacketEnd(k, t, p) = 0
      BY <1>1, <1>3, <2>2 DEF PacketEnd
    <3>2. PacketEnd(k, s, i + p) = 0 \/ PacketEnd(k, s, i + p) \in (i + p + 4)..Len(s)
      <4>1. i + p \in 1..(Len(s) - 1)
        OBVIOUS
      <4> QED BY <4>1, PacketEndWithin
    <3> QED BY <2>2, <3>1, <3>2 DEF t
  <2> QED BY <2>1, <2>2
<1>4. CASE k = "ublox"
  <2>1. CASE p + 5 <= j - i
    <3> DEFINE length == s[i + p + 4] + Base * s[i + p + 5]
    <3>1. /\ p + 4 \in 1..(j - i) /\ i + (p + 4) = i + p + 4 /\ i + p + 4 \in 1..Len(s)
          /\ p + 5 \in 1..(j - i) /\ i + (p + 5) = i + p + 5 /\ i + p + 5 \in 1..Len(s)
      BY <2>1
    <3>2. t[p + 4] = s[i + p + 4] /\ t[p + 5] = s[i + p + 5]
      BY <1>1, <3>1
    <3>3. length \in Nat
      BY <1>2, <3>1, LengthTyped
    <3>4. t[p + 4] + Base * t[p + 5] = length
      BY <3>2
    <3>5. PacketEnd(k, t, p) = IF p + 5 + length + 2 <= j - i THEN p + 5 + length + 2 ELSE 0
      <4> DEFINE shown == t[p + 4] + Base * t[p + 5]
      <4>1. PacketEnd(k, t, p) = IF p + 5 + shown + 2 <= j - i THEN p + 5 + shown + 2 ELSE 0
        BY <1>1, <1>4, <2>1, <3>3, <3>4 DEF PacketEnd
      <4>2. shown = length
        BY <3>4
      <4> HIDE DEF shown, length
      <4> QED BY <4>1, <4>2
    <3>6. PacketEnd(k, s, i + p) = IF i + p + 5 + length + 2 <= Len(s) THEN i + p + 5 + length + 2 ELSE 0
      BY <1>4, <3>1, <3>3 DEF PacketEnd
    <3> HIDE DEF length
    <3> QED BY <1>1, <3>3, <3>5, <3>6 DEF t
  <2>2. CASE ~(p + 5 <= j - i)
    <3>1. PacketEnd(k, t, p) = 0
      BY <1>1, <1>4, <2>2 DEF PacketEnd
    <3>2. PacketEnd(k, s, i + p) = 0 \/ PacketEnd(k, s, i + p) \in (i + p + 7)..Len(s)
      <4> DEFINE length == s[i + p + 4] + Base * s[i + p + 5]
      <4>1. CASE i + p + 5 <= Len(s)
        <5>1. i + p + 4 \in 1..Len(s) /\ i + p + 5 \in 1..Len(s)
          BY <4>1
        <5>2. length \in Nat
          BY <1>2, <5>1, LengthTyped
        <5>3. PacketEnd(k, s, i + p) = IF i + p + 5 + length + 2 <= Len(s) THEN i + p + 5 + length + 2 ELSE 0
          BY <1>4, <4>1, <5>2 DEF PacketEnd
        <5> HIDE DEF length
        <5> QED BY <5>2, <5>3
      <4>2. CASE ~(i + p + 5 <= Len(s))
        BY <1>4, <4>2 DEF PacketEnd
      <4> QED BY <4>1, <4>2
    <3> QED BY <2>2, <3>1, <3>2 DEF t
  <2> QED BY <2>1, <2>2
<1> QED BY <1>3, <1>4 DEF Binary

-----------------------------------------------------------------------------
(* A line that has become good.                                            *)

(* What a device sends then: behind the first m bytes of the stream comes  *)
(* such a packet, up to the e-th.                                          *)
GoodBytes(k) == {packet[1] : packet \in GoodPackets[k]}
PacketAt(k, s, m, e) == m < e /\ Part(s, m, e) \in GoodBytes(k)

(* The stream is good behind the first a bytes; packets meet at the marks. *)
GoodFrom(k, s, marks, a) ==
  /\ s \in Seq(Byte) /\ GoodBytes(k) # {}
  /\ marks \in SUBSET (0..Len(s)) /\ a \in marks /\ Len(s) \in marks
  /\ \A m \in marks : m # Len(s) => \E e \in marks : PacketAt(k, s, m, e)

(* A good packet, wherever it is: its only preamble is at its beginning,   *)
(* which is not the second byte of one; it ends where it should and has    *)
(* values.                                                                 *)
LEMMA GoodPacketAt ==
  ASSUME NEW k \in Kinds \ {"regex"}, NEW s \in Seq(Byte), NEW e \in 0..Len(s), NEW m \in 0..e,
         PacketAt(k, s, m, e)
  PROVE  /\ m + 1 \in Preambles(k, s) /\ m \notin Preambles(k, s) /\ m + 2 <= e
         /\ \A p \in Preambles(k, s) : ~(m + 1 < p /\ p < e)
         /\ PacketEnd(k, s, m + 1) = e
         /\ PacketValues(k, Part(s, m, e)) # <<>>
<1> DEFINE g == Part(s, m, e)
<1>1. PICK packet \in GoodPackets[k] : packet[1] = g
  BY DEF PacketAt, GoodBytes
<1>2. /\ packet[2] # NoPacket /\ packet[2] # <<>> /\ Preambles(k, g) = {1}
      /\ Preamble(k)[1] # Preamble(k)[2]
  BY <1>1, RecoveryAssumption
<1>3. PacketEnd(k, g, 1) = Len(g) /\ PacketValues(k, g) = packet[2]
  BY <1>1, <1>2, WholePacketsAssumption
<1>4. k \in Binary /\ m < e
  BY PacketsAssumption DEF Binary, PacketAt
<1>5. g \in Seq(Byte) /\ Len(g) = e - m
  BY PartTyped
<1>6. /\ \A p \in Preambles(k, g) : p \in 1..(e - m - 1)
      /\ \A p \in 1..(e - m - 1) : p \in Preambles(k, g) <=> m + p \in Preambles(k, s)
  BY <1>4, PreamblesOfPart
<1> HIDE DEF g
<1>7. 1 \in 1..(e - m - 1) /\ m + 1 \in Preambles(k, s) /\ m + 2 <= e
  <2>1. 1 \in 1..(e - m - 1)
    BY <1>2, <1>6
  <2> QED BY <1>2, <1>6, <2>1
<1>8. ASSUME NEW p \in Preambles(k, s), m + 1 < p, p < e
      PROVE  FALSE
  <2>1. p \in Nat
    BY DEF Preambles
  <2>2. p - m \in 1..(e - m - 1) /\ m + (p - m) = p /\ p - m # 1
    BY <1>8, <2>1
  <2>3. p - m \in Preambles(k, g)
    BY <1>6, <2>2
  <2> QED BY <1>2, <2>2, <2>3
<1>9. m \notin Preambles(k, s)
  <2> SUFFICES ASSUME m \in Preambles(k, s) PROVE FALSE
    OBVIOUS
  <2>1. <<s[m], s[m + 1]>> = Preamble(k)
    BY DEF Preambles
  <2>2. <<s[m + 1], s[(m + 1) + 1]>> = Preamble(k)
    BY <1>7 DEF Preambles
  <2>3. s[m + 1] = Preamble(k)[2] /\ s[m + 1] = Preamble(k)[1]
    <3>1. <<s[m], s[m + 1]>>[2] = s[m + 1] /\ <<s[m + 1], s[(m + 1) + 1]>>[1] = s[m + 1]
      OBVIOUS
    <3> QED BY <2>1, <2>2, <3>1
  <2> QED BY <1>2, <2>3
<1>10. PacketEnd(k, s, m + 1) = e
  <2>1. e - m # 0
    BY <1>4
  <2>2. PacketEnd(k, g, 1) = IF PacketEnd(k, s, m + 1) # 0 /\ PacketEnd(k, s, m + 1) <= e
                             THEN PacketEnd(k, s, m + 1) - m ELSE 0
    BY <1>4, <1>7, PacketEndOfPart DEF g
  <2>3. PacketEnd(k, s, m + 1) = 0 \/ PacketEnd(k, s, m + 1) \in (m + 1 + 4)..Len(s)
    <3>1. m + 1 \in 1..(Len(s) - 1)
      BY <1>7
    <3> QED BY <1>4, <3>1, PacketEndWithin
  <2> DEFINE end == PacketEnd(k, s, m + 1)
  <2>4. end - m = e - m
    <3>1. IF end # 0 /\ end <= e THEN end - m = e - m ELSE 0 = e - m
      BY <1>3, <1>5, <2>2
    <3> QED BY <2>1, <3>1
  <2>5. end \in Nat
    BY <2>3
  <2> HIDE DEF end
  <2>6. end = e
    BY <2>4, <2>5
  <2> QED BY <2>6 DEF end
<1>11. PacketValues(k, Part(s, m, e)) # <<>>
  BY <1>2, <1>3 DEF g
<1> QED BY <1>7, <1>8, <1>9, <1>10, <1>11

(* The parser of a part with no preamble before a good packet cuts that    *)
(* packet, if the part holds it, and nothing otherwise.                    *)
LEMMA GoodPacketCut ==
  ASSUME NEW k \in Kinds \ {"regex"}, NEW s \in Seq(Byte), NEW e \in 0..Len(s), NEW m \in 0..e,
         PacketAt(k, s, m, e), NEW i \in 0..m, NEW j \in i..Len(s),
         \A p \in Preambles(k, s) : ~(i < p /\ p < m)
  PROVE  IF e <= j THEN CutEnd(k, Part(s, i, j)) = e - i /\ Cut(k, Part(s, i, j)) = Part(s, m, e)
                   ELSE CutEnd(k, Part(s, i, j)) = 0
<1> DEFINE b == Part(s, i, j)
           starts == Preambles(k, b)
           start == m + 1 - i
<1>1. /\ m + 1 \in Preambles(k, s) /\ m \notin Preambles(k, s) /\ m + 2 <= e
      /\ \A p \in Preambles(k, s) : ~(m + 1 < p /\ p < e)
      /\ PacketEnd(k, s, m + 1) = e
  BY GoodPacketAt
<1>2. k \in Binary /\ m < e
  BY PacketsAssumption DEF Binary, PacketAt
<1>3. i \in 0..j /\ j \in 0..Len(s) /\ Len(s) \in Nat
  OBVIOUS
<1>4. /\ \A p \in starts : p \in 1..(j - i - 1)
      /\ \A p \in 1..(j - i - 1) : p \in starts <=> i + p \in Preambles(k, s)
  BY <1>2, <1>3, PreamblesOfPart
<1>5. starts \in SUBSET Nat
  BY <1>3, <1>4
<1> HIDE DEF b, starts
<1>6. \A p \in starts : start <= p
  <2> SUFFICES ASSUME NEW p \in starts, p < start PROVE FALSE
    BY <1>5
  <2>1. p \in 1..(j - i - 1) /\ i + p \in Preambles(k, s) /\ i < i + p
    BY <1>4
  <2>2. i + p < m \/ i + p = m
    BY <2>1
  <2> QED BY <1>1, <2>1, <2>2
<1>7. CASE start \in starts
  <2>1. Min(starts) = start
    <3>1. starts # {}
      BY <1>7
    <3>2. Min(starts) \in starts /\ Min(starts) <= start
      BY <1>5, <1>7, <3>1, MinExists
    <3>3. start <= Min(starts) /\ Min(starts) \in Nat
      <4> HIDE DEF start
      <4> QED BY <1>5, <1>6, <3>2, Zenon
    <3>4. start \in Int
      OBVIOUS
    <3> HIDE DEF start
    <3> QED BY <3>2, <3>3, <3>4
  <2>2. start \in 1..(j - i - 1) /\ i + start = m + 1
    BY <1>4, <1>7
  <2>3. CutEnd(k, b) = PacketEnd(k, b, start)
    BY <1>7, <2>1 DEF CutEnd, starts
  <2>4. PacketEnd(k, b, start) = IF e # 0 /\ e <= j THEN e - i ELSE 0
    BY <1>1, <1>2, <1>3, <2>2, PacketEndOfPart DEF b
  <2>5. ASSUME e <= j
        PROVE  Cut(k, b) = Part(s, m, e)
    <3>1. CutEnd(k, b) = e - i
      BY <1>2, <2>3, <2>4, <2>5
    <3>2. Cut(k, b) = SubSeq(b, start, e - i)
      BY <2>1, <3>1 DEF Cut, starts
    <3>3. start = (m - i) + 1
      OBVIOUS
    <3>4. Cut(k, b) = Part(b, m - i, e - i)
      BY <3>2, <3>3 DEF Part
    <3>5. e - i \in 0..(j - i) /\ m - i \in 0..(e - i) /\ i + (e - i) = e /\ i + (m - i) = m
      BY <1>2, <2>5
    <3>6. Part(b, m - i, e - i) = Part(s, i + (m - i), i + (e - i))
      BY <1>3, <3>5, PartOfPart DEF b
    <3> QED BY <3>4, <3>5, <3>6
  <2> QED BY <1>2, <2>3, <2>4, <2>5 DEF b
<1>8. CASE start \notin starts
  <2>1. ~(start \in 1..(j - i - 1))
    <3>1. i + start = m + 1
      OBVIOUS
    <3> QED BY <1>1, <1>4, <1>8, <3>1
  <2>2. start > j - i - 1 /\ ~(e <= j)
    BY <1>1, <2>1
  <2>3. starts = {}
    <3> SUFFICES ASSUME NEW p \in starts PROVE FALSE
      OBVIOUS
    <3> QED BY <1>4, <1>6, <2>2
  <2>4. CutEnd(k, b) = 0
    BY <2>3 DEF CutEnd, starts
  <2> QED BY <2>2, <2>4 DEF b
<1> QED BY <1>7, <1>8

(* A mark of the good line is the next thing the parser comes to: before   *)
(* it there is no preamble, less than a packet h of it has come to pass,   *)
(* and not more than a full buffer, a read and h are lost.                 *)
NextMark(k, s, marks, a, i, m) ==
  /\ m \in marks /\ i <= m
  /\ \A p \in Preambles(k, s) : ~(i < p /\ p < m)
  /\ \E h \in GoodBytes(k) : m - i < Len(h) /\ m < a + BufferLimit + MaxChunk + Len(h)

(* The parser has read up to j, and waits for the packet there.            *)
Waiting(k, s, marks, a, i, j) ==
  \E m \in marks :
    /\ NextMark(k, s, marks, a, i, m)
    /\ m # Len(s) => \E e \in marks : PacketAt(k, s, m, e) /\ j < e

(* Good packets have bytes, and two of them fit the buffer. *)
LEMMA GoodBytesTyped ==
  ASSUME NEW k \in Kinds \ {"regex"}, NEW h \in GoodBytes(k)
  PROVE  /\ h \in Seq(Byte) /\ Len(h) \in Nat \ {0}
         /\ \A g \in GoodBytes(k) : Len(g) + Len(h) <= BufferLimit + 2
<1>1. PICK packet \in GoodPackets[k] : h = packet[1]
  BY DEF GoodBytes
<1>2. h \in Seq(Byte)
  BY <1>1, PacketsAssumption
<1>3. 1 \in Preambles(k, h)
  BY <1>1, RecoveryAssumption
<1>4. Len(h) \in Nat \ {0}
  BY <1>2, <1>3 DEF Preambles
<1>5. \A g \in GoodBytes(k) : Len(g) + Len(h) <= BufferLimit + 2
  BY <1>1, RecoveryAssumption DEF GoodBytes
<1> QED BY <1>2, <1>4, <1>5

(* Wherever on the good line the parser is, it comes to a mark next. *)
LEMMA MarkIsNext ==
  ASSUME NEW k \in Kinds \ {"regex"}, NEW s, NEW marks, NEW a, GoodFrom(k, s, marks, a),
         NEW i \in a..Len(s), i <= a + BufferLimit + MaxChunk
  PROVE  \E m \in marks : NextMark(k, s, marks, a, i, m)
<1>1. /\ s \in Seq(Byte) /\ Len(s) \in Nat /\ a \in 0..Len(s)
      /\ BufferLimit \in Nat /\ MaxChunk \in Nat
  BY PacketsAssumption DEF GoodFrom
<1> DEFINE before == {m \in marks : m <= i}
<1>2. Max(before) \in before /\ \A m \in before : m <= Max(before)
  <2>1. before \in SUBSET Nat /\ before # {} /\ i \in Nat /\ \A m \in before : m <= i
    <3>1. marks \in SUBSET Nat /\ a \in marks /\ a <= i
      BY <1>1 DEF GoodFrom
    <3>2. i \in Nat
      BY <1>1
    <3> QED BY <3>1, <3>2
  <2> HIDE DEF before
  <2> QED BY <2>1, MaxExists
<1>3. PICK m \in marks : m <= i /\ \A n \in marks : n <= i => n <= m
  BY <1>2
<1>4. m \in 0..Len(s)
  BY DEF GoodFrom
<1>5. CASE m = i
  <2>1. PICK h \in GoodBytes(k) : TRUE
    BY DEF GoodFrom
  <2>2. Len(h) \in Nat \ {0}
    BY GoodBytesTyped
  <2>3. m - i < Len(h) /\ m < a + BufferLimit + MaxChunk + Len(h)
    BY <1>1, <1>4, <1>5, <2>2
  <2>4. \A p \in Preambles(k, s) : ~(i < p /\ p < m)
    BY <1>4, <1>5 DEF Preambles
  <2>5. NextMark(k, s, marks, a, i, m)
    BY <1>4, <1>5, <2>3, <2>4 DEF NextMark
  <2> QED BY <2>5
<1>6. CASE m # i
  <2>1. m # Len(s) /\ m < i
    BY <1>1, <1>3, <1>4, <1>6
  <2>2. PICK e \in marks : PacketAt(k, s, m, e)
    BY <2>1 DEF GoodFrom
  <2>3. m < e /\ Part(s, m, e) \in GoodBytes(k) /\ e \in 0..Len(s)
    BY <2>2 DEF PacketAt, GoodFrom
  <2>4. i < e
    <3>1. e <= i => e <= m
      BY <1>3
    <3> QED BY <1>4, <2>3, <3>1
  <2> DEFINE h == Part(s, m, e)
  <2>5. Len(h) = e - m
    <3>1. m \in 0..e
      BY <1>4, <2>3
    <3> QED BY <1>1, <2>3, <3>1, PartTyped
  <2> HIDE DEF h
  <2>6. e - i < Len(h) /\ e < a + BufferLimit + MaxChunk + Len(h)
    BY <1>1, <1>4, <2>1, <2>3, <2>5
  <2>7. \A p \in Preambles(k, s) : ~(i < p /\ p < e)
    <3> SUFFICES ASSUME NEW p \in Preambles(k, s), i < p, p < e PROVE FALSE
      OBVIOUS
    <3>1. p \in Nat
      BY DEF Preambles
    <3>2. m + 1 < p
      BY <1>4, <2>1, <3>1
    <3>3. m \in 0..e
      BY <1>4, <2>3
    <3> QED BY <1>1, <2>2, <2>3, <3>2, <3>3, GoodPacketAt
  <2>8. NextMark(k, s, marks, a, i, e)
    BY <2>3, <2>4, <2>6, <2>7 DEF NextMark, h
  <2> QED BY <2>8
<1> QED BY <1>5, <1>6

(* When it does, there are values or it waits for what is behind the mark. *)
LEMMA MarkReached ==
  ASSUME NEW k \in Kinds \ {"regex"}, NEW s, NEW marks, NEW a, GoodFrom(k, s, marks, a),
         NEW i \in Nat, NEW j \in i..Len(s),
         NEW m \in marks, NextMark(k, s, marks, a, i, m)
  PROVE  \/ PacketsParsed(k, Part(s, i, j)).values # <<>>
         \/ /\ PacketsParsed(k, Part(s, i, j)).rest = Part(s, i, j)
            /\ Waiting(k, s, marks, a, i, j)
<1> DEFINE b == Part(s, i, j)
<1>1. /\ s \in Seq(Byte) /\ Len(s) \in Nat /\ m \in 0..Len(s) /\ i <= m /\ k \in Binary
      /\ \A p \in Preambles(k, s) : ~(i < p /\ p < m)
  BY PacketsAssumption DEF GoodFrom, NextMark, Binary
<1>2. b \in Seq(Byte) /\ i \in 0..j /\ j \in 0..Len(s)
  <2>1. i \in 0..j /\ j \in 0..Len(s)
    BY <1>1
  <2> QED BY <1>1, <2>1, PartTyped
<1>3. ASSUME CutEnd(k, b) = 0
      PROVE  PacketsParsed(k, b).rest = b
  BY <1>1, <1>2, <1>3, PacketsParsedRound DEF Nothing
<1>4. CASE m = Len(s)
  <2>1. Waiting(k, s, marks, a, i, j)
    BY <1>4 DEF Waiting
  <2>2. Preambles(k, b) = {}
    <3> SUFFICES ASSUME NEW p \in Preambles(k, b) PROVE FALSE
      OBVIOUS
    <3>1. p \in 1..(j - i - 1) /\ i + p \in Preambles(k, s)
      BY <1>1, <1>2, PreamblesOfPart
    <3>2. i < i + p /\ i + p < m
      BY <1>2, <1>4, <3>1
    <3> QED BY <1>1, <3>1, <3>2
  <2>3. CutEnd(k, b) = 0
    BY <2>2 DEF CutEnd
  <2> QED BY <1>3, <2>1, <2>3
<1>5. CASE m # Len(s)
  <2>1. PICK e \in marks : PacketAt(k, s, m, e)
    BY <1>5 DEF GoodFrom
  <2>2. e \in 0..Len(s) /\ m \in 0..e /\ i \in 0..m /\ m < e
    BY <1>1, <2>1 DEF GoodFrom, PacketAt
  <2>3. IF e <= j THEN CutEnd(k, b) = e - i /\ Cut(k, b) = Part(s, m, e)
                  ELSE CutEnd(k, b) = 0
    BY <1>1, <2>1, <2>2, GoodPacketCut
  <2>4. CASE e <= j
    <3>1. CutEnd(k, b) # 0 /\ Cut(k, b) = Part(s, m, e)
      BY <2>2, <2>3, <2>4
    <3>2. PacketValues(k, Cut(k, b)) # <<>>
      BY <1>1, <2>1, <2>2, <3>1, GoodPacketAt
    <3> DEFINE vs == PacketValues(k, Cut(k, b))
               more == PacketsParsed(k, Behind(k, b)).values
    <3>3. vs \in Seq(Seq(Byte)) /\ Behind(k, b) \in Seq(Byte)
      BY <1>1, <1>2, <3>1, BehindIsShorter
    <3>4. more \in Seq(Seq(Byte))
      BY <1>1, <3>3, PacketsParsedRound DEF Results
    <3>5. PacketsParsed(k, b).values = vs \o more
      <4>1. PacketsParsed(k, b) = Then(vs, PacketsParsed(k, Behind(k, b)))
        BY <1>1, <1>2, <3>1, PacketsParsedRound
      <4> HIDE DEF b, vs
      <4> QED BY <4>1 DEF Then
    <3> HIDE DEF b, vs, more
    <3>6. vs \o more # <<>>
      <4> DEFINE S == Seq(Byte)
      <4>1. vs \in Seq(S) /\ more \in Seq(S)
        BY <3>3, <3>4
      <4> HIDE DEF S
      <4>2. Len(vs) # 0
        BY <3>2, <4>1, EmptySeq DEF vs
      <4>3. Len(vs \o more) = Len(vs) + Len(more)
        BY <4>1
      <4> QED BY <4>1, <4>2, <4>3
    <3> QED BY <3>5, <3>6 DEF b
  <2>5. CASE ~(e <= j)
    <3>1. j < e
      BY <1>2, <2>2, <2>5
    <3>2. Waiting(k, s, marks, a, i, j)
      BY <2>1, <3>1 DEF Waiting
    <3> QED BY <1>3, <2>3, <2>5, <3>2
  <2> QED BY <2>4, <2>5
<1> QED BY <1>4, <1>5

(* While the parser is still ahead of the good line, as much as may be in  *)
(* the buffer gives values, or takes it no farther than to a mark.         *)
LEMMA ParsedAhead ==
  ASSUME NEW k \in Kinds \ {"regex"}, NEW s, NEW marks, NEW a, GoodFrom(k, s, marks, a),
         NEW i \in 0..a, NEW j \in i..Len(s), j - i <= BufferLimit + MaxChunk
  PROVE  \/ PacketsParsed(k, Part(s, i, j)).values # <<>>
         \/ \E n \in i..j :
              /\ PacketsParsed(k, Part(s, i, j)).rest = Part(s, n, j)
              /\ n <= a \/ Waiting(k, s, marks, a, n, j)
<1> DEFINE Stops(n) == n <= a \/ Waiting(k, s, marks, a, n, j)
           Wrong == {n \in 0..a : /\ n <= j /\ j - n <= BufferLimit + MaxChunk
                                  /\ PacketsParsed(k, Part(s, n, j)).values = <<>>
                                  /\ \A x \in n..j : PacketsParsed(k, Part(s, n, j)).rest = Part(s, x, j)
                                                       => ~Stops(x)}
           size == [n \in Wrong |-> j - n]
<1>1. /\ s \in Seq(Byte) /\ Len(s) \in Nat /\ a \in 0..Len(s) /\ k \in Binary
      /\ BufferLimit \in Nat /\ MaxChunk \in Nat
  BY PacketsAssumption DEF GoodFrom, Binary
<1> SUFFICES ASSUME Wrong # {} PROVE FALSE
  <2>1. i \notin Wrong
    OBVIOUS
  <2>2. i \in 0..a /\ i <= j /\ j - i <= BufferLimit + MaxChunk
    BY <1>1
  <2> QED BY <2>1, <2>2
<1>2. PICK n \in Wrong : \A x \in Wrong : size[n] <= size[x]
  <2>1. size \in [Wrong -> Nat]
    <3> SUFFICES ASSUME NEW n \in Wrong PROVE j - n \in Nat
      OBVIOUS
    <3> QED BY <1>1
  <2> HIDE DEF Wrong, size
  <2> QED BY <2>1, LeastExists
<1>3. /\ n \in 0..a /\ n <= j /\ j - n <= BufferLimit + MaxChunk
      /\ PacketsParsed(k, Part(s, n, j)).values = <<>>
      /\ \A x \in n..j : PacketsParsed(k, Part(s, n, j)).rest = Part(s, x, j) => ~Stops(x)
  OBVIOUS
<1> DEFINE b == Part(s, n, j)
<1>4. b \in Seq(Byte) /\ Len(b) = j - n /\ n \in 0..j /\ j \in 0..Len(s)
  <2>1. n \in 0..j /\ j \in 0..Len(s)
    BY <1>1, <1>3
  <2> QED BY <1>1, <2>1, PartTyped
<1>5. CASE CutEnd(k, b) = 0
  <2>1. PacketsParsed(k, b).rest = Part(s, n, j)
    BY <1>1, <1>4, <1>5, PacketsParsedRound DEF Nothing
  <2> QED BY <1>3, <1>4, <2>1
<1>6. CASE CutEnd(k, b) # 0
  <2> DEFINE c == CutEnd(k, b)
             d == Part(s, n + c, j)
  <2>1. c \in 1..(j - n)
    <3>1. c \in 0..Len(b)
      BY <1>1, <1>4, CutWithin
    <3> HIDE DEF c, b
    <3> QED BY <1>4, <1>6, <3>1 DEF c
  <2>2. Behind(k, b) = d
    <3>1. Behind(k, b) = Part(b, c, j - n)
      BY <1>4 DEF Behind, Part
    <3>2. j - n \in 0..(j - n) /\ c \in 0..(j - n) /\ n + (j - n) = j
      BY <1>4, <2>1
    <3> HIDE DEF c
    <3>3. Part(b, c, j - n) = Part(s, n + c, n + (j - n))
      BY <1>1, <1>4, <3>2, PartOfPart
    <3> QED BY <3>1, <3>2, <3>3
  <2>3. /\ PacketsParsed(k, d).values = <<>>
        /\ PacketsParsed(k, b).rest = PacketsParsed(k, d).rest
    <3> DEFINE vs == PacketValues(k, Cut(k, b))
               parsed == PacketsParsed(k, d)
               S == Seq(Byte)
    <3>1. PacketsParsed(k, b) = Then(vs, parsed)
      BY <1>1, <1>4, <1>6, <2>2, PacketsParsedRound
    <3>2. vs \in Seq(S) /\ d \in Seq(Byte)
      BY <1>1, <1>4, <1>6, <2>2, BehindIsShorter
    <3>3. parsed.values \in Seq(S)
      BY <1>1, <3>2, PacketsParsedRound DEF Results
    <3> HIDE DEF vs, parsed, b, S
    <3>4. vs \o parsed.values = <<>> /\ PacketsParsed(k, b).rest = parsed.rest
      BY <1>3, <3>1 DEF Then, b
    <3>5. Len(vs \o parsed.values) = Len(vs) + Len(parsed.values) /\ Len(vs) \in Nat /\ Len(parsed.values) \in Nat
      BY <3>2, <3>3
    <3>6. Len(parsed.values) = 0
      BY <3>4, <3>5
    <3>7. parsed.values = <<>>
      BY <3>3, <3>6, EmptySeq
    <3> QED BY <3>4, <3>7 DEF parsed
  <2>4. n + c \in n..j /\ j - (n + c) < j - n /\ j - (n + c) <= BufferLimit + MaxChunk /\ n + c \in Nat
    BY <1>1, <1>3, <1>4, <2>1
  <2> HIDE DEF c, b
  <2>5. CASE n + c <= a
    <3>1. n + c \notin Wrong
      <4>1. n + c \in Wrong => size[n] <= size[n + c] /\ size[n] = j - n /\ size[n + c] = j - (n + c)
        BY <1>2
      <4> QED BY <2>4, <4>1
    <3>2. n + c \in 0..a /\ n + c <= j
      BY <1>1, <2>4, <2>5
    <3>3. PICK x \in (n + c)..j : PacketsParsed(k, d).rest = Part(s, x, j) /\ Stops(x)
      BY <2>3, <2>4, <3>1, <3>2
    <3>4. x \in n..j
      BY <1>4, <2>4
    <3> QED BY <1>3, <2>3, <3>3, <3>4 DEF b
  <2>6. CASE ~(n + c <= a)
    <3>1. n + c \in a..Len(s) /\ n + c <= a + BufferLimit + MaxChunk /\ j \in (n + c)..Len(s)
      <4>1. n <= a /\ j - n <= BufferLimit + MaxChunk /\ n \in Nat /\ j \in Nat /\ j <= Len(s)
        BY <1>1, <1>3, <1>4
      <4>2. c \in Nat /\ c <= j - n
        BY <2>1, <4>1
      <4> QED BY <1>1, <2>6, <4>1, <4>2
    <3>2. PICK m \in marks : NextMark(k, s, marks, a, n + c, m)
      BY <3>1, MarkIsNext
    <3>3. PacketsParsed(k, d).rest = d /\ Waiting(k, s, marks, a, n + c, j)
      BY <2>3, <2>4, <3>1, <3>2, MarkReached
    <3> QED BY <1>3, <2>3, <2>4, <3>3 DEF b
  <2> QED BY <2>5, <2>6
<1> QED BY <1>5, <1>6

(* The line stays good when one more packet is sent, and a parser that     *)
(* waits goes on waiting.                                                  *)
LEMMA GoodGoesOn ==
  ASSUME NEW k \in Kinds \ {"regex"}, NEW s, NEW marks, NEW a, GoodFrom(k, s, marks, a),
         NEW g \in GoodBytes(k), NEW i \in Nat, NEW j \in i..Len(s)
  PROVE  /\ GoodFrom(k, s \o g, marks \cup {Len(s \o g)}, a)
         /\ Waiting(k, s, marks, a, i, j)
              => Waiting(k, s \o g, marks \cup {Len(s \o g)}, a, i, j)
<1> DEFINE t == s \o g
           more == marks \cup {Len(t)}
<1>1. /\ s \in Seq(Byte) /\ Len(s) \in Nat /\ marks \in SUBSET (0..Len(s)) /\ a \in marks
      /\ g \in Seq(Byte) /\ Len(g) \in Nat \ {0} /\ Len(s) \in marks
  BY GoodBytesTyped DEF GoodFrom
<1>2. /\ t \in Seq(Byte) /\ Len(t) = Len(s) + Len(g)
      /\ \A n \in 1..Len(s) : t[n] = s[n]
  BY <1>1
<1>3. ASSUME NEW m \in marks, NEW e \in marks, PacketAt(k, s, m, e)
      PROVE  PacketAt(k, t, m, e)
  <2>1. e \in 0..Len(s) /\ m \in 0..e
    BY <1>1, <1>3 DEF PacketAt
  <2>2. Part(t, m, e) = Part(s, m, e)
    BY <1>1, <2>1, PartStays
  <2> QED BY <1>3, <2>2 DEF PacketAt
<1>4. PacketAt(k, t, Len(s), Len(t))
  <2>1. Len(s) \in 0..Len(s)
    BY <1>1
  <2>2. Part(t, Len(s), Len(t)) = Part(s, Len(s), Len(s)) \o g
    BY <1>1, <2>1, PartStays
  <2>3. Part(s, Len(s), Len(s)) = <<>>
    BY <1>1, EmptySeq DEF Part
  <2>4. Part(t, Len(s), Len(t)) = g
    BY <1>1, <2>2, <2>3, ConcatEmptySeq
  <2>5. Len(s) < Len(t)
    BY <1>1, <1>2
  <2> QED BY <2>4, <2>5 DEF PacketAt
<1> HIDE DEF t
<1>5. GoodFrom(k, t, more, a)
  <2>1. more \in SUBSET (0..Len(t)) /\ a \in more /\ Len(t) \in more
    BY <1>1, <1>2
  <2>2. ASSUME NEW m \in more, m # Len(t)
        PROVE  \E e \in more : PacketAt(k, t, m, e)
    <3>1. m \in marks
      BY <2>2
    <3>2. CASE m = Len(s)
      BY <1>4, <3>2
    <3>3. CASE m # Len(s)
      <4>1. PICK e \in marks : PacketAt(k, s, m, e)
        BY <3>1, <3>3 DEF GoodFrom
      <4> QED BY <1>3, <3>1, <4>1
    <3> QED BY <3>2, <3>3
  <2>3. GoodBytes(k) # {}
    OBVIOUS
  <2> HIDE DEF more
  <2> QED BY <1>2, <2>1, <2>2, <2>3 DEF GoodFrom
<1>6. ASSUME Waiting(k, s, marks, a, i, j)
      PROVE  Waiting(k, t, more, a, i, j)
  <2>1. PICK m \in marks :
          /\ NextMark(k, s, marks, a, i, m)
          /\ m # Len(s) => \E e \in marks : PacketAt(k, s, m, e) /\ j < e
    BY <1>6 DEF Waiting
  <2>2. \A p \in Preambles(k, t) : ~(i < p /\ p < m)
    <3> SUFFICES ASSUME NEW p \in Preambles(k, t), i < p, p < m PROVE FALSE
      OBVIOUS
    <3>1. m \in 0..Len(s) /\ p \in Nat /\ p >= 1
      BY <1>1 DEF Preambles
    <3>2. p \in 1..(Len(s) - 1) /\ p \in 1..Len(s) /\ p + 1 \in 1..Len(s)
      BY <1>1, <3>1
    <3>3. t[p] = s[p] /\ t[p + 1] = s[p + 1]
      BY <1>2, <3>2
    <3>4. p \in Preambles(k, s)
      BY <3>2, <3>3 DEF Preambles
    <3> QED BY <2>1, <3>4 DEF NextMark
  <2>3. NextMark(k, t, more, a, i, m)
    BY <2>1, <2>2 DEF NextMark
  <2>4. \E e \in more : PacketAt(k, t, m, e) /\ j < e
    <3>1. CASE m = Len(s)
      <4>1. j < Len(t)
        BY <1>1, <1>2
      <4> QED BY <1>4, <3>1, <4>1
    <3>2. CASE m # Len(s)
      <4>1. PICK e \in marks : PacketAt(k, s, m, e) /\ j < e
        BY <2>1, <3>2
      <4> QED BY <1>3, <4>1
    <3> QED BY <3>1, <3>2
  <2>5. m \in more
    OBVIOUS
  <2> HIDE DEF more
  <2> QED BY <2>3, <2>4, <2>5 DEF Waiting
<1> QED BY <1>5, <1>6 DEF t

-----------------------------------------------------------------------------
(* The way to the next value.                                              *)

(* What the parser has and has not read of a line that has become good: i  *)
(* is where it is, j how far it has read.                                  *)
LineSeen(s, marks, a, i, j) ==
  /\ GoodFrom(kind, s, marks, a)
  /\ i \in Nat /\ j \in i..Len(s)
  /\ buffer = Part(s, i, j) /\ wire = Part(s, j, Len(s))
  /\ \E w \in GoodBytes(kind) :
       /\ \A h \in GoodBytes(kind) : Len(w) <= Len(h)
       /\ good * Len(w) <= Len(s) - a
  /\ i <= a \/ Waiting(kind, s, marks, a, i, j)

(* Until there is a value, the line is known as far as it matters.         *)
Recovering ==
  kind # "regex" /\ good > 0 /\ ~recovered =>
    \E s, marks, a, i, j : LineSeen(s, marks, a, i, j)

(* When it becomes good, all that has not been parsed is ahead of it. *)
LEMMA LineBegins ==
  ASSUME IInv, kind # "regex", good = 0, GoodBytes(kind) # {}
  PROVE  \E s, marks, a, i, j : LineSeen(s, marks, a, i, j)
<1> DEFINE s == buffer \o wire
           a == Len(s)
           j == Len(buffer)
<1>1. /\ kind \in Kinds \ {"regex"} /\ buffer \in Seq(Byte) /\ wire \in Seq(Byte)
  BY DEF IInv, Typed
<1>2. s \in Seq(Byte) /\ a \in Nat /\ j \in 0..a /\ 0 \in Nat /\ Len(buffer) \in 0..Len(buffer)
  BY <1>1
<1>3. buffer = Part(s, 0, j)
  <2>1. Part(s, 0, j) = Part(buffer, 0, Len(buffer))
    <3>1. 0 \in 0..Len(buffer)
      BY <1>1
    <3> QED BY <1>1, <1>2, <3>1, PartStays
  <2>2. Part(buffer, 0, Len(buffer)) = buffer
    BY <1>1, SubSeqFull DEF Part
  <2> QED BY <2>1, <2>2
<1>4. wire = Part(s, j, Len(s))
  <2>1. Part(s, j, Len(s)) = Part(buffer, Len(buffer), Len(buffer)) \o wire
    BY <1>1, <1>2, PartStays
  <2>2. Part(buffer, Len(buffer), Len(buffer)) = <<>>
    BY <1>1, EmptySeq DEF Part
  <2> QED BY <1>1, <2>1, <2>2, ConcatEmptySeq
<1>5. GoodFrom(kind, s, {a}, a)
  <2>1. {a} \in SUBSET (0..Len(s)) /\ \A m \in {a} : m = Len(s)
    BY <1>2
  <2> HIDE DEF s
  <2> QED BY <1>2, <2>1 DEF GoodFrom
<1>6. PICK w \in GoodBytes(kind) : \A h \in GoodBytes(kind) : Len(w) <= Len(h)
  <2> DEFINE size == [h \in GoodBytes(kind) |-> Len(h)]
  <2>1. size \in [GoodBytes(kind) -> Nat]
    BY <1>1, GoodBytesTyped
  <2>2. PICK w \in GoodBytes(kind) : \A h \in GoodBytes(kind) : size[w] <= size[h]
    <3> HIDE DEF size
    <3> QED BY <2>1, LeastExists
  <2> QED BY <2>2
<1>7. good * Len(w) <= Len(s) - a
  <2>1. Len(w) \in Nat
    BY <1>1, GoodBytesTyped
  <2> QED BY <1>2, <2>1
<1> HIDE DEF s, a, j
<1>8. LineSeen(s, {a}, a, 0, j)
  <2>1. 0 <= a /\ j \in 0..Len(s)
    BY <1>2 DEF a
  <2> QED BY <1>2, <1>3, <1>4, <1>5, <1>6, <1>7, <2>1 DEF LineSeen
<1> QED BY <1>8

(* A good packet more is on the line. *)
LEMMA SentRecovering ==
  ASSUME IInv, Recovering, SendGood
  PROVE  Recovering'
<1>1. PICK packet \in GoodPackets[kind] : Sent(packet) /\ good' = good + 1
  BY DEF SendGood
<1> DEFINE g == packet[1]
<1>2. /\ wire' = wire \o g /\ good' = good + 1
      /\ UNCHANGED <<kind, buffer, recovered>>
  BY <1>1 DEF Sent
<1> SUFFICES ASSUME kind # "regex", ~recovered
             PROVE  \E s, marks, a, i, j : LineSeen(s, marks, a, i, j)'
  BY <1>2 DEF Recovering
<1>3. kind \in Kinds \ {"regex"} /\ g \in GoodBytes(kind) /\ good \in Nat
  BY PacketsAssumption DEF IInv, Typed, GoodBytes
<1>4. PICK s, marks, a, i, j : LineSeen(s, marks, a, i, j)
  <2>1. CASE good = 0
    BY <1>3, <2>1, LineBegins
  <2>2. CASE good # 0
    <3>1. good > 0
      BY <1>3, <2>2
    <3> QED BY <3>1 DEF Recovering
  <2> QED BY <2>1, <2>2
<1> HIDE DEF g
<1>5. /\ GoodFrom(kind, s, marks, a) /\ i \in Nat /\ j \in i..Len(s)
      /\ buffer = Part(s, i, j) /\ wire = Part(s, j, Len(s))
      /\ i <= a \/ Waiting(kind, s, marks, a, i, j)
  BY <1>4 DEF LineSeen
<1>6. PICK w \in GoodBytes(kind) : /\ \A h \in GoodBytes(kind) : Len(w) <= Len(h)
                                   /\ good * Len(w) <= Len(s) - a
  BY <1>4 DEF LineSeen
<1> DEFINE t == s \o g
           more == marks \cup {Len(t)}
<1>7. /\ s \in Seq(Byte) /\ g \in Seq(Byte) /\ Len(t) = Len(s) + Len(g)
      /\ Len(s) \in Nat /\ Len(g) \in Nat /\ Len(w) \in Nat /\ a \in Nat
  <2>1. /\ s \in Seq(Byte) /\ g \in Seq(Byte) /\ Len(g) \in Nat /\ Len(w) \in Nat
        /\ a \in 0..Len(s)
    BY <1>3, <1>5, GoodBytesTyped DEF GoodFrom
  <2> QED BY <2>1
<1>8. buffer = Part(t, i, j) /\ wire \o g = Part(t, j, Len(t))
  <2>1. i \in 0..j /\ j \in 0..Len(s) /\ j \in 0..j
    BY <1>5, <1>7
  <2> QED BY <1>5, <1>7, <2>1, PartStays
<1>9. /\ GoodFrom(kind, t, more, a)
      /\ i <= a \/ Waiting(kind, t, more, a, i, j)
  BY <1>3, <1>5, GoodGoesOn
<1>10. (good + 1) * Len(w) <= Len(t) - a
  <2>1. (good + 1) * Len(w) = good * Len(w) + Len(w)
    BY <1>3, <1>7
  <2>2. Len(w) <= Len(g)
    BY <1>3, <1>6
  <2>3. good * Len(w) \in Nat
    BY <1>3, <1>7, ProductTyped
  <2> HIDE DEF t
  <2> QED BY <1>6, <1>7, <2>1, <2>2, <2>3
<1>11. j \in i..Len(t)
  BY <1>5, <1>7
<1> HIDE DEF t, more
<1>12. LineSeen(t, more, a, i, j)'
  BY <1>2, <1>5, <1>6, <1>8, <1>9, <1>10, <1>11 DEF LineSeen
<1> QED BY <1>12

(* A read takes the parser on. *)
LEMMA ReceivedRecovering ==
  ASSUME IInv, Recovering, Receive
  PROVE  Recovering'
<1>1. PICK n \in 1..Min({MaxChunk, Len(wire)}) :
        LET chunk  == SubSeq(wire, 1, n)
            parsed == Parsed(Extended(chunk))
        IN  /\ buffer' = parsed.rest
            /\ wire' = IF parsed.threw THEN <<>> ELSE SubSeq(wire, n + 1, Len(wire))
            /\ recovered' = (recovered \/ (good > 0 /\ ~parsed.threw
                                             /\ parsed.values # <<>>))
            /\ UNCHANGED <<kind, sent, good, owed>>
  BY DEF Receive
<1> SUFFICES ASSUME kind # "regex", good > 0, ~recovered'
             PROVE  \E s, marks, a, i, j : LineSeen(s, marks, a, i, j)'
  BY <1>1 DEF Recovering
<1> DEFINE chunk == SubSeq(wire, 1, n)
           parsed == PacketsParsed(kind, Extended(chunk))
<1>2. /\ kind \in Kinds \ {"regex"} /\ kind \in Binary
      /\ buffer \in Seq(Byte) /\ wire \in Seq(Byte)
      /\ BufferLimit \in Nat /\ MaxChunk \in Nat /\ Len(buffer) <= BufferLimit + MaxChunk
  BY PacketsAssumption DEF IInv, Typed, Binary, BufferBounded
<1>3. /\ chunk \in Seq(Byte) /\ Len(chunk) <= MaxChunk /\ Extended(chunk) \in Seq(Byte)
  <2>1. chunk \in Seq(Byte) /\ Len(chunk) <= MaxChunk
    BY ReadWithin DEF IInv
  <2> HIDE DEF chunk
  <2> QED BY <2>1, ExtendedTyped
<1>4. /\ Parsed(Extended(chunk)).threw = FALSE
      /\ Parsed(Extended(chunk)).rest = parsed.rest /\ Parsed(Extended(chunk)).values = parsed.values
  <2>1. Parsed(Extended(chunk)) = [rest |-> parsed.rest, values |-> parsed.values, threw |-> FALSE]
    BY DEF Parsed
  <2> HIDE DEF parsed, chunk
  <2> QED BY <2>1
<1>5. /\ buffer' = parsed.rest /\ wire' = SubSeq(wire, n + 1, Len(wire))
      /\ parsed.values = <<>> /\ UNCHANGED <<kind, good>> /\ ~recovered
  <2> HIDE DEF parsed, chunk
  <2> QED BY <1>1, <1>4 DEF chunk
<1>6. PICK s, marks, a, i, j : LineSeen(s, marks, a, i, j)
  BY <1>5 DEF Recovering
<1>7. /\ GoodFrom(kind, s, marks, a) /\ i \in Nat /\ j \in i..Len(s)
      /\ buffer = Part(s, i, j) /\ wire = Part(s, j, Len(s))
      /\ i <= a \/ Waiting(kind, s, marks, a, i, j)
      /\ s \in Seq(Byte) /\ a \in 0..Len(s) /\ Len(s) \in Nat
  BY <1>6 DEF LineSeen, GoodFrom
<1>8. i \in 0..j /\ j \in 0..Len(s) /\ Len(buffer) = j - i /\ Len(wire) = Len(s) - j
  <2>1. i \in 0..j /\ j \in 0..Len(s) /\ Len(s) \in 0..Len(s)
    BY <1>7
  <2> QED BY <1>7, <2>1, PartTyped
<1>9. n \in 1..(Len(s) - j) /\ n <= MaxChunk
  <2> DEFINE S == {MaxChunk, Len(wire)}
  <2>1. S \in SUBSET Nat /\ S # {}
    BY <1>2
  <2>2. Min(S) \in S /\ Min(S) <= MaxChunk /\ Min(S) <= Len(wire)
    <3>1. Min(S) \in S /\ \A x \in S : Min(S) <= x
      <4> HIDE DEF S
      <4> QED BY <2>1, MinExists
    <3> QED BY <3>1
  <2>3. Min(S) \in Nat
    BY <2>1, <2>2
  <2>4. n \in 1..Min(S)
    OBVIOUS
  <2> HIDE DEF S
  <2>5. n \in Nat /\ 1 <= n /\ n <= Min(S)
    BY <2>3, <2>4
  <2>6. n <= MaxChunk /\ n <= Len(wire) /\ Len(wire) \in Nat
    BY <1>2, <2>2, <2>3, <2>5
  <2> QED BY <1>8, <2>5, <2>6
<1> DEFINE r == j + n
<1>10. chunk = Part(s, j, r) /\ wire' = Part(s, r, Len(s)) /\ r \in j..Len(s)
  <2>1. Len(s) - j \in 0..(Len(s) - j) /\ n \in 0..(Len(s) - j) /\ j + (Len(s) - j) = Len(s)
        /\ 0 \in 0..n /\ j + 0 = j /\ Len(s) \in 0..Len(s) /\ j \in 0..Len(s)
    BY <1>7, <1>8, <1>9
  <2>2. Part(wire, 0, n) = Part(s, j + 0, j + n)
    BY <1>7, <2>1, PartOfPart
  <2>3. Part(wire, n, Len(s) - j) = Part(s, j + n, j + (Len(s) - j))
    BY <1>7, <2>1, PartOfPart
  <2>4. chunk = Part(wire, 0, n)
    BY DEF Part
  <2>5. wire' = Part(wire, n, Len(s) - j)
    BY <1>5, <1>8 DEF Part
  <2> QED BY <1>8, <1>9, <2>1, <2>2, <2>3, <2>4, <2>5
<1> HIDE DEF chunk, r
(* Where the parser is once the buffer has been cleared, or was not. *)
<1> DEFINE from == IF Cleared THEN j ELSE i
<1>11. Extended(chunk) = Part(s, from, r)
  <2>1. CASE Cleared
    <3>1. Extended(chunk) = chunk
      BY <1>3, <2>1, ConcatEmptySeq DEF Extended
    <3> QED BY <1>10, <2>1, <3>1
  <2>2. CASE ~Cleared
    <3>1. Extended(chunk) = Part(s, i, j) \o Part(s, j, r)
      BY <1>7, <1>10, <2>2 DEF Extended
    <3>2. r \in 0..Len(s) /\ j \in 0..r /\ i \in 0..j
      BY <1>8, <1>10
    <3>3. Part(s, i, j) \o Part(s, j, r) = Part(s, i, r)
      BY <1>7, <3>2, PartsJoin
    <3> QED BY <2>2, <3>1, <3>3
  <2> QED BY <2>1, <2>2
<1>12. from \in Nat /\ from <= r /\ r \in from..Len(s)
  BY <1>7, <1>8, <1>10
<1>13. \/ from <= a /\ r - from <= BufferLimit + MaxChunk
       \/ \E m \in marks : NextMark(kind, s, marks, a, from, m)
  <2>1. CASE Cleared /\ j <= a
    <3>1. r - j <= BufferLimit + MaxChunk
      BY <1>2, <1>8, <1>9 DEF r
    <3> QED BY <2>1, <3>1
  <2>2. CASE Cleared /\ ~(j <= a) /\ i <= a
    <3>1. j \in a..Len(s) /\ j <= a + BufferLimit + MaxChunk
      BY <1>2, <1>7, <1>8, <2>2
    <3>2. \E m \in marks : NextMark(kind, s, marks, a, j, m)
      BY <1>2, <1>7, <3>1, MarkIsNext
    <3> QED BY <2>2, <3>2
  <2>3. CASE ~Cleared /\ i <= a
    <3>1. j - i <= BufferLimit
      BY <1>2, <1>8, <2>3 DEF Cleared
    <3>2. r - i <= BufferLimit + MaxChunk
      BY <1>2, <1>8, <1>9, <3>1 DEF r
    <3> QED BY <2>3, <3>2
  <2>4. CASE ~(i <= a)
    <3>1. PICK m \in marks : /\ NextMark(kind, s, marks, a, i, m)
                             /\ m # Len(s) => \E e \in marks : PacketAt(kind, s, m, e) /\ j < e
      BY <1>7, <2>4 DEF Waiting
    <3>2. PICK h \in GoodBytes(kind) : m - i < Len(h)
      BY <3>1 DEF NextMark
    <3>3. /\ m \in 0..Len(s) /\ Len(h) \in Nat \ {0}
          /\ \A g \in GoodBytes(kind) : Len(g) \in Nat \ {0} /\ Len(g) + Len(h) <= BufferLimit + 2
      BY <1>2, <1>7, GoodBytesTyped DEF GoodFrom
    <3>4. Len(buffer) <= BufferLimit
      <4>1. CASE m = Len(s)
        <5>1. Len(h) + Len(h) <= BufferLimit + 2
          BY <3>3
        <5> QED BY <1>2, <1>8, <3>2, <3>3, <4>1, <5>1
      <4>2. CASE m # Len(s)
        <5>1. PICK e \in marks : PacketAt(kind, s, m, e) /\ j < e
          BY <3>1, <4>2
        <5>2. e \in 0..Len(s) /\ m \in 0..e
          BY <1>7, <3>3, <5>1 DEF PacketAt, GoodFrom
        <5>3. Part(s, m, e) \in GoodBytes(kind) /\ Len(Part(s, m, e)) = e - m
          BY <1>7, <5>1, <5>2, PartTyped DEF PacketAt
        <5>4. (e - m) + Len(h) <= BufferLimit + 2
          BY <3>3, <5>3
        <5> QED BY <1>2, <1>8, <3>2, <3>3, <5>1, <5>2, <5>4
      <4> QED BY <4>1, <4>2
    <3>5. ~Cleared
      BY <1>2, <1>8, <3>4 DEF Cleared
    <3> QED BY <3>1, <3>5
  <2> QED BY <2>1, <2>2, <2>3, <2>4
<1> HIDE DEF from
<1>14. PICK x \in from..r : /\ parsed.rest = Part(s, x, r)
                            /\ x <= a \/ Waiting(kind, s, marks, a, x, r)
  <2>1. CASE from <= a /\ r - from <= BufferLimit + MaxChunk
    <3>1. from \in 0..a
      BY <1>7, <1>12, <2>1
    <3> QED BY <1>2, <1>5, <1>7, <1>11, <1>12, <2>1, <3>1, ParsedAhead
  <2>2. CASE \E m \in marks : NextMark(kind, s, marks, a, from, m)
    <3>1. from \in from..r
      BY <1>7, <1>12
    <3>2. PICK m \in marks : NextMark(kind, s, marks, a, from, m)
      BY <2>2
    <3>3. parsed.rest = Part(s, from, r) /\ Waiting(kind, s, marks, a, from, r)
      BY <1>2, <1>5, <1>7, <1>11, <1>12, <3>2, MarkReached
    <3> QED BY <3>1, <3>3
  <2> QED BY <1>13, <2>1, <2>2
<1>15. LineSeen(s, marks, a, x, r)'
  <2>1. x \in Nat /\ r \in x..Len(s)
    BY <1>12
  <2>2. \E w \in GoodBytes(kind) : /\ \A h \in GoodBytes(kind) : Len(w) <= Len(h)
                                   /\ good * Len(w) <= Len(s) - a
    BY <1>6 DEF LineSeen
  <2> QED BY <1>5, <1>7, <1>10, <1>14, <2>1, <2>2 DEF LineSeen
<1> QED BY <1>15

(* From the start, and with every step. *)
LEMMA InductiveRecovering == Spec => []Recovering
<1>1. Init => Recovering
  BY DEF Init, Recovering
<1>2. IInv /\ Recovering /\ [Next]_vars => Recovering'
  <2> SUFFICES ASSUME IInv, Recovering, [Next]_vars PROVE Recovering' OBVIOUS
  <2>1. CASE UNCHANGED vars
    <3>1. /\ kind' = kind /\ good' = good /\ recovered' = recovered
          /\ buffer' = buffer /\ wire' = wire
      BY <2>1 DEF vars
    <3> QED BY <3>1 DEF Recovering, LineSeen
  <2>2. CASE SendFragment
    <3>1. good' = 0
      BY <2>2 DEF SendFragment
    <3> QED BY <3>1 DEF Recovering
  <2> QED BY <2>1, <2>2, SentRecovering, ReceivedRecovering DEF Next
<1> QED BY <1>1, <1>2, Inductive, PTL DEF Spec

(* Whatever came before, noise that promises a packet longer than the      *)
(* buffer included: when so many good packets have been sent and read,     *)
(* values have been inserted, and meanwhile the buffer was bounded         *)
(* (parser.h:50-52, xsens_impl.h:497-552, ublox_impl.h:462-512).  For      *)
(* devices that send packets; how soon lines of text are read again is     *)
(* left to TLC.                                                            *)
THEOREM ParserRecovers == Spec => [](kind # "regex" => Recovers)
<1>1. IInv /\ Recovering => (kind # "regex" => Recovers)
  <2> SUFFICES ASSUME IInv, Recovering, kind # "regex",
                      good = RecoveryPackets[kind], wire = <<>>, ~recovered
               PROVE  FALSE
    BY DEF Recovers, IInv
  <2>1. /\ kind \in Kinds \ {"regex"} /\ good \in Nat \ {0}
        /\ BufferLimit \in Nat /\ MaxChunk \in Nat /\ Len(buffer) <= BufferLimit + MaxChunk
    BY PacketsAssumption DEF IInv, Typed, BufferBounded
  <2>2. PICK s, marks, a, i, j : LineSeen(s, marks, a, i, j)
    <3>1. good > 0
      BY <2>1
    <3> QED BY <3>1 DEF Recovering
  <2>3. /\ GoodFrom(kind, s, marks, a) /\ i \in Nat /\ j \in i..Len(s)
        /\ buffer = Part(s, i, j) /\ wire = Part(s, j, Len(s))
        /\ i <= a \/ Waiting(kind, s, marks, a, i, j)
        /\ s \in Seq(Byte) /\ a \in 0..Len(s) /\ Len(s) \in Nat
    BY <2>2 DEF LineSeen, GoodFrom
  <2>4. Len(buffer) = j - i /\ j = Len(s)
    <3>1. i \in 0..j /\ j \in 0..Len(s) /\ Len(s) \in 0..Len(s)
      BY <2>3
    <3>2. Len(buffer) = j - i /\ Len(wire) = Len(s) - j
      BY <2>3, <3>1, PartTyped
    <3>3. Len(wire) = 0
      OBVIOUS
    <3> QED BY <2>3, <3>2, <3>3
  <2>5. PICK w \in GoodBytes(kind) : good * Len(w) <= Len(s) - a
    BY <2>2 DEF LineSeen
  <2>6. /\ Len(w) \in Nat \ {0} /\ good * Len(w) \in Nat
        /\ \A h \in GoodBytes(kind) : BufferLimit + MaxChunk + Len(h) <= good * Len(w)
    <3>1. Len(w) \in Nat \ {0}
      BY <2>1, GoodBytesTyped
    <3>2. good * Len(w) \in Nat
      BY <2>1, <3>1, ProductTyped
    <3>3. \A h \in GoodBytes(kind) : BufferLimit + MaxChunk + Len(h) <= RecoveryPackets[kind] * Len(w)
      BY <2>1, RecoveryAssumption DEF GoodBytes
    <3> QED BY <3>1, <3>2, <3>3
  <2>7. CASE i <= a
    <3>1. BufferLimit + MaxChunk + Len(w) <= good * Len(w)
      BY <2>6
    <3> QED BY <2>1, <2>3, <2>4, <2>5, <2>6, <2>7, <3>1
  <2>8. CASE Waiting(kind, s, marks, a, i, j)
    <3>1. PICK m \in marks : /\ NextMark(kind, s, marks, a, i, m)
                             /\ m # Len(s) => \E e \in marks : PacketAt(kind, s, m, e) /\ j < e
      BY <2>8 DEF Waiting
    <3>2. m = Len(s)
      <4> SUFFICES ASSUME NEW e \in marks, j < e PROVE FALSE
        BY <3>1
      <4>1. e \in 0..Len(s)
        BY <2>3 DEF GoodFrom
      <4> QED BY <2>3, <2>4, <4>1
    <3>3. PICK h \in GoodBytes(kind) : m < a + BufferLimit + MaxChunk + Len(h)
      BY <3>1 DEF NextMark
    <3>4. BufferLimit + MaxChunk + Len(h) <= good * Len(w) /\ Len(h) \in Nat
      BY <2>1, <2>6, GoodBytesTyped
    <3> DEFINE total == good * Len(w)
    <3>5. /\ total \in Nat /\ total <= Len(s) - a /\ BufferLimit + MaxChunk + Len(h) <= total
          /\ Len(s) < a + BufferLimit + MaxChunk + Len(h)
      BY <2>5, <2>6, <3>2, <3>3, <3>4
    <3>6. a \in Nat /\ Len(s) \in Nat /\ Len(h) \in Nat
      BY <2>3, <3>4
    <3> HIDE DEF total
    <3> QED BY <2>1, <3>5, <3>6
  <2> QED BY <2>3, <2>7, <2>8
<1> QED BY <1>1, Inductive, InductiveRecovering, PTL
=============================================================================
