-------------------------- MODULE PublishingProofs --------------------------
(***************************************************************************)
(* From a device's bytes to a client's deltas, for any packets, reads,     *)
(* clients and bounds.                                                     *)
(*                                                                         *)
(* A read is taken apart value by value: a lemma says of each kind of      *)
(* packet that its latitude is directly followed by its longitude, others  *)
(* that joining and flattening keep this, and then the states of device    *)
(* and processor between the values are named, so that what the recursive  *)
(* functions of Publishing compute is shown one value at a time.  The      *)
(* inductive invariant IInv adds to the properties that the cache of the   *)
(* processor has no stamp of a later read and that nothing waits for a     *)
(* client that keeps up.                                                   *)
(*                                                                         *)
(* Of the registers it is shown first what scaling and words do to any     *)
(* number, and then, in the same way as above, that what a device knows of *)
(* time and position are numbers (NumbersKept).                            *)
(***************************************************************************)
EXTENDS Publishing, WellFoundedInduction, TLAPS

-----------------------------------------------------------------------------
(* Numbers and sequences.                                                  *)

(* A property that is kept from each number to the next holds up to n. *)
LEMMA UpTo ==
  ASSUME NEW n \in Nat, NEW P, 0 \in P, \A i \in 1..n : i - 1 \in P => i \in P
  PROVE  \A i \in 0..n : i \in P
<1> DEFINE Bad == {i \in 0..n : i \notin P}
<1> SUFFICES ASSUME Bad # {} PROVE FALSE OBVIOUS
<1>1. Bad \in SUBSET Nat /\ \A i \in 0..n : i \notin Bad => i \in P
  OBVIOUS
<1>2. \E m \in Bad : \A i \in Bad : ~(i < m)
  <2> HIDE DEF Bad
  <2>1. PICK m \in Bad : \A i \in Bad : ~(<<i, m>> \in OpToRel(<, Nat))
    BY <1>1, WFMin, NatLessThanWellFounded
  <2>2. \A i \in Bad : ~(i < m)
    BY <1>1, <2>1 DEF OpToRel
  <2> QED BY <2>2
<1> PICK m \in Bad : \A i \in Bad : ~(i < m)
  BY <1>2
<1>3. m # 0 /\ m \in 1..n
  OBVIOUS
<1>4. m - 1 \notin Bad /\ m - 1 \in 0..n
  BY <1>3
<1> QED BY <1>3, <1>4

(* A sequence of whatever kind. *)
IsSeq(s) == Len(s) \in Nat /\ s = [i \in 1..Len(s) |-> s[i]]

Elements(s) == {s[i] : i \in 1..Len(s)}

(* A sequence of a set's elements is one of whatever kind.                 *)
LEMMA SeqIsSeq == ASSUME NEW S, NEW s \in Seq(S) PROVE IsSeq(s)
<1>1. Len(s) \in Nat /\ DOMAIN s = 1..Len(s)
  OBVIOUS
<1>2. s \in [1..Len(s) -> S]
  OBVIOUS
<1> QED BY <1>1, <1>2 DEF IsSeq

(* A sequence of whatever kind is one of its elements.                     *)
LEMMA IsSeqTyped == ASSUME NEW s, IsSeq(s) PROVE s \in Seq(Elements(s))
<1>1. Len(s) \in Nat /\ s = [i \in 1..Len(s) |-> s[i]]
  BY DEF IsSeq
<1>2. s \in [1..Len(s) -> Elements(s)]
  BY <1>1 DEF Elements
<1> HIDE DEF Elements
<1> QED BY <1>1, <1>2

(* A sequence whose elements are in a set is one of that set.              *)
LEMMA WithinSeq ==
  ASSUME NEW S, NEW s, IsSeq(s), \A i \in 1..Len(s) : s[i] \in S
  PROVE  s \in Seq(S)
<1>1. Len(s) \in Nat /\ s = [i \in 1..Len(s) |-> s[i]]
  BY DEF IsSeq
<1>2. s \in [1..Len(s) -> S]
  BY <1>1
<1> QED BY <1>1, <1>2

(* Two sequences put together, element by element.                         *)
LEMMA JoinedIsSeq ==
  ASSUME NEW s, NEW t, IsSeq(s), IsSeq(t)
  PROVE  /\ IsSeq(s \o t)
         /\ Len(s \o t) = Len(s) + Len(t)
         /\ \A i \in 1..Len(s) : (s \o t)[i] = s[i]
         /\ \A i \in 1..Len(t) : (s \o t)[Len(s) + i] = t[i]
<1> DEFINE S == Elements(s) \cup Elements(t)
<1>1. s \in Seq(S) /\ t \in Seq(S)
  <2>1. \A i \in 1..Len(s) : s[i] \in S
    BY DEF Elements
  <2>2. \A i \in 1..Len(t) : t[i] \in S
    BY DEF Elements
  <2> HIDE DEF S
  <2> QED BY <2>1, <2>2, WithinSeq
<1> HIDE DEF S
<1>2. s \o t \in Seq(S)
  BY <1>1
<1>3. IsSeq(s \o t)
  BY <1>2, SeqIsSeq
<1> QED BY <1>1, <1>3

(* A sequence and one more element.                                        *)
LEMMA AppendedIsSeq ==
  ASSUME NEW s, NEW e, IsSeq(s)
  PROVE  /\ IsSeq(Append(s, e))
         /\ Len(Append(s, e)) = Len(s) + 1
         /\ Append(s, e)[Len(s) + 1] = e
         /\ \A i \in 1..Len(s) : Append(s, e)[i] = s[i]
<1> DEFINE S == Elements(s) \cup {e}
<1>1. s \in Seq(S) /\ e \in S
  <2>1. \A i \in 1..Len(s) : s[i] \in S
    BY DEF Elements
  <2> HIDE DEF S
  <2>2. s \in Seq(S)
    BY <2>1, WithinSeq
  <2> QED BY <2>2 DEF S
<1> HIDE DEF S
<1>2. Append(s, e) \in Seq(S)
  BY <1>1
<1>3. IsSeq(Append(s, e))
  BY <1>2, SeqIsSeq
<1> QED BY <1>1, <1>3

(* A function of 1..n is a sequence.                                       *)
LEMMA FunctionIsSeq ==
  ASSUME NEW n \in Nat, NEW f, f = [i \in 1..n |-> f[i]]
  PROVE  IsSeq(f) /\ Len(f) = n /\ DOMAIN f = 1..n
<1> DEFINE S == {f[i] : i \in 1..n}
<1>1. f \in [1..n -> S]
  OBVIOUS
<1> HIDE DEF S
<1>2. f \in Seq(S) /\ Len(f) = n
  BY <1>1
<1> QED BY <1>2, SeqIsSeq

(* The places of a sequence.                                               *)
LEMMA IsSeqDomain == ASSUME NEW s, IsSeq(s) PROVE DOMAIN s = 1..Len(s)
  BY DEF IsSeq

(* What has the empty sequence, those of s and whatever is put together    *)
(* from two that it has, has s flattened.                                  *)
LEMMA FlattenedWithin ==
  ASSUME NEW T, NEW s, IsSeq(s), <<>> \in T, \A i \in 1..Len(s) : s[i] \in T,
         \A t, u \in T : t \o u \in T
  PROVE  FlattenSeq(s) \in T
<1> DEFINE n == Len(s)
           Equation(k, f) == f = [i \in 1..k |-> IF i = 1 THEN s[i] ELSE f[i - 1] \o s[i]]
           P == {k \in 0..n : \E f : Equation(k, f)}
<1>1. n \in Nat
  BY DEF IsSeq
<1> HIDE DEF n
<1>2. 0 \in P
  <2>1. Equation(0, [i \in 1..0 |-> s[i]])
    OBVIOUS
  <2> HIDE DEF Equation
  <2>2. \E f : Equation(0, f)
    BY <2>1
  <2> QED BY <1>1, <2>2
<1>3. ASSUME NEW k \in 1..n, k - 1 \in P
      PROVE  k \in P
  <2>1. PICK f : Equation(k - 1, f)
    BY <1>3
  <2> DEFINE g == [i \in 1..k |-> IF i < k THEN f[i]
                                  ELSE IF i = 1 THEN s[i] ELSE f[i - 1] \o s[i]]
  <2>2. ASSUME NEW i \in 1..k
        PROVE  g[i] = IF i = 1 THEN s[i] ELSE g[i - 1] \o s[i]
    <3>1. i # 1 => i - 1 \in 1..(k - 1) /\ g[i - 1] = f[i - 1]
      BY <1>1
    <3>2. CASE i < k
      <4>1. i \in 1..(k - 1) /\ g[i] = f[i]
        BY <1>1, <3>2
      <4>2. f[i] = IF i = 1 THEN s[i] ELSE f[i - 1] \o s[i]
        BY <2>1, <4>1
      <4> QED BY <3>1, <4>1, <4>2
    <3>3. CASE ~(i < k)
      BY <3>1, <3>3
    <3> QED BY <3>2, <3>3
  <2>3. g = [i \in 1..k |-> g[i]]
    OBVIOUS
  <2> HIDE DEF g
  <2>4. Equation(k, g)
    BY <2>2, <2>3
  <2> HIDE DEF Equation
  <2> QED BY <2>4
<1>4. n \in P
  <2> HIDE DEF P
  <2>1. \A i \in 1..n : i - 1 \in P => i \in P
    BY <1>3
  <2>2. \A i \in 0..n : i \in P
    BY <1>1, <1>2, <2>1, UpTo
  <2> QED BY <1>1, <2>2
<1> DEFINE F == CHOOSE f : Equation(n, f)
<1>5. Equation(n, F)
  BY <1>4
<1>6. n # 0 => FlattenSeq(s) = F[n]
  BY DEF FlattenSeq, n
<1> HIDE DEF F
<1> DEFINE Q == {i \in 0..n : i = 0 \/ F[i] \in T}
<1>7. 0 \in Q
  BY <1>1
<1>8. ASSUME NEW i \in 1..n, i - 1 \in Q
      PROVE  i \in Q
  <2>1. F[i] = IF i = 1 THEN s[i] ELSE F[i - 1] \o s[i]
    BY <1>5
  <2>2. s[i] \in T
    BY DEF n
  <2> QED BY <1>1, <1>8, <2>1, <2>2
<1>9. n \in Q
  <2> HIDE DEF Q
  <2>1. \A i \in 1..n : i - 1 \in Q => i \in Q
    BY <1>8
  <2>2. \A i \in 0..n : i \in Q
    BY <1>1, <1>7, <2>1, UpTo
  <2> QED BY <1>1, <2>2
<1>10. CASE n = 0
  <2>1. s = <<>>
    BY <1>10 DEF IsSeq, n
  <2> QED BY <1>10, <2>1 DEF FlattenSeq, n
<1> QED BY <1>1, <1>6, <1>9, <1>10

-----------------------------------------------------------------------------
(* The values of a read.                                                   *)

(* Latitude and longitude come together, in this order. *)
Paired(s) ==
  /\ IsSeq(s)
  /\ \A i \in 1..Len(s) :
       /\ s[i].quantity \in Quantities
       /\ s[i].quantity = "la" => i + 1 \in 1..Len(s) /\ s[i + 1].quantity = "lo"
       /\ s[i].quantity = "lo" => i - 1 \in 1..Len(s) /\ s[i - 1].quantity = "la"

(* They are of one packet, which is one of those read, and what is put     *)
(* together has the stamp of the read.                                     *)
Stamped(s, stamp, low, high) ==
  \A i \in 1..Len(s) :
    /\ s[i].of \in low..high
    /\ s[i].quantity \in Position \cup Attitude => s[i].stamp = stamp
    /\ s[i].quantity = "la" => s[i + 1].of = s[i].of

(* In a packet of a Ublox these values have no time tag of their own. *)
Untagged(s) ==
  \A i \in 1..Len(s) : s[i].quantity \in Position \cup Attitude => s[i].offset = 0

(* No latitude is parted from its longitude where two sequences meet.      *)
LEMMA PairedJoined ==
  ASSUME NEW s, NEW t, Paired(s), Paired(t)
  PROVE  Paired(s \o t)
<1> DEFINE u == s \o t
<1>1. IsSeq(s) /\ IsSeq(t) /\ Len(s) \in Nat /\ Len(t) \in Nat
  BY DEF Paired, IsSeq
<1>2. /\ IsSeq(u) /\ Len(u) = Len(s) + Len(t)
      /\ \A i \in 1..Len(s) : u[i] = s[i]
      /\ \A i \in 1..Len(t) : u[Len(s) + i] = t[i]
  BY <1>1, JoinedIsSeq
<1> HIDE DEF u
<1>3. ASSUME NEW i \in 1..Len(u)
      PROVE  /\ u[i].quantity \in Quantities
             /\ u[i].quantity = "la" => i + 1 \in 1..Len(u) /\ u[i + 1].quantity = "lo"
             /\ u[i].quantity = "lo" => i - 1 \in 1..Len(u) /\ u[i - 1].quantity = "la"
  <2>1. CASE i \in 1..Len(s)
    <3>1. /\ s[i].quantity \in Quantities
          /\ s[i].quantity = "la" => i + 1 \in 1..Len(s) /\ s[i + 1].quantity = "lo"
          /\ s[i].quantity = "lo" => i - 1 \in 1..Len(s) /\ s[i - 1].quantity = "la"
      BY <2>1 DEF Paired
    <3> QED BY <1>1, <1>2, <2>1, <3>1
  <2>2. CASE i \notin 1..Len(s)
    <3> DEFINE j == i - Len(s)
    <3>1. j \in 1..Len(t) /\ i = Len(s) + j /\ u[i] = t[j]
      BY <1>1, <1>2, <2>2
    <3> HIDE DEF j
    <3>2. /\ t[j].quantity \in Quantities
          /\ t[j].quantity = "la" => j + 1 \in 1..Len(t) /\ t[j + 1].quantity = "lo"
          /\ t[j].quantity = "lo" => j - 1 \in 1..Len(t) /\ t[j - 1].quantity = "la"
      BY <3>1 DEF Paired
    <3>3. /\ j + 1 \in 1..Len(t) => u[i + 1] = t[j + 1] /\ i + 1 \in 1..Len(u)
          /\ j - 1 \in 1..Len(t) => u[i - 1] = t[j - 1] /\ i - 1 \in 1..Len(u)
      <4>1. i + 1 = Len(s) + (j + 1) /\ i - 1 = Len(s) + (j - 1)
        BY <1>1, <3>1
      <4> QED BY <1>1, <1>2, <3>1, <4>1
    <3> QED BY <3>1, <3>2, <3>3
  <2> QED BY <2>1, <2>2
<1>4. Paired(u)
  BY <1>2, <1>3 DEF Paired
<1> QED BY <1>4 DEF u

(* What two sequences have in common of stamp and packets they have when   *)
(* put together.                                                           *)
LEMMA StampedJoined ==
  ASSUME NEW s, NEW t, NEW stamp, NEW low, NEW high, Paired(s), Paired(t),
         Stamped(s, stamp, low, high), Stamped(t, stamp, low, high)
  PROVE  Stamped(s \o t, stamp, low, high)
<1> DEFINE u == s \o t
<1>1. IsSeq(s) /\ IsSeq(t) /\ Len(s) \in Nat /\ Len(t) \in Nat
  BY DEF Paired, IsSeq
<1>2. /\ Len(u) = Len(s) + Len(t)
      /\ \A i \in 1..Len(s) : u[i] = s[i]
      /\ \A i \in 1..Len(t) : u[Len(s) + i] = t[i]
  BY <1>1, JoinedIsSeq
<1> HIDE DEF u
<1>3. ASSUME NEW i \in 1..Len(u)
      PROVE  /\ u[i].of \in low..high
             /\ u[i].quantity \in Position \cup Attitude => u[i].stamp = stamp
             /\ u[i].quantity = "la" => u[i + 1].of = u[i].of
  <2>1. CASE i \in 1..Len(s)
    <3>1. /\ s[i].of \in low..high
          /\ s[i].quantity \in Position \cup Attitude => s[i].stamp = stamp
          /\ s[i].quantity = "la" => s[i + 1].of = s[i].of /\ i + 1 \in 1..Len(s)
      BY <2>1 DEF Stamped, Paired
    <3> QED BY <1>1, <1>2, <2>1, <3>1
  <2>2. CASE i \notin 1..Len(s)
    <3> DEFINE j == i - Len(s)
    <3>1. j \in 1..Len(t) /\ i = Len(s) + j /\ u[i] = t[j]
      BY <1>1, <1>2, <2>2
    <3> HIDE DEF j
    <3>2. /\ t[j].of \in low..high
          /\ t[j].quantity \in Position \cup Attitude => t[j].stamp = stamp
          /\ t[j].quantity = "la" => t[j + 1].of = t[j].of /\ j + 1 \in 1..Len(t)
      BY <3>1 DEF Stamped, Paired
    <3>3. j + 1 \in 1..Len(t) => u[i + 1] = t[j + 1]
      <4>1. i + 1 = Len(s) + (j + 1)
        BY <1>1, <3>1
      <4> QED BY <1>1, <1>2, <3>1, <4>1
    <3> QED BY <3>1, <3>2, <3>3
  <2> QED BY <2>1, <2>2
<1>4. Stamped(u, stamp, low, high)
  BY <1>3 DEF Stamped
<1> QED BY <1>4 DEF u

(* Two sequences without time tags put together have none.                 *)
LEMMA UntaggedJoined ==
  ASSUME NEW s, NEW t, IsSeq(s), IsSeq(t), Untagged(s), Untagged(t)
  PROVE  Untagged(s \o t)
<1> DEFINE u == s \o t
<1>1. Len(s) \in Nat /\ Len(t) \in Nat
  BY DEF IsSeq
<1>2. /\ Len(u) = Len(s) + Len(t)
      /\ \A i \in 1..Len(s) : u[i] = s[i]
      /\ \A i \in 1..Len(t) : u[Len(s) + i] = t[i]
  BY JoinedIsSeq
<1> HIDE DEF u
<1>3. ASSUME NEW i \in 1..Len(u), u[i].quantity \in Position \cup Attitude
      PROVE  u[i].offset = 0
  <2>1. CASE i \in 1..Len(s)
    BY <1>2, <1>3, <2>1 DEF Untagged
  <2>2. CASE i \notin 1..Len(s)
    <3> DEFINE j == i - Len(s)
    <3>1. j \in 1..Len(t) /\ u[i] = t[j]
      <4>1. j \in 1..Len(t) /\ i = Len(s) + j
        BY <1>1, <1>2, <2>2
      <4> QED BY <1>2, <4>1
    <3> HIDE DEF j
    <3> QED BY <1>3, <3>1 DEF Untagged
  <2> QED BY <2>1, <2>2
<1>4. Untagged(u)
  BY <1>3 DEF Untagged
<1> QED BY <1>4 DEF u

(* Joined sequences, of whatever elements. *)
AllElements(s) == UNION {Elements(s[i]) : i \in 1..Len(s)}

(* A sequence in a sequence of them has elements of it.                    *)
LEMMA ElementsTyped ==
  ASSUME NEW s, IsSeq(s), NEW i \in 1..Len(s), IsSeq(s[i])
  PROVE  s[i] \in Seq(AllElements(s))
<1>1. \A j \in 1..Len(s[i]) : s[i][j] \in AllElements(s)
  BY DEF AllElements, Elements
<1> HIDE DEF AllElements
<1> QED BY <1>1, WithinSeq

(* Pairs stay pairs in a sequence of sequences put together.               *)
LEMMA PairedFlattened ==
  ASSUME NEW s, IsSeq(s), \A i \in 1..Len(s) : Paired(s[i])
  PROVE  Paired(FlattenSeq(s))
<1> DEFINE T == {t \in Seq(AllElements(s)) : Paired(t)}
<1>1. <<>> \in T
  <2>1. Paired(<<>>)
    BY DEF Paired, IsSeq
  <2> QED BY <2>1
<1>2. \A i \in 1..Len(s) : s[i] \in T
  BY ElementsTyped DEF Paired
<1>3. \A t, u \in T : t \o u \in T
  BY PairedJoined
<1>4. FlattenSeq(s) \in T
  <2> HIDE DEF T
  <2> QED BY <1>1, <1>2, <1>3, FlattenedWithin
<1> QED BY <1>4

(* So do stamps and packets.                                               *)
LEMMA StampedFlattened ==
  ASSUME NEW s, IsSeq(s), NEW stamp, NEW low, NEW high,
         \A i \in 1..Len(s) : Paired(s[i]) /\ Stamped(s[i], stamp, low, high)
  PROVE  Stamped(FlattenSeq(s), stamp, low, high)
<1> DEFINE T == {t \in Seq(AllElements(s)) : Paired(t) /\ Stamped(t, stamp, low, high)}
<1>1. <<>> \in T
  <2>1. Paired(<<>>) /\ Stamped(<<>>, stamp, low, high)
    BY DEF Paired, IsSeq, Stamped
  <2> QED BY <2>1
<1>2. \A i \in 1..Len(s) : s[i] \in T
  BY ElementsTyped DEF Paired
<1>3. \A t, u \in T : t \o u \in T
  BY PairedJoined, StampedJoined
<1>4. FlattenSeq(s) \in T
  <2> HIDE DEF T
  <2> QED BY <1>1, <1>2, <1>3, FlattenedWithin
<1> QED BY <1>4

(* And there is no time tag where none was.                                *)
LEMMA UntaggedFlattened ==
  ASSUME NEW s, IsSeq(s), \A i \in 1..Len(s) : IsSeq(s[i]) /\ Untagged(s[i])
  PROVE  Untagged(FlattenSeq(s))
<1> DEFINE T == {t \in Seq(AllElements(s)) : IsSeq(t) /\ Untagged(t)}
<1>1. <<>> \in T
  <2>1. IsSeq(<<>>) /\ Untagged(<<>>)
    BY DEF IsSeq, Untagged
  <2> QED BY <2>1
<1>2. \A i \in 1..Len(s) : s[i] \in T
  BY ElementsTyped
<1>3. \A t, u \in T : t \o u \in T
  BY UntaggedJoined, JoinedIsSeq
<1>4. FlattenSeq(s) \in T
  <2> HIDE DEF T
  <2> QED BY <1>1, <1>2, <1>3, FlattenedWithin
<1> QED BY <1>4

-----------------------------------------------------------------------------
(* What the packets of a Ublox give.                                       *)

(* The quantities that the packets of a Ublox give are quantities.         *)
LEMMA UbloxQuantities ==
  {"ut", "la", "lo", "hacc", "hg84", "hmsl", "vacc", "vog", "crs", "sacc", "cacc", "hdg",
   "hdac", "ro", "pi", "ya", "racc", "pacc", "yacc", "rr", "pr", "yr", "fax", "fay",
   "faz", "ryr", "gtmp", "rpr", "rrr", "rax", "ray", "raz"} \subseteq Quantities
<1>1. DOMAIN Quantity = 1..78
  BY DEF Quantity
<1>2. \A i \in 1..78 : Quantity[i] \in Quantities
  BY <1>1 DEF Quantities
<1>3. /\ Quantity[1] = "ut" /\ Quantity[2] = "la" /\ Quantity[3] = "lo"
      /\ Quantity[37] = "hacc" /\ Quantity[4] = "hg84" /\ Quantity[5] = "hmsl"
      /\ Quantity[38] = "vacc" /\ Quantity[6] = "vog" /\ Quantity[9] = "crs"
      /\ Quantity[39] = "sacc" /\ Quantity[40] = "cacc" /\ Quantity[8] = "hdg"
      /\ Quantity[44] = "hdac" /\ Quantity[23] = "ro" /\ Quantity[24] = "pi"
      /\ Quantity[25] = "ya" /\ Quantity[41] = "racc" /\ Quantity[42] = "pacc"
      /\ Quantity[43] = "yacc" /\ Quantity[30] = "rr" /\ Quantity[31] = "pr"
      /\ Quantity[32] = "yr" /\ Quantity[33] = "fax" /\ Quantity[34] = "fay"
      /\ Quantity[35] = "faz" /\ Quantity[50] = "ryr" /\ Quantity[54] = "gtmp"
      /\ Quantity[49] = "rpr" /\ Quantity[48] = "rrr" /\ Quantity[45] = "rax"
      /\ Quantity[46] = "ray" /\ Quantity[47] = "raz"
  BY DEF Quantity
<1> QED BY <1>2, <1>3

(* Nothing to be put together. *)
LEMMA PlainValues ==
  ASSUME NEW s, IsSeq(s),
         \A i \in 1..Len(s) : s[i].quantity \in Quantities \ (Position \cup Attitude)
  PROVE  Paired(s) /\ Untagged(s)
  BY DEF Paired, Untagged, Position, Attitude

(* Flattening keeps both what is asked of the values of a Ublox packet.    *)
LEMMA PlainFlattened ==
  ASSUME NEW s, IsSeq(s), \A i \in 1..Len(s) : Paired(s[i]) /\ Untagged(s[i])
  PROVE  Paired(FlattenSeq(s)) /\ Untagged(FlattenSeq(s))
  BY PairedFlattened, UntaggedFlattened DEF Paired

(* Of no values both hold.                                                 *)
LEMMA PairedEmpty == Paired(<<>>) /\ Untagged(<<>>)
  BY DEF Paired, Untagged, IsSeq

(* Joining keeps both.                                                     *)
LEMMA BothJoined ==
  ASSUME NEW s, NEW t, Paired(s) /\ Untagged(s), Paired(t) /\ Untagged(t)
  PROVE  Paired(s \o t) /\ Untagged(s \o t)
<1>1. IsSeq(s) /\ IsSeq(t)
  BY DEF Paired
<1> QED BY <1>1, PairedJoined, UntaggedJoined

(* So does giving values only under a condition.                           *)
LEMMA WhenPaired ==
  ASSUME NEW condition, NEW s, condition => Paired(s) /\ Untagged(s)
  PROVE  Paired(When(condition, s)) /\ Untagged(When(condition, s))
  BY PairedEmpty DEF When

(* A navigation packet gives latitude and longitude together or not at     *)
(* all (ublox_impl.h:154-189).                                             *)
LEMMA PvtPaired == ASSUME NEW p PROVE Paired(Pvt(p)) /\ Untagged(Pvt(p))
<1> DEFINE fix == p.fixtype \in {fixtype_2d, fixtype_3d, fixtype_3d_deadreck}
           a == When(p.valid_full, <<Value("ut", p.time)>>)
           b == When(fix, PositionHorizontal(p))
           c == When(fix /\ p.fixtype # fixtype_2d, PositionVertical(p))
           d == When(p.headveh_valid, Velocity(p))
<1>1. Paired(a) /\ Untagged(a)
  <2> DEFINE s == <<Value("ut", p.time)>>
  <2>1. IsSeq(s) /\ Len(s) = 1 /\ s[1].quantity = "ut"
    BY DEF IsSeq, Value
  <2> HIDE DEF s
  <2>2. Paired(s) /\ Untagged(s)
    BY <2>1, PlainValues, UbloxQuantities DEF Position, Attitude
  <2> HIDE DEF fix
  <2> QED BY <2>2, WhenPaired DEF s
<1>2. Paired(b) /\ Untagged(b)
  <2> DEFINE s == PositionHorizontal(p)
  <2>1. /\ IsSeq(s) /\ Len(s) = 3
        /\ s[1].quantity = "la" /\ s[2].quantity = "lo" /\ s[3].quantity = "hacc"
        /\ s[1].offset = 0 /\ s[2].offset = 0 /\ s[3].offset = 0
    BY DEF IsSeq, PositionHorizontal, Value
  <2> HIDE DEF s
  <2>2. Paired(s) /\ Untagged(s)
    BY <2>1, UbloxQuantities DEF Paired, Untagged, Position, Attitude
  <2> HIDE DEF fix
  <2> QED BY <2>2, WhenPaired DEF s
<1>3. Paired(c) /\ Untagged(c)
  <2> DEFINE s == PositionVertical(p)
  <2>1. /\ IsSeq(s) /\ Len(s) = 3
        /\ s[1].quantity = "hg84" /\ s[2].quantity = "hmsl" /\ s[3].quantity = "vacc"
    BY DEF IsSeq, PositionVertical, Values, Value
  <2> HIDE DEF s
  <2>2. Paired(s) /\ Untagged(s)
    BY <2>1, PlainValues, UbloxQuantities DEF Position, Attitude
  <2> HIDE DEF fix
  <2> QED BY <2>2, WhenPaired DEF s
<1>4. Paired(d) /\ Untagged(d)
  <2> DEFINE s == Velocity(p)
  <2>1. /\ IsSeq(s) /\ Len(s) = 6
        /\ s[1].quantity = "vog" /\ s[2].quantity = "crs" /\ s[3].quantity = "sacc"
        /\ s[4].quantity = "cacc" /\ s[5].quantity = "hdg" /\ s[6].quantity = "hdac"
    BY DEF IsSeq, Velocity, Values, Value
  <2> HIDE DEF s
  <2>2. Paired(s) /\ Untagged(s)
    BY <2>1, PlainValues, UbloxQuantities DEF Position, Attitude
  <2> HIDE DEF fix
  <2> QED BY <2>2, WhenPaired DEF s
<1>5. Pvt(p) = ((a \o b) \o c) \o d
  BY DEF Pvt
<1> HIDE DEF a, b, c, d
<1> DEFINE ab == a \o b
           abc == ab \o c
<1>6. Paired(ab) /\ Untagged(ab)
  BY <1>1, <1>2, BothJoined
<1>7. Paired(abc) /\ Untagged(abc)
  <2> HIDE DEF ab
  <2> QED BY <1>3, <1>6, BothJoined
<1>8. Paired(abc \o d) /\ Untagged(abc \o d)
  <2> HIDE DEF abc
  <2> QED BY <1>4, <1>7, BothJoined
<1> QED BY <1>5, <1>8

(* An angle gives at most itself and its accuracy.                         *)
LEMMA AnglePaired ==
  ASSUME NEW q \in Attitude, NEW acc \in {"racc", "pacc", "yacc"},
         NEW figure, NEW accuracy, NEW limit
  PROVE  /\ Paired(Angle(q, acc, figure, accuracy, limit))
         /\ Untagged(Angle(q, acc, figure, accuracy, limit))
<1> DEFINE s == <<Value(q, figure), Value(acc, accuracy)>>
<1>1. /\ IsSeq(s) /\ Len(s) = 2 /\ s[1].quantity = q /\ s[2].quantity = acc
      /\ s[1].offset = 0 /\ s[2].offset = 0
  BY DEF IsSeq, Value
<1> HIDE DEF s
<1>2. Paired(s) /\ Untagged(s)
  BY <1>1, UbloxQuantities DEF Paired, Untagged, Attitude
<1> DEFINE condition == accuracy # 0 /\ accuracy < limit
<1>3. Angle(q, acc, figure, accuracy, limit) = When(condition, s)
  BY DEF Angle, s
<1> HIDE DEF condition
<1> QED BY <1>2, <1>3, WhenPaired

(* An attitude packet gives no position.                                   *)
LEMMA AttPaired == ASSUME NEW p PROVE Paired(Att(p)) /\ Untagged(Att(p))
<1> DEFINE a == Angle("ro", "racc", p.figure, p.accroll, 5)
           b == Angle("pi", "pacc", p.figure, p.accpitch, 5)
           c == Angle("ya", "yacc", p.figure, p.accheading, 10)
<1>1. /\ Paired(a) /\ Paired(b) /\ Paired(c)
      /\ Untagged(a) /\ Untagged(b) /\ Untagged(c)
  BY AnglePaired DEF Attitude
<1>2. Att(p) = (a \o b) \o c
  BY DEF Att
<1> HIDE DEF a, b, c
<1> DEFINE ab == a \o b
<1>3. Paired(ab) /\ Untagged(ab)
  BY <1>1, BothJoined
<1>4. Paired(ab \o c) /\ Untagged(ab \o c)
  <2> HIDE DEF ab
  <2> QED BY <1>1, <1>3, BothJoined
<1> QED BY <1>2, <1>4

(* Neither does one of the inertial sensors.                               *)
LEMMA InsPaired == ASSUME NEW p PROVE Paired(Ins(p)) /\ Untagged(Ins(p))
<1> DEFINE s == [i \in DOMAIN Axes |-> When(Axes[i] \in p.valid, <<Value(Axes[i], p.figure)>>)]
<1>1. /\ DOMAIN Axes = 1..6
      /\ \A i \in 1..6 : Axes[i] \in {"rr", "pr", "yr", "fax", "fay", "faz"}
  BY DEF Axes
<1>2. IsSeq(s) /\ Len(s) = 6
  <2>1. s = [i \in 1..6 |-> s[i]]
    BY <1>1
  <2> HIDE DEF s
  <2> QED BY <2>1, FunctionIsSeq
<1>3. ASSUME NEW i \in 1..6 PROVE Paired(s[i]) /\ Untagged(s[i])
  <2> DEFINE v == <<Value(Axes[i], p.figure)>>
             condition == Axes[i] \in p.valid
  <2>1. IsSeq(v) /\ Len(v) = 1 /\ v[1].quantity = Axes[i]
    BY DEF IsSeq, Value
  <2>2. s[i] = When(condition, v)
    BY <1>1
  <2> HIDE DEF v, condition, s
  <2>3. Paired(v) /\ Untagged(v)
    BY <1>1, <2>1, PlainValues, UbloxQuantities DEF Position, Attitude
  <2> QED BY <2>2, <2>3, WhenPaired
<1>4. Ins(p) = FlattenSeq(s)
  BY DEF Ins
<1> HIDE DEF s
<1> QED BY <1>2, <1>3, <1>4, PlainFlattened

(* Raw measurements have a time tag each, but none of them is of a         *)
(* position or an attitude.                                                *)
LEMMA RawPaired ==
  ASSUME NEW p, p.sensor_data \in Seq(Measurements)
  PROVE  Paired(Raw(p)) /\ Untagged(Raw(p))
<1> DEFINE reftag == Last(p.sensor_data).stag
           s == [i \in DOMAIN p.sensor_data |-> SensorData(p.sensor_data[i], reftag, p.figure)]
           n == Len(p.sensor_data)
<1>1. n \in Nat /\ DOMAIN p.sensor_data = 1..n
  OBVIOUS
<1>2. Raw(p) = IF p.sensor_data = <<>> THEN <<>> ELSE FlattenSeq(s)
  BY DEF Raw
<1> HIDE DEF reftag, n
<1>3. IsSeq(s) /\ Len(s) = n
  <2>1. s = [i \in 1..n |-> s[i]]
    BY <1>1
  <2> HIDE DEF s
  <2> QED BY <1>1, <2>1, FunctionIsSeq
<1>4. ASSUME NEW i \in 1..n PROVE Paired(s[i]) /\ Untagged(s[i])
  <2> DEFINE d == p.sensor_data[i]
             v == <<[Value(d.type, p.figure) EXCEPT !.offset = d.stag - reftag]>>
             condition == d.type \in DataTypes /\ reftag >= d.stag
  <2>1. IsSeq(v) /\ Len(v) = 1 /\ v[1].quantity = d.type
    BY DEF IsSeq, Value
  <2>2. s[i] = When(condition, v)
    BY <1>1 DEF SensorData
  <2> HIDE DEF v, s
  <2>3. condition => Paired(v) /\ Untagged(v)
    <3> HAVE condition
    <3>1. d.type \in Quantities \ (Position \cup Attitude)
      BY UbloxQuantities DEF DataTypes, Position, Attitude
    <3> HIDE DEF d
    <3> QED BY <2>1, <3>1, PlainValues
  <2> HIDE DEF condition
  <2> QED BY <2>2, <2>3, WhenPaired
<1> HIDE DEF s
<1>5. Paired(FlattenSeq(s)) /\ Untagged(FlattenSeq(s))
  BY <1>3, <1>4, PlainFlattened
<1> QED BY <1>2, <1>5, PairedEmpty

(* So for each packet of a Ublox.                                          *)
LEMMA UbloxPaired ==
  ASSUME NEW p, p.payload = "raw" => p.sensor_data \in Seq(Measurements)
  PROVE  Paired(get_values(p)) /\ Untagged(get_values(p))
<1>1. CASE p.payload = "pvt"
  <2>1. get_values(p) = Pvt(p)
    BY <1>1 DEF get_values
  <2> QED BY <2>1, PvtPaired
<1>2. CASE p.payload = "att"
  <2>1. get_values(p) = Att(p)
    BY <1>2 DEF get_values
  <2> QED BY <2>1, AttPaired
<1>3. CASE p.payload = "ins"
  <2>1. get_values(p) = Ins(p)
    BY <1>3 DEF get_values
  <2> QED BY <2>1, InsPaired
<1>4. CASE p.payload = "raw"
  <2>1. get_values(p) = Raw(p)
    BY <1>4 DEF get_values
  <2> QED BY <1>4, <2>1, RawPaired
<1>5. CASE p.payload \notin {"pvt", "att", "ins", "raw"}
  <2>1. get_values(p) = <<>>
    BY <1>5 DEF get_values
  <2> QED BY <2>1, PairedEmpty
<1> QED BY <1>1, <1>2, <1>3, <1>4, <1>5

(* Visited and parsed. *)
LEMMA UbloxVisited ==
  ASSUME NEW p, p.payload = "raw" => p.sensor_data \in Seq(Measurements),
         NEW stamp \in Int, NEW number
  PROVE  /\ Paired(Visited(p, stamp, number))
         /\ \A low, high \in Nat :
              number \in low..high => Stamped(Visited(p, stamp, number), stamp, low, high)
<1> DEFINE values == get_values(p)
           s == Visited(p, stamp, number)
<1>1. Paired(values) /\ Untagged(values)
  BY UbloxPaired
<1>2. IsSeq(values) /\ Len(values) \in Nat /\ DOMAIN values = 1..Len(values)
  BY <1>1, IsSeqDomain DEF Paired, IsSeq
<1>3. s = [i \in 1..Len(values) |->
             [quantity |-> values[i].quantity, value |-> values[i].value,
              stamp |-> stamp + values[i].offset, of |-> number]]
  BY <1>2 DEF Visited
<1> HIDE DEF values, s
<1>4. IsSeq(s) /\ Len(s) = Len(values)
  <2>1. s = [i \in 1..Len(values) |-> s[i]]
    BY <1>3
  <2> QED BY <1>2, <2>1, FunctionIsSeq
<1>5. \A i \in 1..Len(values) :
        /\ s[i].quantity = values[i].quantity
        /\ s[i].stamp = stamp + values[i].offset
        /\ s[i].of = number
  BY <1>3
<1>6. Paired(s)
  BY <1>1, <1>2, <1>4, <1>5 DEF Paired
<1>7. \A low, high \in Nat : number \in low..high => Stamped(s, stamp, low, high)
  <2> TAKE low, high \in Nat
  <2> HAVE number \in low..high
  <2> SUFFICES ASSUME NEW i \in 1..Len(s)
               PROVE  /\ s[i].of \in low..high
                      /\ s[i].quantity \in Position \cup Attitude => s[i].stamp = stamp
                      /\ s[i].quantity = "la" => s[i + 1].of = s[i].of
    BY DEF Stamped
  <2>1. s[i].quantity \in Position \cup Attitude => s[i].stamp = stamp
    BY <1>1, <1>4, <1>5 DEF Untagged
  <2>2. s[i].quantity = "la" => i + 1 \in 1..Len(s)
    BY <1>6 DEF Paired
  <2> QED BY <1>4, <1>5, <2>1, <2>2
<1> QED BY <1>6, <1>7 DEF s

(* And for those of a read, numbered from the one after those already      *)
(* read.                                                                   *)
LEMMA UbloxParsed ==
  ASSUME NEW ps, IsSeq(ps),
         \A i \in 1..Len(ps) :
           ps[i].payload = "raw" => ps[i].sensor_data \in Seq(Measurements),
         NEW stamp \in Int, NEW number \in Nat
  PROVE  /\ Paired(Parsed(ps, stamp, number))
         /\ Stamped(Parsed(ps, stamp, number), stamp, number + 1, number + Len(ps))
<1> DEFINE s == [i \in DOMAIN ps |-> Visited(ps[i], stamp, number + i)]
<1>1. DOMAIN ps = 1..Len(ps) /\ Len(ps) \in Nat
  BY IsSeqDomain DEF IsSeq
<1>2. IsSeq(s) /\ Len(s) = Len(ps)
  <2>1. s = [i \in 1..Len(ps) |-> s[i]]
    BY <1>1
  <2> HIDE DEF s
  <2> QED BY <1>1, <2>1, FunctionIsSeq
<1>3. ASSUME NEW i \in 1..Len(s)
      PROVE  Paired(s[i]) /\ Stamped(s[i], stamp, number + 1, number + Len(ps))
  <2>1. s[i] = Visited(ps[i], stamp, number + i) /\ i \in 1..Len(ps)
    BY <1>1, <1>2
  <2>2. number + i \in (number + 1)..(number + Len(ps))
    BY <1>1, <2>1
  <2>3. number + 1 \in Nat /\ number + Len(ps) \in Nat
    BY <1>1
  <2> HIDE DEF s
  <2> QED BY <2>1, <2>2, <2>3, UbloxVisited
<1>4. Parsed(ps, stamp, number) = FlattenSeq(s)
  BY DEF Parsed
<1> HIDE DEF s
<1> QED BY <1>2, <1>3, <1>4, PairedFlattened, StampedFlattened

-----------------------------------------------------------------------------
(* What the messages of an Xsens give.                                     *)

(* The places of the quantities that data begins with. *)
LEMMA OnePlace ==
  ASSUME NEW i \in 1..78
  PROVE  /\ Quantity[i] = "la" => i = 2
         /\ Quantity[i] = "lo" => i = 3
         /\ Quantity[i] = "ax" => i = 20
         /\ Quantity[i] = "fax" => i = 33
         /\ Quantity[i] = "rr" => i = 30
         /\ Quantity[i] = "mx" => i = 11
         /\ Quantity[i] = "vx" => i = 17
         /\ Quantity[i] = "hg84" => i = 4
         /\ Quantity[i] = "hmsl" => i = 5
         /\ Quantity[i] = "ro" => i = 23
         /\ Quantity[i] = "q1" => i = 26
<1>1. Quantity[i] = "la" => i = 2
  BY SMTT(60) DEF Quantity
<1>2. Quantity[i] = "lo" => i = 3
  BY SMTT(60) DEF Quantity
<1>3. Quantity[i] = "ax" => i = 20
  BY SMTT(60) DEF Quantity
<1>4. Quantity[i] = "fax" => i = 33
  BY SMTT(60) DEF Quantity
<1>5. Quantity[i] = "rr" => i = 30
  BY SMTT(60) DEF Quantity
<1>6. Quantity[i] = "mx" => i = 11
  BY SMTT(60) DEF Quantity
<1>7. Quantity[i] = "vx" => i = 17
  BY SMTT(60) DEF Quantity
<1>8. Quantity[i] = "hg84" => i = 4
  BY SMTT(60) DEF Quantity
<1>9. Quantity[i] = "hmsl" => i = 5
  BY SMTT(60) DEF Quantity
<1>10. Quantity[i] = "ro" => i = 23
  BY SMTT(60) DEF Quantity
<1>11. Quantity[i] = "q1" => i = 26
  BY SMTT(60) DEF Quantity
<1> QED
  BY <1>1, <1>2, <1>3, <1>4, <1>5, <1>6, <1>7, <1>8, <1>9, <1>10, <1>11

(* What stands at these places.                                            *)
LEMMA QuantityPlaces ==
  /\ DOMAIN Quantity = 1..78
  /\ Quantity[2] = "la" /\ Quantity[3] = "lo" /\ Quantity[20] = "ax" /\ Quantity[33] = "fax"
  /\ Quantity[30] = "rr" /\ Quantity[11] = "mx" /\ Quantity[17] = "vx"
  /\ Quantity[4] = "hg84" /\ Quantity[5] = "hmsl" /\ Quantity[23] = "ro"
  /\ Quantity[26] = "q1"
  BY DEF Quantity

(* The number of a quantity, when it has one place. *)
Place(q) == Xsens!AntiFunction(Quantity)[q]

(* A quantity that has one place is found there.                           *)
LEMMA PlaceFound ==
  ASSUME NEW q, NEW k \in 1..78, Quantity[k] = q,
         \A i \in 1..78 : Quantity[i] = q => i = k
  PROVE  Place(q) = k
<1>1. DOMAIN Quantity = 1..78
  BY QuantityPlaces
<1>2. q \in Xsens!Range(Quantity)
  BY <1>1 DEF Xsens!Range
<1> HIDE DEF Quantity
<1>3. Place(q) = CHOOSE s \in 1..78 : q \in Xsens!Range(Quantity) => Quantity[s] = q
  BY <1>1, <1>2 DEF Place, Xsens!AntiFunction, Xsens!Inverse
<1>4. Place(q) \in 1..78 /\ Quantity[Place(q)] = q
  BY <1>2, <1>3
<1> QED BY <1>4

(* The places at which the data of an Xsens begins.                        *)
LEMMA Places ==
  /\ Place("la") = 2 /\ Place("ax") = 20 /\ Place("fax") = 33 /\ Place("rr") = 30
  /\ Place("mx") = 11 /\ Place("vx") = 17 /\ Place("hg84") = 4 /\ Place("hmsl") = 5
  /\ Place("ro") = 23 /\ Place("q1") = 26
<1>0. {2, 4, 5, 11, 17, 20, 23, 26, 30, 33} \subseteq 1..78
  OBVIOUS
<1>1. Place("la") = 2
  BY <1>0, PlaceFound, OnePlace, QuantityPlaces, ZenonT(60)
<1>2. Place("ax") = 20
  BY <1>0, PlaceFound, OnePlace, QuantityPlaces, ZenonT(60)
<1>3. Place("fax") = 33
  BY <1>0, PlaceFound, OnePlace, QuantityPlaces, ZenonT(60)
<1>4. Place("rr") = 30
  BY <1>0, PlaceFound, OnePlace, QuantityPlaces, ZenonT(60)
<1>5. Place("mx") = 11
  BY <1>0, PlaceFound, OnePlace, QuantityPlaces, ZenonT(60)
<1>6. Place("vx") = 17
  BY <1>0, PlaceFound, OnePlace, QuantityPlaces, ZenonT(60)
<1>7. Place("hg84") = 4
  BY <1>0, PlaceFound, OnePlace, QuantityPlaces, ZenonT(60)
<1>8. Place("hmsl") = 5
  BY <1>0, PlaceFound, OnePlace, QuantityPlaces, ZenonT(60)
<1>9. Place("ro") = 23
  BY <1>0, PlaceFound, OnePlace, QuantityPlaces, ZenonT(60)
<1>10. Place("q1") = 26
  BY <1>0, PlaceFound, OnePlace, QuantityPlaces, ZenonT(60)
<1> QED BY <1>1, <1>2, <1>3, <1>4, <1>5, <1>6, <1>7, <1>8, <1>9, <1>10

(* Only LatLon gives a latitude and a longitude. *)
LEMMA KindsOfData ==
  ASSUME NEW did \in DOMAIN Xsens!Data_value
  PROVE  LET kind == Xsens!Data_value[did]
         IN  \/ kind.dim = 2 /\ Place(kind.quantity) = 2
             \/ kind.dim \in 1..4 /\ Place(kind.quantity) \in 4..74
  BY Places DEF Xsens!Data_value, Xsens!Kind

(* Data of an Xsens goes on from quantity to quantity, and only LatLon     *)
(* comes to a latitude and a longitude (xsens_impl.h:294-366).             *)
LEMMA DataPaired ==
  ASSUME NEW did \in DOMAIN Xsens!Data_value, NEW flip, NEW data
  PROVE  Paired(Xsens!DataValues(Xsens!Data_value[did], flip, data))
<1> DEFINE kind == Xsens!Data_value[did]
           first == Place(kind.quantity)
           s == Xsens!DataValues(kind, flip, data)
           n == kind.dim
<1>1. \/ n = 2 /\ first = 2
      \/ n \in 1..4 /\ first \in 4..74
  BY KindsOfData
<1> HIDE DEF kind, first
<1>2. Xsens!Quantity = Quantity
  BY DEF Xsens!Quantity, Quantity
<1>3. s = [i \in 1..n |-> s[i]] /\ \A i \in 1..n : s[i].quantity = Quantity[first + i - 1]
  BY <1>2 DEF Xsens!DataValues, first, Place
<1> HIDE DEF s, n
<1>4. IsSeq(s) /\ Len(s) = n
  BY <1>1, <1>3, FunctionIsSeq
<1>5. \A i \in 1..78 : Quantity[i] \in Quantities
  BY QuantityPlaces DEF Quantities
<1>6. CASE n = 2 /\ first = 2
  <2>1. s[1].quantity = "la" /\ s[2].quantity = "lo"
    BY <1>3, <1>6, QuantityPlaces
  <2>2. "la" \in Quantities /\ "lo" \in Quantities
    BY UbloxQuantities
  <2> QED BY <1>4, <1>6, <2>1, <2>2 DEF Paired, s, kind
<1>7. CASE n \in 1..4 /\ first \in 4..74
  <2>1. ASSUME NEW i \in 1..n
        PROVE  s[i].quantity \in Quantities \ Position
    <3> DEFINE k == first + i - 1
    <3>1. k \in 4..78 /\ k \in 1..78
      BY <1>7
    <3> HIDE DEF k
    <3>2. Quantity[k] # "la" /\ Quantity[k] # "lo"
      BY <3>1, OnePlace
    <3> QED BY <1>3, <1>5, <3>1, <3>2 DEF k, Position
  <2> QED BY <1>4, <2>1 DEF Paired, Position, s, kind
<1> QED BY <1>1, <1>6, <1>7

(* So for each item of a message.                                          *)
LEMMA ItemPaired ==
  ASSUME NEW item, NEW flip_axes
  PROVE  Paired(Xsens!get_values(item, flip_axes))
<1>1. CASE item.did = "UtcTime"
  <2> DEFINE s == <<[quantity |-> "ut", value |-> item.time]>>
  <2>0. "UtcTime" \notin DOMAIN Xsens!Data_value
    BY DEF Xsens!Data_value
  <2>1. Xsens!get_values(item, flip_axes) = IF item.valid_utc THEN s ELSE <<>>
    BY <1>1, <2>0 DEF Xsens!get_values
  <2>2. IsSeq(s) /\ Len(s) = 1 /\ s[1].quantity = "ut"
    BY DEF IsSeq
  <2> HIDE DEF s
  <2>3. Paired(s)
    BY <2>2, PlainValues, UbloxQuantities DEF Position, Attitude
  <2> QED BY <2>1, <2>3, PairedEmpty
<1>2. CASE item.did # "UtcTime" /\ item.did \in DOMAIN Xsens!Data_value
  <2> DEFINE kind == Xsens!Data_value[item.did]
  <2>1. Xsens!get_values(item, flip_axes)
          = Xsens!DataValues(kind, flip_axes /\ kind.flips, item.data)
    BY <1>2 DEF Xsens!get_values
  <2> QED BY <1>2, <2>1, DataPaired
<1>3. CASE item.did # "UtcTime" /\ item.did \notin DOMAIN Xsens!Data_value
  <2>1. Xsens!get_values(item, flip_axes) = <<>>
    BY <1>3 DEF Xsens!get_values
  <2> QED BY <2>1, PairedEmpty
<1> QED BY <1>1, <1>2, <1>3

(* Sequences are flattened alike in the module of an Xsens.                *)
LEMMA XsensFlatten == \A s : Xsens!FlattenSeq(s) = FlattenSeq(s)
  BY DEF Xsens!FlattenSeq, FlattenSeq

(* A message of an Xsens is visited with one stamp and one number.         *)
LEMMA XsensVisited ==
  ASSUME NEW message, IsSeq(message), NEW flip_axes, NEW stamp, NEW number
  PROVE  /\ Paired(Xsens!Visited(message, flip_axes, stamp, number))
         /\ \A low, high \in Nat :
              number \in low..high =>
                Stamped(Xsens!Visited(message, flip_axes, stamp, number), stamp, low, high)
<1> DEFINE parts == [i \in DOMAIN message |-> Xsens!get_values(message[i], flip_axes)]
           values == FlattenSeq(parts)
           s == Xsens!Visited(message, flip_axes, stamp, number)
<1>1. DOMAIN message = 1..Len(message) /\ Len(message) \in Nat
  BY IsSeqDomain DEF IsSeq
<1>2. IsSeq(parts) /\ Len(parts) = Len(message)
  <2>1. parts = [i \in 1..Len(message) |-> parts[i]]
    BY <1>1
  <2> HIDE DEF parts
  <2> QED BY <1>1, <2>1, FunctionIsSeq
<1>3. \A i \in 1..Len(parts) : Paired(parts[i])
  BY <1>1, <1>2, ItemPaired
<1>4. Paired(values)
  <2> HIDE DEF parts
  <2> QED BY <1>2, <1>3, PairedFlattened
<1>5. Xsens!FlattenSeq(parts) = values
  BY XsensFlatten
<1>6. s = [i \in DOMAIN values |->
             [quantity |-> values[i].quantity, value |-> values[i].value,
              stamp |-> stamp, of |-> number]]
  BY <1>5 DEF Xsens!Visited
<1> HIDE DEF values, s, parts
<1>7. IsSeq(values) /\ Len(values) \in Nat /\ DOMAIN values = 1..Len(values)
  BY <1>4, IsSeqDomain DEF Paired, IsSeq
<1>8. IsSeq(s) /\ Len(s) = Len(values)
  <2>1. s = [i \in 1..Len(values) |-> s[i]]
    BY <1>6, <1>7
  <2> QED BY <1>7, <2>1, FunctionIsSeq
<1>9. \A i \in 1..Len(values) :
        s[i].quantity = values[i].quantity /\ s[i].stamp = stamp /\ s[i].of = number
  BY <1>6, <1>7
<1>10. Paired(s)
  BY <1>4, <1>7, <1>8, <1>9 DEF Paired
<1>11. \A low, high \in Nat : number \in low..high => Stamped(s, stamp, low, high)
  <2> TAKE low, high \in Nat
  <2> HAVE number \in low..high
  <2> SUFFICES ASSUME NEW i \in 1..Len(s)
               PROVE  /\ s[i].of \in low..high /\ s[i].stamp = stamp
                      /\ s[i].quantity = "la" => s[i + 1].of = s[i].of
    BY DEF Stamped
  <2>1. s[i].quantity = "la" => i + 1 \in 1..Len(s)
    BY <1>10 DEF Paired
  <2> QED BY <1>8, <1>9, <2>1
<1> QED BY <1>10, <1>11 DEF s

(* The messages of a read of an Xsens.                                     *)
LEMMA XsensParsed ==
  ASSUME NEW ps, IsSeq(ps), \A i \in 1..Len(ps) : IsSeq(ps[i]),
         NEW flip_axes, NEW stamp, NEW number \in Nat
  PROVE  /\ Paired(Xsens!Parsed(ps, flip_axes, stamp, number))
         /\ Stamped(Xsens!Parsed(ps, flip_axes, stamp, number), stamp,
                    number + 1, number + Len(ps))
<1> DEFINE s == [i \in DOMAIN ps |-> Xsens!Visited(ps[i], flip_axes, stamp, number + i)]
<1>1. DOMAIN ps = 1..Len(ps) /\ Len(ps) \in Nat
  BY IsSeqDomain DEF IsSeq
<1>2. IsSeq(s) /\ Len(s) = Len(ps)
  <2>1. s = [i \in 1..Len(ps) |-> s[i]]
    BY <1>1
  <2> HIDE DEF s
  <2> QED BY <1>1, <2>1, FunctionIsSeq
<1>3. ASSUME NEW i \in 1..Len(s)
      PROVE  Paired(s[i]) /\ Stamped(s[i], stamp, number + 1, number + Len(ps))
  <2>1. s[i] = Xsens!Visited(ps[i], flip_axes, stamp, number + i) /\ i \in 1..Len(ps)
    BY <1>1, <1>2
  <2>2. number + i \in (number + 1)..(number + Len(ps))
    BY <1>1, <2>1
  <2>3. number + 1 \in Nat /\ number + Len(ps) \in Nat
    BY <1>1
  <2> HIDE DEF s
  <2> QED BY <2>1, <2>2, <2>3, XsensVisited
<1>4. Xsens!Parsed(ps, flip_axes, stamp, number) = FlattenSeq(s)
  BY XsensFlatten DEF Xsens!Parsed
<1> HIDE DEF s
<1> QED BY <1>2, <1>3, <1>4, PairedFlattened, StampedFlattened

(* What a read gives. *)
LEMMA ReadValues ==
  ASSUME driver \in Drivers, packets \in Nat, NEW stamp \in Int,
         NEW n \in Nat, NEW ps \in ReadOf(n)
  PROVE  /\ Paired(ValuesOf(ps, stamp))
         /\ Stamped(ValuesOf(ps, stamp), stamp, packets + 1, packets + n)
<1>1. IsSeq(ps) /\ Len(ps) = n /\ \A i \in 1..n : ps[i] \in Packets[driver]
  <2>1. ps \in [1..n -> Packets[driver]]
    BY DEF ReadOf
  <2> QED BY <2>1, FunctionIsSeq
<1>2. CASE driver = "ublox"
  <2>1. \A i \in 1..Len(ps) :
          ps[i].payload = "raw" => ps[i].sensor_data \in Seq(Measurements)
    BY <1>1, <1>2, PublishingAssumption
  <2>2. ValuesOf(ps, stamp) = Parsed(ps, stamp, packets)
    BY <1>2 DEF ValuesOf
  <2> QED BY <1>1, <2>1, <2>2, UbloxParsed
<1>3. CASE driver # "ublox"
  <2>1. \A i \in 1..Len(ps) : IsSeq(ps[i])
    <3>1. \A i \in 1..Len(ps) : ps[i] \in Seq(Xsens!Items)
      BY <1>1, <1>3, PublishingAssumption
    <3> QED BY <3>1, SeqIsSeq
  <2> DEFINE flip_axes == driver = "xsens flipped"
  <2>2. ValuesOf(ps, stamp) = Xsens!Parsed(ps, flip_axes, stamp, packets)
    BY <1>3 DEF ValuesOf
  <2> HIDE DEF flip_axes
  <2> QED BY <1>1, <2>1, <2>2, XsensParsed
<1> QED BY <1>2, <1>3

-----------------------------------------------------------------------------
(* The device and its processor, value by value.                           *)

(* Data holds the samples of the device after each value of a read.        *)
DataAfter(values, data) ==
  /\ data[0] = samples
  /\ \A i \in 1..Len(values) : data[i] = WithValue(data[i - 1], values[i])

(* Pusher holds the cache and the deltas of the processor after each.      *)
PusherAfter(values, pusher) ==
  /\ pusher[0] = [cache |-> cache_, deltas |-> <<>>]
  /\ \A i \in 1..Len(values) : pusher[i] = Pushed(pusher[i - 1], values[i])

(* Inserting values goes through one state of the device after the other,  *)
(* although the operator is a function that is chosen.                     *)
LEMMA DataExists ==
  ASSUME NEW values, Len(values) \in Nat
  PROVE  \E data : DataAfter(values, data) /\ WithValues(values) = data[Len(values)]
<1> DEFINE n == Len(values)
           Equation(k, f) ==
             f = [i \in 0..k |-> IF i = 0 THEN samples ELSE WithValue(f[i - 1], values[i])]
           P == {k \in 0..n : \E f : Equation(k, f)}
<1>1. n \in Nat
  OBVIOUS
<1> HIDE DEF n
<1>2. 0 \in P
  <2>1. Equation(0, [i \in 0..0 |-> samples])
    OBVIOUS
  <2> HIDE DEF Equation
  <2>2. \E f : Equation(0, f)
    BY <2>1
  <2> QED BY <1>1, <2>2
<1>3. ASSUME NEW k \in 1..n, k - 1 \in P
      PROVE  k \in P
  <2>1. PICK f : Equation(k - 1, f)
    BY <1>3
  <2> DEFINE g == [i \in 0..k |-> IF i < k THEN f[i] ELSE WithValue(f[i - 1], values[i])]
  <2>2. ASSUME NEW i \in 0..k
        PROVE  g[i] = IF i = 0 THEN samples ELSE WithValue(g[i - 1], values[i])
    <3>1. i # 0 => i - 1 \in 0..(k - 1) /\ g[i - 1] = f[i - 1]
      BY <1>1
    <3>2. CASE i < k
      <4>1. i \in 0..(k - 1) /\ g[i] = f[i]
        BY <1>1, <3>2
      <4>2. f[i] = IF i = 0 THEN samples ELSE WithValue(f[i - 1], values[i])
        BY <2>1, <4>1
      <4> QED BY <3>1, <4>1, <4>2
    <3>3. CASE ~(i < k)
      <4>1. i # 0 /\ g[i] = WithValue(f[i - 1], values[i])
        BY <3>3
      <4> QED BY <3>1, <4>1
    <3> QED BY <3>2, <3>3
  <2>3. g = [i \in 0..k |-> g[i]]
    OBVIOUS
  <2> HIDE DEF g
  <2>4. Equation(k, g)
    BY <2>2, <2>3
  <2> HIDE DEF Equation
  <2> QED BY <2>4
<1>4. n \in P
  <2> HIDE DEF P
  <2>1. \A i \in 1..n : i - 1 \in P => i \in P
    BY <1>3
  <2>2. \A i \in 0..n : i \in P
    BY <1>1, <1>2, <2>1, UpTo
  <2> QED BY <1>1, <2>2
<1> DEFINE F == CHOOSE f : Equation(n, f)
<1>5. Equation(n, F)
  BY <1>4
<1>6. WithValues(values) = F[n]
  BY DEF WithValues, n
<1> HIDE DEF F
<1>7. DataAfter(values, F)
  <2>1. F[0] = samples
    BY <1>1, <1>5
  <2>2. \A i \in 1..n : F[i] = WithValue(F[i - 1], values[i])
    BY <1>1, <1>5
  <2> QED BY <2>1, <2>2 DEF DataAfter, n
<1> QED BY <1>6, <1>7 DEF n

(* So does pushing them to the processor.                                  *)
LEMMA PusherExists ==
  ASSUME NEW values, Len(values) \in Nat
  PROVE  \E pusher : PusherAfter(values, pusher) /\ AllPushed(values) = pusher[Len(values)]
<1> DEFINE n == Len(values)
           base == [cache |-> cache_, deltas |-> <<>>]
           Equation(k, f) ==
             f = [i \in 0..k |-> IF i = 0 THEN base ELSE Pushed(f[i - 1], values[i])]
           P == {k \in 0..n : \E f : Equation(k, f)}
<1>1. n \in Nat
  OBVIOUS
<1> HIDE DEF n, base
<1>2. 0 \in P
  <2>1. Equation(0, [i \in 0..0 |-> base])
    OBVIOUS
  <2> HIDE DEF Equation
  <2>2. \E f : Equation(0, f)
    BY <2>1
  <2> QED BY <1>1, <2>2
<1>3. ASSUME NEW k \in 1..n, k - 1 \in P
      PROVE  k \in P
  <2>1. PICK f : Equation(k - 1, f)
    BY <1>3
  <2> DEFINE g == [i \in 0..k |-> IF i < k THEN f[i] ELSE Pushed(f[i - 1], values[i])]
  <2>2. ASSUME NEW i \in 0..k
        PROVE  g[i] = IF i = 0 THEN base ELSE Pushed(g[i - 1], values[i])
    <3>1. i # 0 => i - 1 \in 0..(k - 1) /\ g[i - 1] = f[i - 1]
      BY <1>1
    <3>2. CASE i < k
      <4>1. i \in 0..(k - 1) /\ g[i] = f[i]
        BY <1>1, <3>2
      <4>2. f[i] = IF i = 0 THEN base ELSE Pushed(f[i - 1], values[i])
        BY <2>1, <4>1
      <4> QED BY <3>1, <4>1, <4>2
    <3>3. CASE ~(i < k)
      <4>1. i # 0 /\ g[i] = Pushed(f[i - 1], values[i])
        BY <3>3
      <4> QED BY <3>1, <4>1
    <3> QED BY <3>2, <3>3
  <2>3. g = [i \in 0..k |-> g[i]]
    OBVIOUS
  <2> HIDE DEF g
  <2>4. Equation(k, g)
    BY <2>2, <2>3
  <2> HIDE DEF Equation
  <2> QED BY <2>4
<1>4. n \in P
  <2> HIDE DEF P
  <2>1. \A i \in 1..n : i - 1 \in P => i \in P
    BY <1>3
  <2>2. \A i \in 0..n : i \in P
    BY <1>1, <1>2, <2>1, UpTo
  <2> QED BY <1>1, <2>2
<1> DEFINE F == CHOOSE f : Equation(n, f)
<1>5. Equation(n, F)
  BY <1>4
<1>6. AllPushed(values) = F[n]
  BY DEF AllPushed, n, base
<1> HIDE DEF F
<1>7. PusherAfter(values, F)
  <2>1. F[0] = base
    BY <1>1, <1>5
  <2>2. \A i \in 1..n : F[i] = Pushed(F[i - 1], values[i])
    BY <1>1, <1>5
  <2> QED BY <2>1, <2>2 DEF PusherAfter, n, base
<1> QED BY <1>6, <1>7 DEF n

(* The last sample of each quantity. *)
SamplesTyped(data, high) ==
  /\ DOMAIN data \subseteq Quantities
  /\ \A q \in DOMAIN data : data[q].quantity = q /\ data[q].of \in 1..high

(* The device keeps samples of packets that have come, each under its own  *)
(* quantity.                                                               *)
LEMMA DataTyped ==
  ASSUME NEW values, NEW data, DataAfter(values, data), Paired(values),
         packets \in Nat, NEW high \in Nat, packets <= high,
         NEW stamp, Stamped(values, stamp, packets + 1, high),
         SamplesTyped(samples, packets)
  PROVE  SamplesTyped(data[Len(values)], high)
<1> DEFINE n == Len(values)
           P == {i \in 0..n : SamplesTyped(data[i], high)}
<1>1. n \in Nat
  BY DEF Paired, IsSeq
<1>2. 0 \in P
  <2>1. SamplesTyped(data[0], high)
    BY DEF DataAfter, SamplesTyped
  <2> QED BY <1>1, <2>1
<1>3. ASSUME NEW i \in 1..n, i - 1 \in P
      PROVE  i \in P
  <2> DEFINE old == data[i - 1]
             s == values[i]
  <2>1. data[i] = WithValue(old, s)
    BY DEF DataAfter
  <2>2. SamplesTyped(old, high)
    BY <1>3
  <2>3. s.quantity \in Quantities /\ s.of \in 1..high
    BY DEF Paired, Stamped
  <2> HIDE DEF old, s
  <2>4. SamplesTyped(data[i], high)
    BY <2>1, <2>2, <2>3 DEF WithValue, SamplesTyped
  <2> QED BY <1>1, <2>4
<1>4. \A i \in 0..n : i \in P
  <2> HIDE DEF P, n
  <2>1. \A i \in 1..n : i - 1 \in P => i \in P
    BY <1>3
  <2> QED BY <1>1, <1>2, <2>1, UpTo
<1> QED BY <1>1, <1>4

(* The cache has nothing younger than the read, and deltas are a sequence. *)
Cached(pusher, stamp) ==
  /\ DOMAIN pusher.cache = Position \cup Attitude
  /\ \A q \in Position \cup Attitude :
       pusher.cache[q].stamp \in Nat /\ pusher.cache[q].stamp <= stamp
  /\ IsSeq(pusher.deltas)

(* What one value does: it is cached, and at most one delta comes of it,   *)
(* of the cache and the value.                                             *)
LEMMA PushedOnce ==
  ASSUME NEW pusher, NEW s, NEW stamp \in Nat, Cached(pusher, stamp),
         s.quantity \in Position \cup Attitude => s.stamp = stamp
  PROVE  LET after == Pushed(pusher, s)
         IN  /\ Cached(after, stamp)
             /\ \A q \in Position \cup Attitude :
                  after.cache[q] = IF q = s.quantity THEN s ELSE pusher.cache[q]
             /\ \/ after.deltas = pusher.deltas /\ ~produces_delta(after.cache, s)
                \/ /\ after.deltas = Append(pusher.deltas, get_delta(after.cache, s))
                   /\ produces_delta(after.cache, s)
<1> DEFINE after == Pushed(pusher, s)
           cache == WithSample(pusher.cache, s)
<1>1. /\ after.cache = cache
      /\ after.deltas = IF produces_delta(cache, s)
                        THEN Append(pusher.deltas, get_delta(cache, s)) ELSE pusher.deltas
  BY DEF Pushed
<1>2. /\ DOMAIN cache = Position \cup Attitude
      /\ \A q \in Position \cup Attitude :
           cache[q] = IF q = s.quantity THEN s ELSE pusher.cache[q]
  BY DEF WithSample, Cached
<1> HIDE DEF cache
<1>3. IsSeq(after.deltas)
  <2>1. IsSeq(pusher.deltas)
    BY DEF Cached
  <2> QED BY <1>1, <2>1, AppendedIsSeq
<1> HIDE DEF after
<1>4. Cached(after, stamp)
  BY <1>1, <1>2, <1>3 DEF Cached
<1> QED BY <1>1, <1>2, <1>4 DEF after

(* The cache stays as it must be, value by value.                          *)
LEMMA PusherCached ==
  ASSUME NEW values, NEW pusher, PusherAfter(values, pusher), Paired(values),
         NEW stamp \in Nat, NEW low, NEW high, Stamped(values, stamp, low, high),
         Cached([cache |-> cache_, deltas |-> <<>>], stamp)
  PROVE  \A i \in 0..Len(values) : Cached(pusher[i], stamp)
<1> DEFINE n == Len(values)
           P == {i \in 0..n : Cached(pusher[i], stamp)}
<1>1. n \in Nat
  BY DEF Paired, IsSeq
<1>2. 0 \in P
  BY <1>1 DEF PusherAfter
<1>3. ASSUME NEW i \in 1..n, i - 1 \in P
      PROVE  i \in P
  <2> DEFINE old == pusher[i - 1]
             s == values[i]
  <2>1. pusher[i] = Pushed(old, s)
    BY DEF PusherAfter
  <2>2. Cached(old, stamp)
    BY <1>3
  <2>3. s.quantity \in Position \cup Attitude => s.stamp = stamp
    BY DEF Stamped
  <2> HIDE DEF old, s
  <2>4. Cached(pusher[i], stamp)
    BY <2>1, <2>2, <2>3, PushedOnce
  <2> QED BY <1>1, <2>4
<1>4. \A i \in 0..n : i \in P
  <2> HIDE DEF P, n
  <2>1. \A i \in 1..n : i - 1 \in P => i \in P
    BY <1>3
  <2> QED BY <1>1, <1>2, <2>1, UpTo
<1> QED BY <1>4

(* A delta of one packet. *)
OnePacket(d) == \A q, r \in DOMAIN d.value : d.value[q].of = d.value[r].of

(* When no other packet had its stamp, nothing in the cache can be taken   *)
(* for a component of the packet.                                          *)
LEMMA DeltasOfOnePacket ==
  ASSUME NEW values, NEW pusher, PusherAfter(values, pusher), Paired(values),
         NEW stamp \in Nat, packets \in Nat, NEW high \in Nat,
         Stamped(values, stamp, packets + 1, high),
         Cached([cache |-> cache_, deltas |-> <<>>], stamp),
         NEW alone \in BOOLEAN,
         alone => /\ high = packets + 1
                  /\ \A q \in Position \cup Attitude : cache_[q].stamp # stamp
  PROVE  LET deltas == pusher[Len(values)].deltas
         IN  \A j \in 1..Len(deltas) :
               OnePacket(deltas[j]) \/ (~alone /\ deltas[j].timestamp = stamp)
<1> DEFINE n == Len(values)
           InOne(d) == OnePacket(d) \/ (~alone /\ d.timestamp = stamp)
           Q(p) == /\ \A j \in 1..Len(p.deltas) : InOne(p.deltas[j])
                   /\ alone => \A q \in Position \cup Attitude :
                                 p.cache[q].stamp = stamp => p.cache[q].of = high
           P == {i \in 0..n : Q(pusher[i])}
<1>1. n \in Nat /\ \A i \in 0..n : Cached(pusher[i], stamp)
  BY PusherCached DEF Paired, IsSeq
<1>2. 0 \in P
  <2>1. Q(pusher[0])
    BY DEF PusherAfter
  <2> QED BY <1>1, <2>1
<1>3. ASSUME NEW i \in 1..n, i - 1 \in P
      PROVE  i \in P
  <2> DEFINE old == pusher[i - 1]
             s == values[i]
             new == pusher[i]
             delta == get_delta(new.cache, s)
  <2>1. new = Pushed(old, s)
    BY DEF PusherAfter
  <2>2. i - 1 \in 0..n /\ Cached(old, stamp) /\ Q(old)
    BY <1>1, <1>3
  <2>3. /\ s.quantity \in Position \cup Attitude => s.stamp = stamp
        /\ alone => s.of = high
    <3>1. s.of \in (packets + 1)..high
      BY DEF Stamped
    <3>2. alone => s.of = high
      BY <3>1
    <3> QED BY <3>2 DEF Stamped
  <2> HIDE DEF old, new, s
  <2>4. /\ \A q \in Position \cup Attitude :
             new.cache[q] = IF q = s.quantity THEN s ELSE old.cache[q]
        /\ \/ new.deltas = old.deltas
           \/ new.deltas = Append(old.deltas, delta) /\ produces_delta(new.cache, s)
    BY <2>1, <2>2, <2>3, PushedOnce
  <2>5. alone => \A q \in Position \cup Attitude :
                   new.cache[q].stamp = stamp => new.cache[q].of = high
    BY <2>2, <2>3, <2>4
  <2>6. ASSUME produces_delta(new.cache, s) PROVE InOne(delta)
    <3>1. /\ delta.timestamp = s.stamp
          /\ delta.value = [q \in Components(s.quantity) |->
                              IF q = s.quantity THEN s ELSE new.cache[q]]
      BY DEF get_delta
    <3>2. CASE s.quantity \notin Position \cup Attitude
      <4>1. Components(s.quantity) = {s.quantity}
        BY <3>2 DEF Components
      <4> HIDE DEF delta
      <4>2. DOMAIN delta.value = {s.quantity}
        BY <3>1, <4>1
      <4>3. OnePacket(delta)
        BY <4>2 DEF OnePacket
      <4> QED BY <4>3
    <3>3. CASE s.quantity \in Position \cup Attitude
      <4>1. Components(s.quantity) \subseteq Position \cup Attitude
        BY <3>3 DEF Components, Position, Attitude
      <4>2. \A q \in Components(s.quantity) : new.cache[q].stamp = stamp
        BY <2>3, <2>6, <3>3 DEF produces_delta
      <4>3. alone => \A q \in Components(s.quantity) : delta.value[q].of = high
        <5> HIDE DEF delta
        <5> QED BY <2>3, <2>5, <3>1, <4>1, <4>2
      <4>4. DOMAIN delta.value = Components(s.quantity) /\ delta.timestamp = stamp
        <5> HIDE DEF delta
        <5> QED BY <2>3, <3>1, <3>3
      <4> HIDE DEF delta
      <4>5. CASE alone
        BY <4>3, <4>4, <4>5 DEF OnePacket
      <4>6. CASE ~alone
        BY <4>4, <4>6
      <4> QED BY <4>5, <4>6
    <3> QED BY <3>2, <3>3
  <2> HIDE DEF delta, InOne
  <2>7. \A j \in 1..Len(new.deltas) : InOne(new.deltas[j])
    <3>1. IsSeq(old.deltas) /\ Len(old.deltas) \in Nat
      BY <2>2 DEF Cached, IsSeq
    <3>2. CASE new.deltas = old.deltas
      BY <2>2, <3>2
    <3>3. CASE new.deltas = Append(old.deltas, delta) /\ produces_delta(new.cache, s)
      <4>1. /\ Len(new.deltas) = Len(old.deltas) + 1
            /\ new.deltas[Len(old.deltas) + 1] = delta
            /\ \A j \in 1..Len(old.deltas) : new.deltas[j] = old.deltas[j]
        BY <3>1, <3>3, AppendedIsSeq
      <4>2. InOne(delta)
        BY <2>6, <3>3
      <4> SUFFICES ASSUME NEW j \in 1..Len(new.deltas) PROVE InOne(new.deltas[j])
        OBVIOUS
      <4>3. \A k \in 1..Len(old.deltas) : InOne(old.deltas[k])
        BY <2>2
      <4>4. CASE j = Len(old.deltas) + 1
        BY <4>1, <4>2, <4>4
      <4>5. CASE j # Len(old.deltas) + 1
        <5>1. j \in 1..Len(old.deltas)
          BY <3>1, <4>1, <4>5
        <5>2. new.deltas[j] = old.deltas[j]
          BY <4>1, <5>1
        <5> QED BY <4>3, <5>1, <5>2
      <4> QED BY <4>4, <4>5
    <3> QED BY <2>4, <3>2, <3>3
  <2>8. Q(new)
    BY <2>5, <2>7
  <2> HIDE DEF Q
  <2>9. Q(pusher[i])
    BY <2>8 DEF new
  <2> QED BY <1>1, <2>9
<1>4. n \in P
  <2> HIDE DEF P, n
  <2>1. \A i \in 1..n : i - 1 \in P => i \in P
    BY <1>3
  <2>2. \A i \in 0..n : i \in P
    BY <1>1, <1>2, <2>1, UpTo
  <2> QED BY <1>1, <2>2
<1> QED BY <1>4

(* The last position among the deltas is that of the device. *)
LastPosition(deltas, l) ==
  /\ l \in 1..Len(deltas) /\ deltas[l].path = "position"
  /\ \A j \in 1..Len(deltas) : deltas[j].path = "position" => j <= l

PositionTold(data, deltas) ==
  /\ ("la" \in DOMAIN data) = ("lo" \in DOMAIN data)
  /\ "la" \in DOMAIN data =>
       /\ data["la"].of = data["lo"].of
       /\ \E l : /\ LastPosition(deltas, l)
                 /\ \A q \in Position : deltas[l].value[q] = data[q]

(* A delta that is added, behind those sent before. *)
LEMMA AppendedBehind ==
  ASSUME NEW s, NEW t, NEW e, IsSeq(s), IsSeq(t)
  PROVE  /\ IsSeq(s \o t) /\ IsSeq(s \o Append(t, e))
         /\ Len(s \o Append(t, e)) = Len(s \o t) + 1
         /\ (s \o Append(t, e))[Len(s \o t) + 1] = e
         /\ \A i \in 1..Len(s \o t) : (s \o Append(t, e))[i] = (s \o t)[i]
<1> DEFINE u == Append(t, e)
           v == s \o t
           w == s \o u
<1>1. /\ IsSeq(u) /\ Len(u) = Len(t) + 1 /\ u[Len(t) + 1] = e
      /\ \A i \in 1..Len(t) : u[i] = t[i]
  BY AppendedIsSeq
<1> HIDE DEF u
<1>2. /\ IsSeq(v) /\ Len(v) = Len(s) + Len(t)
      /\ \A i \in 1..Len(s) : v[i] = s[i]
      /\ \A i \in 1..Len(t) : v[Len(s) + i] = t[i]
  BY JoinedIsSeq
<1>3. /\ IsSeq(w) /\ Len(w) = Len(s) + Len(u)
      /\ \A i \in 1..Len(s) : w[i] = s[i]
      /\ \A i \in 1..Len(u) : w[Len(s) + i] = u[i]
  BY <1>1, JoinedIsSeq
<1> HIDE DEF v, w
<1>4. Len(s) \in Nat /\ Len(t) \in Nat
  BY DEF IsSeq
<1>5. Len(w) = Len(v) + 1
  BY <1>1, <1>2, <1>3, <1>4
<1>6. w[Len(v) + 1] = e
  <2>1. Len(v) + 1 = Len(s) + (Len(t) + 1) /\ Len(t) + 1 \in 1..Len(u)
    BY <1>1, <1>2, <1>4
  <2> QED BY <1>1, <1>3, <2>1
<1>7. ASSUME NEW i \in 1..Len(v) PROVE w[i] = v[i]
  <2>1. CASE i \in 1..Len(s)
    BY <1>2, <1>3, <2>1
  <2>2. CASE i \notin 1..Len(s)
    <3> DEFINE j == i - Len(s)
    <3>1. i = Len(s) + j /\ j \in 1..Len(t) /\ j \in 1..Len(u)
      BY <1>1, <1>2, <1>4, <2>2
    <3> HIDE DEF j
    <3> QED BY <1>1, <1>2, <1>3, <3>1
  <2> QED BY <2>1, <2>2
<1> QED BY <1>2, <1>3, <1>5, <1>6, <1>7 DEF u, v, w

(* A read leaves the last position sent the one of the device: between a   *)
(* latitude and its longitude, which directly follows it, the latitude is  *)
(* cached but not told.                                                    *)
LEMMA PositionIsTold ==
  ASSUME NEW values, NEW data, NEW pusher,
         DataAfter(values, data), PusherAfter(values, pusher), Paired(values),
         NEW stamp \in Nat, NEW low, NEW high, Stamped(values, stamp, low, high),
         Cached([cache |-> cache_, deltas |-> <<>>], stamp),
         IsSeq(sent), PositionTold(samples, sent)
  PROVE  PositionTold(data[Len(values)], sent \o pusher[Len(values)].deltas)
<1> DEFINE n == Len(values)
           between(i) == i \in 1..n /\ values[i].quantity = "la"
           Q(i) == IF between(i)
                   THEN /\ "la" \in DOMAIN data[i] /\ data[i]["la"] = values[i]
                        /\ pusher[i].cache["la"] = values[i]
                   ELSE PositionTold(data[i], sent \o pusher[i].deltas)
           P == {i \in 0..n : Q(i)}
<1>1. n \in Nat /\ \A i \in 0..n : Cached(pusher[i], stamp)
  BY PusherCached DEF Paired, IsSeq
<1>2. 0 \in P
  <2>1. sent \o <<>> = sent
    <3>1. sent \in Seq(Elements(sent))
      BY IsSeqTyped
    <3> HIDE DEF n
    <3> QED BY <3>1
  <2>2. PositionTold(data[0], sent \o pusher[0].deltas)
    BY <2>1 DEF DataAfter, PusherAfter
  <2>3. 0 \notin 1..n
    BY <1>1
  <2> HIDE DEF n
  <2> QED BY <1>1, <2>2, <2>3
<1>3. ASSUME NEW i \in 1..n, i - 1 \in P
      PROVE  i \in P
  <2> DEFINE s == values[i]
             olddata == data[i - 1]
             newdata == data[i]
             old == pusher[i - 1]
             new == pusher[i]
             before == sent \o old.deltas
             after == sent \o new.deltas
             delta == get_delta(new.cache, s)
  <2>1. newdata = WithValue(olddata, s) /\ new = Pushed(old, s)
    BY DEF DataAfter, PusherAfter
  <2>2. i - 1 \in 0..n /\ Cached(old, stamp) /\ Q(i - 1)
    BY <1>1, <1>3
  <2>3. s.quantity \in Position \cup Attitude => s.stamp = stamp
    BY DEF Stamped
  <2>4. /\ s.quantity = "lo" => /\ between(i - 1)
                                /\ values[i - 1].stamp = stamp
                                /\ s.of = values[i - 1].of
        /\ s.quantity # "lo" => ~between(i - 1)
    <3>1. s.quantity = "lo" => i - 1 \in 1..n /\ values[i - 1].quantity = "la"
      BY DEF Paired
    <3>2. i - 1 \in 1..n /\ values[i - 1].quantity = "la" =>
            /\ values[i - 1 + 1].quantity = "lo" /\ values[i - 1].stamp = stamp
            /\ values[i - 1 + 1].of = values[i - 1].of
      BY DEF Paired, Stamped, Position
    <3>3. i - 1 + 1 = i
      BY <1>1
    <3> QED BY <3>1, <3>2, <3>3
  <2>5. IsSeq(old.deltas)
    BY <2>2 DEF Cached
  <2> HIDE DEF s, olddata, newdata, old, new
  <2>6. /\ \A q \in Position \cup Attitude :
             new.cache[q] = IF q = s.quantity THEN s ELSE old.cache[q]
        /\ \/ new.deltas = old.deltas /\ ~produces_delta(new.cache, s)
           \/ new.deltas = Append(old.deltas, delta) /\ produces_delta(new.cache, s)
    BY <2>1, <2>2, <2>3, PushedOnce
  <2>7. /\ DOMAIN newdata = DOMAIN olddata \cup {s.quantity}
        /\ \A q \in DOMAIN newdata : newdata[q] = IF q = s.quantity THEN s ELSE olddata[q]
    BY <2>1 DEF WithValue
  <2>8. delta.path = get_path(s.quantity)
    BY DEF get_delta
  <2>9. /\ IsSeq(before) /\ Len(before) \in Nat
        /\ new.deltas = Append(old.deltas, delta) =>
             /\ Len(after) = Len(before) + 1
             /\ after[Len(before) + 1] = delta
             /\ \A j \in 1..Len(before) : after[j] = before[j]
        /\ new.deltas = old.deltas => after = before
    <3> HIDE DEF delta, before, after
    <3>1. /\ IsSeq(before)
          /\ IsSeq(sent \o Append(old.deltas, delta))
          /\ Len(sent \o Append(old.deltas, delta)) = Len(before) + 1
          /\ (sent \o Append(old.deltas, delta))[Len(before) + 1] = delta
          /\ \A j \in 1..Len(before) :
               (sent \o Append(old.deltas, delta))[j] = before[j]
      BY <2>5, AppendedBehind DEF before
    <3>2. Len(before) \in Nat
      BY <3>1 DEF IsSeq
    <3>3. CASE new.deltas = old.deltas
      <4>1. after = before
        BY <3>3 DEF before, after
      <4>2. new.deltas # Append(old.deltas, delta)
        <5>1. Len(Append(old.deltas, delta)) = Len(old.deltas) + 1 /\ Len(old.deltas) \in Nat
          BY <2>5, AppendedIsSeq DEF IsSeq
        <5> QED BY <3>3, <5>1
      <4> QED BY <3>1, <3>2, <4>1, <4>2
    <3>4. CASE new.deltas # old.deltas
      <4>1. new.deltas = Append(old.deltas, delta) =>
              after = sent \o Append(old.deltas, delta)
        BY DEF after
      <4> QED BY <3>1, <3>2, <3>4, <4>1
    <3> QED BY <3>3, <3>4
  <2>10. CASE s.quantity \notin Position
    <3>1. ~between(i - 1) /\ ~between(i)
      BY <2>4, <2>10 DEF s, Position
    <3>2. PositionTold(olddata, before)
      <4> HIDE DEF between, before
      <4> QED BY <2>2, <3>1 DEF olddata, old, before
    <3>3. delta.path # "position"
      BY <2>8, <2>10 DEF get_path, Position, Attitude
    <3> HIDE DEF delta, before, after, between
    <3>4. ("la" \in DOMAIN newdata) = ("lo" \in DOMAIN newdata)
      BY <2>7, <2>10, <3>2 DEF PositionTold, Position
    <3>5. ASSUME "la" \in DOMAIN newdata
          PROVE  /\ newdata["la"].of = newdata["lo"].of
                 /\ \E l : /\ LastPosition(after, l)
                           /\ \A q \in Position : after[l].value[q] = newdata[q]
      <4>1. /\ "la" \in DOMAIN olddata /\ "lo" \in DOMAIN olddata
            /\ newdata["la"] = olddata["la"] /\ newdata["lo"] = olddata["lo"]
        BY <2>7, <2>10, <3>2, <3>5 DEF PositionTold, Position
      <4>2. /\ olddata["la"].of = olddata["lo"].of
            /\ \E l : /\ LastPosition(before, l)
                      /\ \A q \in Position : before[l].value[q] = olddata[q]
        BY <3>2, <4>1 DEF PositionTold
      <4>3. PICK l : /\ LastPosition(before, l)
                     /\ \A q \in Position : before[l].value[q] = olddata[q]
        BY <4>2
      <4>4. LastPosition(after, l) /\ after[l] = before[l]
        <5>1. CASE new.deltas = old.deltas
          BY <2>9, <4>3, <5>1
        <5>2. CASE new.deltas = Append(old.deltas, delta)
          <6>1. /\ Len(after) = Len(before) + 1 /\ after[Len(before) + 1] = delta
                /\ \A j \in 1..Len(before) : after[j] = before[j]
                /\ Len(before) \in Nat
            BY <2>9, <5>2
          <6>2. /\ l \in 1..Len(before) /\ before[l].path = "position"
                /\ \A j \in 1..Len(before) : before[j].path = "position" => j <= l
            BY <4>3 DEF LastPosition
          <6>3. ASSUME NEW j \in 1..Len(after), after[j].path = "position"
                PROVE  j <= l
            <7>1. j # Len(before) + 1
              BY <3>3, <6>1, <6>3
            <7>2. j \in 1..Len(before)
              BY <6>1, <7>1
            <7> QED BY <6>1, <6>2, <6>3, <7>2
          <6>4. l \in 1..Len(after) /\ after[l] = before[l]
            BY <6>1, <6>2
          <6> QED BY <6>2, <6>3, <6>4 DEF LastPosition
        <5> QED BY <2>6, <5>1, <5>2
      <4>5. \A q \in Position : after[l].value[q] = newdata[q]
        BY <4>1, <4>3, <4>4 DEF Position
      <4> QED BY <4>1, <4>2, <4>4, <4>5
    <3>6. PositionTold(newdata, after)
      BY <3>4, <3>5 DEF PositionTold
    <3>7. Q(i)
      BY <3>1, <3>6 DEF newdata, after, new
    <3> HIDE DEF Q
    <3> QED BY <1>1, <3>7
  <2>11. CASE s.quantity = "la"
    <3>1. between(i)
      BY <2>11 DEF s
    <3>2. "la" \in DOMAIN newdata /\ newdata["la"] = s /\ new.cache["la"] = s
      BY <2>6, <2>7, <2>11 DEF Position
    <3>3. Q(i)
      BY <3>1, <3>2 DEF newdata, new, s
    <3> HIDE DEF Q
    <3> QED BY <1>1, <3>3
  <2>12. CASE s.quantity = "lo"
    <3> DEFINE first == values[i - 1]
    <3>1. between(i - 1) /\ first.stamp = stamp /\ s.of = first.of /\ s.stamp = stamp
      BY <2>3, <2>4, <2>12 DEF Position
    <3>2. ~between(i)
      BY <2>12 DEF s
    <3> HIDE DEF first
    <3>3. "la" \in DOMAIN olddata /\ olddata["la"] = first /\ old.cache["la"] = first
      <4> HIDE DEF between
      <4> QED BY <2>2, <3>1 DEF olddata, old, first
    <3>4. new.cache["la"] = first /\ new.cache["lo"] = s
      BY <2>6, <2>12, <3>3 DEF Position
    <3>5. produces_delta(new.cache, s)
      BY <2>12, <3>1, <3>4 DEF produces_delta, Components, Position, Attitude
    <3>6. /\ delta.path = "position"
          /\ delta.value["la"] = first /\ delta.value["lo"] = s
      <4>1. get_path(s.quantity) = "position" /\ Components(s.quantity) = Position
        BY <2>12 DEF get_path, Components, Position, Attitude
      <4>2. delta.value = [q \in Position |-> IF q = s.quantity THEN s ELSE new.cache[q]]
        BY <4>1 DEF get_delta
      <4> HIDE DEF delta
      <4> QED BY <2>8, <2>12, <3>4, <4>1, <4>2 DEF Position
    <3>7. /\ "la" \in DOMAIN newdata /\ "lo" \in DOMAIN newdata
          /\ newdata["la"] = first /\ newdata["lo"] = s
      BY <2>7, <2>12, <3>3
    <3> HIDE DEF delta, before, after, between
    <3> DEFINE l == Len(before) + 1
    <3>8. LastPosition(after, l) /\ after[l] = delta
      BY <2>6, <2>9, <3>5, <3>6 DEF LastPosition
    <3>9. \A q \in Position : after[l].value[q] = newdata[q]
      BY <3>6, <3>7, <3>8 DEF Position
    <3> HIDE DEF l
    <3>10. PositionTold(newdata, after)
      BY <3>1, <3>7, <3>8, <3>9 DEF PositionTold
    <3>11. Q(i)
      BY <3>2, <3>10 DEF newdata, after, new
    <3> HIDE DEF Q
    <3> QED BY <1>1, <3>11
  <2> QED BY <2>10, <2>11, <2>12 DEF Position
<1>4. n \in P
  <2> HIDE DEF P, n
  <2>1. \A i \in 1..n : i - 1 \in P => i \in P
    BY <1>3
  <2>2. \A i \in 0..n : i \in P
    BY <1>1, <1>2, <2>1, UpTo
  <2> QED BY <1>1, <2>2
<1>5. ~between(n)
  <2>1. n \in 1..n /\ values[n].quantity = "la" => n + 1 \in 1..n
    BY DEF Paired
  <2> QED BY <1>1, <2>1
<1> HIDE DEF between
<1>6. PositionTold(data[n], sent \o pusher[n].deltas)
  BY <1>4, <1>5
<1> QED BY <1>6

-----------------------------------------------------------------------------
(* The inductive invariant.                                                *)

Typed ==
  /\ TypeOK
  /\ DOMAIN inbox = Clients /\ DOMAIN unread = Clients
  /\ DOMAIN pending = Clients /\ DOMAIN since = Clients
  /\ IsSeq(sent)

(* Before the first read the cache has the stamp of no read. *)
CachePast ==
  /\ now >= 1
  /\ \A q \in Position \cup Attitude :
       /\ cache_[q].stamp \in Nat /\ cache_[q].stamp <= now
       /\ reads = 0 => cache_[q].stamp = 0

Unmixed ==
  /\ \A i \in 1..Len(sent) : sent[i].timestamp \notin shared => OnePacket(sent[i])
  /\ PositionTold(samples, sent)

(* A client that keeps up has nothing that waits. *)
Delivered ==
  \A c \in Clients :
    /\ client[c] = "away" => inbox[c] = <<>> /\ pending[c] = 0
    /\ client[c] = "there" => c \in connections_
    /\ client[c] = "there" /\ c \notin slow =>
         pending[c] = 0 /\ inbox[c] = SubSeq(sent, since[c] + 1, Len(sent))

IInv == Typed /\ CachePast /\ Unmixed /\ Delivered

(* The bounds of the model are numbers.                                    *)
LEMMA Bounds ==
  /\ Together \in Nat /\ MaxReads \in Nat /\ Steps \subseteq Nat /\ Room \in Nat \ {0}
  BY PublishingAssumption

(* The empty sequence is one of anything.                                  *)
LEMMA EmptyTyped == ASSUME NEW S PROVE <<>> \in Seq(S) /\ Len(<<>>) = 0
  OBVIOUS

(* At first nothing was read, cached or sent.                              *)
LEMMA InitIInv == Init => IInv
<1> SUFFICES ASSUME Init PROVE IInv OBVIOUS
<1>1. samples = <<>> /\ DOMAIN samples = {}
  BY DEF Init
<1>2. Typed
  <2>1. IsSeq(sent) /\ Len(sent) = 0
    BY DEF Init, IsSeq
  <2>2. DOMAIN cache_ = Position \cup Attitude
    BY DEF Init
  <2>3. \A c \in Clients : /\ inbox[c] \in Seq(Sent \cup {Garbage})
                           /\ unread[c] \in 0..Room
                           /\ pending[c] \in 0..Len(sent)
                           /\ since[c] \in 0..Len(sent)
    BY <2>1, EmptyTyped, Bounds DEF Init
  <2>4. DOMAIN inbox = Clients /\ DOMAIN unread = Clients
        /\ DOMAIN pending = Clients /\ DOMAIN since = Clients
    BY DEF Init
  <2>5. reads \in 0..MaxReads /\ now \in Nat /\ packets \in Nat /\ driver \in Drivers
    BY Bounds DEF Init
  <2>6. client \in [Clients -> {"away", "there", "gone"}]
    BY DEF Init
  <2>7. connections_ \subseteq Clients /\ slow \subseteq Clients
    BY DEF Init
  <2> QED BY <1>1, <2>1, <2>2, <2>3, <2>4, <2>5, <2>6, <2>7 DEF Typed, TypeOK
<1>3. CachePast
  BY DEF Init, CachePast, NoSample
<1>4. Unmixed
  BY <1>1 DEF Init, Unmixed, PositionTold
<1>5. Delivered
  BY DEF Init, Delivered
<1> QED BY <1>2, <1>3, <1>4, <1>5 DEF IInv

(* What is sent to a client is written, or some of it waits. *)
LEMMA SendWrites ==
  ASSUME NEW c, NEW S, inbox[c] \in Seq(S), NEW deltas \in Seq(S),
         unread[c] \in 0..Room, pending[c] \in Nat
  PROVE  LET after == Send(c, deltas)
         IN  /\ after.inbox \in Seq(S)
             /\ after.unread \in 0..Room
             /\ after.pending \in 0..(pending[c] + Len(deltas))
             /\ after.pending = 0 => pending[c] = 0 /\ after.inbox = inbox[c] \o deltas
<1> DEFINE n == Len(deltas)
           room == IF pending[c] > 0 THEN 0 ELSE Room - unread[c]
           fit == IF n < room THEN n ELSE room
           after == Send(c, deltas)
<1>1. n \in Nat
  OBVIOUS
<1>2. room \in Nat /\ (pending[c] > 0 => room = 0) /\ (pending[c] = 0 => room = Room - unread[c])
  BY Bounds
<1>3. /\ after.inbox = inbox[c] \o SubSeq(deltas, 1, fit)
      /\ after.unread = unread[c] + fit
      /\ after.pending = pending[c] + n - fit
  BY DEF Send
<1> HIDE DEF after, room
<1>4. fit \in 0..n /\ fit <= room
  BY <1>1, <1>2
<1>5. fit = n => SubSeq(deltas, 1, fit) = deltas
  <2> HIDE DEF fit
  <2> QED OBVIOUS
<1>6. SubSeq(deltas, 1, fit) \in Seq(S)
  <2> HIDE DEF fit
  <2> QED BY <1>4
<1> HIDE DEF fit, n
<1>7. after.inbox \in Seq(S)
  BY <1>3, <1>6
<1>8. after.unread \in 0..Room
  BY <1>2, <1>3, <1>4, <1>1, Bounds
<1>9. after.pending \in 0..(pending[c] + n)
  BY <1>1, <1>3, <1>4
<1>10. after.pending = 0 => pending[c] = 0 /\ fit = n
  BY <1>1, <1>3, <1>4
<1> QED BY <1>3, <1>5, <1>7, <1>8, <1>9, <1>10 DEF after, n

(* A client that has all that was sent so far has it all again when it     *)
(* gets what is sent now.                                                  *)
LEMMA MoreSent ==
  ASSUME NEW s, NEW t, IsSeq(s), IsSeq(t), NEW i \in 0..Len(s)
  PROVE  SubSeq(s \o t, i + 1, Len(s \o t)) = SubSeq(s, i + 1, Len(s)) \o t
<1> DEFINE S == Elements(s) \cup Elements(t)
<1>1. s \in Seq(S) /\ t \in Seq(S)
  <2>1. \A j \in 1..Len(s) : s[j] \in S
    BY DEF Elements
  <2>2. \A j \in 1..Len(t) : t[j] \in S
    BY DEF Elements
  <2> HIDE DEF S
  <2> QED BY <2>1, <2>2, WithinSeq
<1> HIDE DEF S
<1> DEFINE u == s \o t
           v == SubSeq(u, i + 1, Len(u))
           w == SubSeq(s, i + 1, Len(s)) \o t
<1>2. Len(s) \in Nat /\ Len(t) \in Nat /\ i \in Nat /\ i <= Len(s)
  BY <1>1
<1>3. /\ u \in Seq(S) /\ Len(u) = Len(s) + Len(t)
      /\ \A j \in 1..Len(s) : u[j] = s[j]
      /\ \A j \in 1..Len(t) : u[Len(s) + j] = t[j]
  BY <1>1
<1> HIDE DEF u
<1>4. /\ v \in Seq(S) /\ Len(v) = Len(u) - i
      /\ \A j \in 1..(Len(u) - i) : v[j] = u[i + j]
  <2>1. v \in Seq(S) /\ Len(v) = Len(u) - i
    BY <1>2, <1>3
  <2>2. \A j \in 1..(Len(u) - i) : v[j] = u[i + 1 + j - 1]
    BY <1>2, <1>3
  <2>3. \A j \in 1..(Len(u) - i) : i + 1 + j - 1 = i + j
    BY <1>2, <1>3
  <2> QED BY <2>1, <2>2, <2>3
<1> DEFINE r == SubSeq(s, i + 1, Len(s))
<1>5. /\ r \in Seq(S) /\ Len(r) = Len(s) - i
      /\ \A j \in 1..(Len(s) - i) : r[j] = s[i + j]
  <2>1. r \in Seq(S) /\ Len(r) = Len(s) - i
    BY <1>1, <1>2
  <2>2. \A j \in 1..(Len(s) - i) : r[j] = s[i + 1 + j - 1]
    BY <1>1, <1>2
  <2>3. \A j \in 1..(Len(s) - i) : i + 1 + j - 1 = i + j
    BY <1>2
  <2> QED BY <2>1, <2>2, <2>3
<1>6. w = r \o t
  OBVIOUS
<1> HIDE DEF r, v, w
<1>7. /\ w \in Seq(S) /\ Len(w) = Len(s) - i + Len(t)
      /\ \A j \in 1..(Len(s) - i) : w[j] = r[j]
      /\ \A j \in 1..Len(t) : w[Len(s) - i + j] = t[j]
  <2>1. /\ w \in Seq(S) /\ Len(w) = Len(r) + Len(t)
        /\ \A j \in 1..Len(r) : w[j] = r[j]
        /\ \A j \in 1..Len(t) : w[Len(r) + j] = t[j]
    <3>1. w \in Seq(S)
      BY <1>1, <1>5, <1>6
    <3>2. IsSeq(r) /\ IsSeq(t)
      BY <1>5, SeqIsSeq
    <3> QED BY <1>6, <3>1, <3>2, JoinedIsSeq
  <2> QED BY <1>5, <2>1
<1>8. Len(v) = Len(w)
  BY <1>2, <1>3, <1>4, <1>7
<1>9. ASSUME NEW j \in 1..Len(v) PROVE v[j] = w[j]
  <2>1. v[j] = u[i + j]
    BY <1>4
  <2>2. CASE j \in 1..(Len(s) - i)
    <3>1. i + j \in 1..Len(s)
      BY <1>2, <2>2
    <3> QED BY <1>3, <1>5, <1>7, <2>1, <2>2, <3>1
  <2>3. CASE j \notin 1..(Len(s) - i)
    <3> DEFINE k == j - (Len(s) - i)
    <3>1. k \in 1..Len(t) /\ j = Len(s) - i + k /\ i + j = Len(s) + k
      BY <1>2, <1>3, <1>4, <2>3
    <3> HIDE DEF k
    <3> QED BY <1>3, <1>7, <2>1, <3>1
  <2> QED BY <2>2, <2>3
<1>10. v = w
  <2>1. v \in [1..Len(v) -> S] /\ w \in [1..Len(v) -> S]
    BY <1>4, <1>7, <1>8
  <2> QED BY <1>9, <2>1
<1> QED BY <1>10 DEF u, v, w, r

(* The steps of the server and its clients. *)
LEMMA AcceptIInv ==
  ASSUME IInv, NEW c \in Clients, HandleAccept(c)
  PROVE  IInv'
<1> USE DEF HandleAccept, device, connection
<1>1. /\ sent' = sent /\ samples' = samples /\ cache_' = cache_ /\ now' = now
      /\ reads' = reads /\ shared' = shared /\ inbox' = inbox /\ unread' = unread
      /\ pending' = pending /\ slow' = slow /\ packets' = packets /\ driver' = driver
  OBVIOUS
<1>2. Len(sent) \in Nat
  BY DEF IInv, Typed, IsSeq
<1>3. /\ client' \in [Clients -> {"away", "there", "gone"}]
      /\ \A d \in Clients : client'[d] = IF d = c THEN "there" ELSE client[d]
      /\ DOMAIN since' = Clients
      /\ \A d \in Clients : since'[d] = IF d = c THEN Len(sent) ELSE since[d]
      /\ connections_' = connections_ \cup {c}
  BY DEF IInv, Typed, TypeOK
<1>4. Typed'
  <2>1. /\ Sent' = Sent
        /\ \A d \in Clients : since'[d] \in 0..Len(sent)
        /\ connections_' \subseteq Clients
    <3>1. Sent' = Sent
      BY <1>1 DEF Sent
    <3>2. \A d \in Clients : since[d] \in 0..Len(sent)
      BY DEF IInv, Typed, TypeOK
    <3>3. connections_' \subseteq Clients
      BY <1>3 DEF IInv, Typed, TypeOK
    <3> QED BY <1>2, <1>3, <3>1, <3>2, <3>3
  <2> QED BY <1>1, <1>3, <2>1 DEF IInv, Typed, TypeOK
<1>5. CachePast' /\ Unmixed'
  BY <1>1 DEF IInv, CachePast, Unmixed
<1>6. Delivered'
  <2> SUFFICES ASSUME NEW d \in Clients
               PROVE  /\ client'[d] = "away" => inbox[d] = <<>> /\ pending[d] = 0
                      /\ client'[d] = "there" => d \in connections_'
                      /\ client'[d] = "there" /\ d \notin slow =>
                           /\ pending[d] = 0
                           /\ inbox[d] = SubSeq(sent, since'[d] + 1, Len(sent))
    BY <1>1 DEF Delivered
  <2>1. CASE d = c
    <3>1. inbox[d] = <<>> /\ pending[d] = 0
      BY <2>1 DEF IInv, Delivered
    <3>2. SubSeq(sent, Len(sent) + 1, Len(sent)) = <<>>
      <4>1. sent \in Seq(Elements(sent))
        BY IsSeqTyped DEF IInv, Typed
      <4> QED BY <1>2, <4>1
    <3> QED BY <1>3, <2>1, <3>1, <3>2
  <2>2. CASE d # c
    BY <1>3, <2>2 DEF IInv, Delivered
  <2> QED BY <2>1, <2>2
<1> QED BY <1>4, <1>5, <1>6 DEF IInv

(* A client that reads makes room for late writes; one that keeps up has   *)
(* none.                                                                   *)
LEMMA ClientReadsIInv ==
  ASSUME IInv, NEW c \in Clients, ClientReads(c)
  PROVE  IInv'
<1> DEFINE late == IF pending[c] < Room THEN pending[c] ELSE Room
           garbage == [i \in 1..late |-> Garbage]
<1>1. /\ sent' = sent /\ samples' = samples /\ cache_' = cache_ /\ now' = now
      /\ reads' = reads /\ shared' = shared /\ slow' = slow /\ packets' = packets
      /\ driver' = driver /\ connections_' = connections_ /\ client' = client
      /\ since' = since
  BY DEF ClientReads, device
<1>2. Len(sent) \in Nat /\ pending[c] \in 0..Len(sent) /\ inbox[c] \in Seq(Sent \cup {Garbage})
  BY DEF IInv, Typed, TypeOK, IsSeq
<1>3. late \in 0..Room /\ pending[c] - late \in 0..Len(sent) /\ (pending[c] = 0 => late = 0)
  BY <1>2, Bounds
<1>4. /\ client[c] = "there"
      /\ DOMAIN inbox' = Clients /\ DOMAIN unread' = Clients /\ DOMAIN pending' = Clients
      /\ inbox'[c] = inbox[c] \o garbage /\ unread'[c] = late
      /\ pending'[c] = pending[c] - late
      /\ \A d \in Clients \ {c} : /\ inbox'[d] = inbox[d] /\ unread'[d] = unread[d]
                                  /\ pending'[d] = pending[d]
  BY DEF IInv, Typed, ClientReads
<1> HIDE DEF late
<1>5. garbage \in Seq(Sent \cup {Garbage}) /\ (late = 0 => garbage = <<>>)
  BY <1>3, Bounds
<1> HIDE DEF garbage
<1>6. inbox'[c] \in Seq(Sent \cup {Garbage})
  BY <1>2, <1>4, <1>5
<1>7. Typed'
  <2>1. \A d \in Clients : /\ inbox'[d] \in Seq(Sent \cup {Garbage})
                           /\ unread'[d] \in 0..Room
                           /\ pending'[d] \in 0..Len(sent)
    BY <1>3, <1>4, <1>6 DEF IInv, Typed, TypeOK
  <2>2. Sent' = Sent
    BY <1>1 DEF Sent
  <2> QED BY <1>1, <1>4, <2>1, <2>2 DEF IInv, Typed, TypeOK
<1>8. CachePast' /\ Unmixed'
  BY <1>1 DEF IInv, CachePast, Unmixed
<1>9. Delivered'
  <2> SUFFICES ASSUME NEW d \in Clients
               PROVE  /\ client[d] = "away" => inbox'[d] = <<>> /\ pending'[d] = 0
                      /\ client[d] = "there" => d \in connections_
                      /\ client[d] = "there" /\ d \notin slow =>
                           /\ pending'[d] = 0
                           /\ inbox'[d] = SubSeq(sent, since[d] + 1, Len(sent))
    BY <1>1 DEF Delivered
  <2>1. CASE d = c
    <3>1. d \notin slow => /\ pending[c] = 0
                           /\ inbox[c] = SubSeq(sent, since[c] + 1, Len(sent))
      BY <1>4, <2>1 DEF IInv, Delivered
    <3>2. pending[c] = 0 => inbox'[c] = inbox[c] /\ pending'[c] = 0
      <4>1. inbox[c] \o <<>> = inbox[c]
        BY <1>2
      <4>2. pending[c] = 0 => pending[c] - late = 0
        <5>1. pending[c] = 0 => late = 0
          BY <1>3
        <5>2. 0 - 0 = 0
          OBVIOUS
        <5> QED BY <5>1, <5>2
      <4> QED BY <1>3, <1>4, <1>5, <4>1, <4>2
    <3>3. d \in connections_
      BY <1>4, <2>1 DEF IInv, Delivered
    <3> QED BY <1>4, <2>1, <3>1, <3>2, <3>3
  <2>2. CASE d # c
    BY <1>4, <2>2 DEF IInv, Delivered
  <2> QED BY <2>1, <2>2
<1> QED BY <1>7, <1>8, <1>9 DEF IInv

(* A client that goes takes its connection's buffer with it.               *)
LEMMA ClientGoesIInv ==
  ASSUME IInv, NEW c \in Clients, ClientGoes(c)
  PROVE  IInv'
<1>1. /\ sent' = sent /\ samples' = samples /\ cache_' = cache_ /\ now' = now
      /\ reads' = reads /\ shared' = shared /\ slow' = slow /\ packets' = packets
      /\ driver' = driver /\ connections_' = connections_ /\ since' = since
  BY DEF ClientGoes, device
<1>2. Len(sent) \in Nat
  BY DEF IInv, Typed, IsSeq
<1>3. /\ client' \in [Clients -> {"away", "there", "gone"}]
      /\ DOMAIN inbox' = Clients /\ DOMAIN unread' = Clients /\ DOMAIN pending' = Clients
      /\ client'[c] = "gone" /\ inbox'[c] = <<>> /\ unread'[c] = 0 /\ pending'[c] = 0
      /\ \A d \in Clients \ {c} : /\ client'[d] = client[d] /\ inbox'[d] = inbox[d]
                                  /\ unread'[d] = unread[d] /\ pending'[d] = pending[d]
  BY DEF IInv, Typed, TypeOK, ClientGoes
<1>4. Typed'
  <2>1. \A d \in Clients : /\ inbox'[d] \in Seq(Sent \cup {Garbage})
                           /\ unread'[d] \in 0..Room
                           /\ pending'[d] \in 0..Len(sent)
    <3> SUFFICES ASSUME NEW d \in Clients
                 PROVE  /\ inbox'[d] \in Seq(Sent \cup {Garbage})
                        /\ unread'[d] \in 0..Room
                        /\ pending'[d] \in 0..Len(sent)
      OBVIOUS
    <3>1. CASE d = c
      <4>1. 0 \in 0..Room /\ 0 \in 0..Len(sent)
        BY <1>2, Bounds
      <4> QED BY <1>3, <3>1, <4>1, EmptyTyped
    <3>2. CASE d # c
      BY <1>3, <3>2 DEF IInv, Typed, TypeOK
    <3> QED BY <3>1, <3>2
  <2>2. Sent' = Sent
    BY <1>1 DEF Sent
  <2> QED BY <1>1, <1>3, <2>1, <2>2 DEF IInv, Typed, TypeOK
<1>5. CachePast' /\ Unmixed'
  BY <1>1 DEF IInv, CachePast, Unmixed
<1>6. Delivered'
  <2> SUFFICES ASSUME NEW d \in Clients
               PROVE  /\ client'[d] = "away" => inbox'[d] = <<>> /\ pending'[d] = 0
                      /\ client'[d] = "there" => d \in connections_
                      /\ client'[d] = "there" /\ d \notin slow =>
                           /\ pending'[d] = 0
                           /\ inbox'[d] = SubSeq(sent, since[d] + 1, Len(sent))
    BY <1>1 DEF Delivered
  <2>1. CASE d = c
    BY <1>3, <2>1
  <2>2. CASE d # c
    BY <1>3, <2>2 DEF IInv, Delivered
  <2> QED BY <2>1, <2>2
<1> QED BY <1>4, <1>5, <1>6 DEF IInv

(* A read: what it gives, and what becomes of it. *)
LEMMA ReadIInv ==
  ASSUME IInv, NEW n \in 1..Together, NEW ps \in ReadOf(n), Read(ps)
  PROVE  IInv'
<1> DEFINE values == ValuesOf(ps, now')
           pushed == AllPushed(values)
           deltas == pushed.deltas
<1>1. n \in Nat \ {0} /\ Len(ps) = n
  <2>1. n \in Nat \ {0}
    BY Bounds
  <2>2. ps \in [1..n -> Packets[driver]]
    BY DEF ReadOf
  <2> QED BY <2>1, <2>2, FunctionIsSeq
<1>2. /\ reads < MaxReads /\ reads' = reads + 1 /\ packets' = packets + n
      /\ \E t \in Steps : now' = now + t
      /\ shared' = IF n > 1 \/ (now' = now /\ reads > 0) THEN shared \cup {now'} ELSE shared
      /\ driver' = driver /\ connections_' = connections_ /\ client' = client
      /\ since' = since
  BY <1>1 DEF Read
<1>3. /\ samples' = WithValues(values) /\ cache_' = pushed.cache
      /\ sent' = sent \o deltas /\ SendAll(deltas)
  BY DEF Read
<1>4. /\ now \in Nat /\ now' \in Nat /\ now <= now' /\ now >= 1
      /\ packets \in Nat /\ reads \in Nat /\ MaxReads \in Nat
  BY <1>2, Bounds DEF IInv, Typed, TypeOK, CachePast
<1>5. Paired(values) /\ Stamped(values, now', packets + 1, packets')
  <2>1. driver \in Drivers /\ now' \in Int /\ n \in Nat
    BY <1>1, <1>4 DEF IInv, Typed, TypeOK
  <2> QED BY <1>2, <1>4, <2>1, ReadValues
<1> HIDE DEF values
<1>6. Len(values) \in Nat
  BY <1>5 DEF Paired, IsSeq
<1>7. PICK data : DataAfter(values, data) /\ WithValues(values) = data[Len(values)]
  BY <1>6, DataExists
<1>8. PICK pusher : PusherAfter(values, pusher) /\ pushed = pusher[Len(values)]
  BY <1>6, PusherExists
<1>9. Cached([cache |-> cache_, deltas |-> <<>>], now')
  <2>1. \A q \in Position \cup Attitude : cache_[q].stamp \in Nat /\ cache_[q].stamp <= now'
    BY <1>4 DEF IInv, CachePast
  <2>2. DOMAIN cache_ = Position \cup Attitude /\ IsSeq(<<>>)
    BY DEF IInv, Typed, TypeOK, IsSeq
  <2> QED BY <2>1, <2>2 DEF Cached
<1>10. Cached(pushed, now')
  <2>1. Cached(pusher[Len(values)], now')
    BY <1>4, <1>5, <1>6, <1>8, <1>9, PusherCached
  <2> HIDE DEF pushed
  <2> QED BY <1>8, <2>1
<1>11. IsSeq(deltas)
  <2> HIDE DEF pushed
  <2> QED BY <1>10 DEF Cached
<1>12. SamplesTyped(samples', packets')
  <2>1. SamplesTyped(samples, packets)
    BY DEF IInv, Typed, TypeOK, SamplesTyped
  <2>2. packets' \in Nat /\ packets <= packets'
    BY <1>1, <1>2, <1>4
  <2>3. SamplesTyped(data[Len(values)], packets')
    BY <1>4, <1>5, <1>7, <2>1, <2>2, DataTyped
  <2> QED BY <1>3, <1>7, <2>3
<1>13. PositionTold(samples', sent')
  <2>1. IsSeq(sent) /\ PositionTold(samples, sent)
    BY DEF IInv, Typed, Unmixed
  <2>2. PositionTold(data[Len(values)], sent \o pusher[Len(values)].deltas)
    BY <1>4, <1>5, <1>7, <1>8, <1>9, <2>1, PositionIsTold
  <2> QED BY <1>3, <1>7, <1>8, <2>2
<1> DEFINE alone == now' \notin shared'
<1>14. \A j \in 1..Len(deltas) :
         OnePacket(deltas[j]) \/ (~alone /\ deltas[j].timestamp = now')
  <2>1. alone => /\ packets' = packets + 1
                 /\ \A q \in Position \cup Attitude : cache_[q].stamp # now'
    <3> HAVE alone
    <3>1. ~(n > 1) /\ ~(now' = now /\ reads > 0)
      BY <1>2
    <3>2. n = 1
      BY <1>1, <3>1
    <3>3. ASSUME NEW q \in Position \cup Attitude PROVE cache_[q].stamp # now'
      <4>1. /\ cache_[q].stamp \in Nat /\ cache_[q].stamp <= now
            /\ reads = 0 => cache_[q].stamp = 0
        BY DEF IInv, CachePast
      <4> QED BY <1>4, <3>1, <4>1
    <3> QED BY <1>2, <3>2, <3>3
  <2>2. packets' \in Nat
    BY <1>1, <1>2, <1>4
  <2>3. alone \in BOOLEAN
    OBVIOUS
  <2> HIDE DEF alone
  <2>4. LET ds == pusher[Len(values)].deltas
        IN  \A j \in 1..Len(ds) :
              OnePacket(ds[j]) \/ (~alone /\ ds[j].timestamp = now')
    BY <1>4, <1>5, <1>8, <1>9, <2>1, <2>2, <2>3, DeltasOfOnePacket
  <2> QED BY <1>8, <2>4
<1> HIDE DEF pushed, deltas
<1>15. /\ IsSeq(sent') /\ Len(sent') = Len(sent) + Len(deltas)
       /\ Len(sent) \in Nat /\ Len(deltas) \in Nat /\ IsSeq(sent)
       /\ \A i \in 1..Len(sent) : sent'[i] = sent[i]
       /\ \A i \in 1..Len(deltas) : sent'[Len(sent) + i] = deltas[i]
  <2>1. IsSeq(sent)
    BY DEF IInv, Typed
  <2>2. Len(sent) \in Nat /\ Len(deltas) \in Nat
    BY <1>11, <2>1 DEF IsSeq
  <2> QED BY <1>3, <1>11, <2>1, <2>2, JoinedIsSeq DEF deltas
<1>16. Unmixed'
  <2>1. ASSUME NEW i \in 1..Len(sent'), sent'[i].timestamp \notin shared'
        PROVE  OnePacket(sent'[i])
    <3>1. CASE i \in 1..Len(sent)
      <4>1. sent[i].timestamp \notin shared
        BY <1>2, <1>15, <2>1, <3>1
      <4> QED BY <1>15, <3>1, <4>1 DEF IInv, Unmixed
    <3>2. CASE i \notin 1..Len(sent)
      <4> DEFINE j == i - Len(sent)
      <4>1. j \in 1..Len(deltas) /\ i = Len(sent) + j
        BY <1>15, <3>2
      <4> HIDE DEF j
      <4>2. sent'[i] = deltas[j]
        BY <1>15, <4>1
      <4>3. OnePacket(deltas[j]) \/ (~alone /\ deltas[j].timestamp = now')
        BY <1>14, <4>1
      <4> QED BY <2>1, <4>2, <4>3
    <3> QED BY <3>1, <3>2
  <2> QED BY <1>13, <2>1 DEF Unmixed
<1>17. CachePast'
  <2>1. ASSUME NEW q \in Position \cup Attitude
        PROVE  cache_'[q].stamp \in Nat /\ cache_'[q].stamp <= now'
    BY <1>3, <1>10 DEF Cached
  <2> QED BY <1>2, <1>4, <2>1 DEF CachePast
<1> DEFINE to == {c \in connections_ : client[c] = "there"}
<1>18. /\ DOMAIN inbox' = Clients /\ DOMAIN unread' = Clients /\ DOMAIN pending' = Clients
       /\ \A c \in Clients :
            /\ inbox'[c] = IF c \in to THEN Send(c, deltas).inbox ELSE inbox[c]
            /\ unread'[c] = IF c \in to THEN Send(c, deltas).unread ELSE unread[c]
            /\ pending'[c] = IF c \in to THEN Send(c, deltas).pending ELSE pending[c]
       /\ slow' = slow \cup {c \in to : Send(c, deltas).pending > 0}
  BY <1>3 DEF SendAll
<1>19. ASSUME NEW c \in Clients
       PROVE  LET after == Send(c, deltas)
              IN  /\ after.inbox \in Seq(Sent' \cup {Garbage})
                  /\ inbox[c] \in Seq(Sent' \cup {Garbage})
                  /\ after.unread \in 0..Room
                  /\ after.pending \in 0..(pending[c] + Len(deltas))
                  /\ after.pending = 0 => pending[c] = 0 /\ after.inbox = inbox[c] \o deltas
  <2> DEFINE S == Sent' \cup {Garbage}
  <2>1. Sent \subseteq Sent' /\ \A i \in 1..Len(deltas) : deltas[i] \in Sent'
    <3>1. DOMAIN sent = 1..Len(sent) /\ DOMAIN sent' = 1..(Len(sent) + Len(deltas))
      BY <1>15, IsSeqDomain
    <3>2. \A i \in 1..Len(sent) : i \in DOMAIN sent'
      BY <1>15, <3>1
    <3>3. \A i \in 1..Len(deltas) : Len(sent) + i \in DOMAIN sent'
      BY <1>15, <3>1
    <3>4. \A i \in 1..Len(deltas) : deltas[i] \in Sent'
      BY <1>15, <3>3 DEF Sent
    <3>5. Sent \subseteq Sent'
      BY <1>15, <3>1, <3>2 DEF Sent
    <3> QED BY <3>4, <3>5
  <2>2. inbox[c] \in Seq(S)
    <3>1. inbox[c] \in Seq(Sent \cup {Garbage}) /\ Sent \cup {Garbage} \subseteq S
      BY <2>1 DEF IInv, Typed, TypeOK
    <3> HIDE DEF S
    <3> QED BY <3>1
  <2>3. deltas \in Seq(S)
    <3>1. \A i \in 1..Len(deltas) : deltas[i] \in S
      BY <2>1
    <3> HIDE DEF S
    <3> QED BY <1>11, <3>1, WithinSeq DEF deltas
  <2>4. unread[c] \in 0..Room /\ pending[c] \in Nat
    BY <1>15 DEF IInv, Typed, TypeOK
  <2> HIDE DEF S
  <2>5. LET after == Send(c, deltas)
        IN  /\ after.inbox \in Seq(S)
            /\ after.unread \in 0..Room
            /\ after.pending \in 0..(pending[c] + Len(deltas))
            /\ after.pending = 0 => pending[c] = 0 /\ after.inbox = inbox[c] \o deltas
    BY <2>2, <2>3, <2>4, SendWrites
  <2> QED BY <2>2, <2>5 DEF S
<1>20. Typed'
  <2>1. ASSUME NEW c \in Clients
        PROVE  /\ inbox'[c] \in Seq(Sent' \cup {Garbage})
               /\ unread'[c] \in 0..Room
               /\ pending'[c] \in 0..Len(sent')
               /\ since'[c] \in 0..Len(sent')
    <3>1. unread[c] \in 0..Room /\ pending[c] \in 0..Len(sent) /\ since[c] \in 0..Len(sent)
      BY DEF IInv, Typed, TypeOK
    <3>2. pending'[c] \in 0..Len(sent')
      <4>1. 0..(pending[c] + Len(deltas)) \subseteq 0..Len(sent')
        BY <1>15, <3>1
      <4> QED BY <1>15, <1>18, <1>19, <3>1, <4>1
    <3>3. inbox'[c] \in Seq(Sent' \cup {Garbage})
      BY <1>18, <1>19
    <3>4. unread'[c] \in 0..Room
      BY <1>18, <1>19, <3>1
    <3> QED BY <1>2, <1>15, <3>1, <3>2, <3>3, <3>4
  <2>2. slow' \subseteq Clients
    <3>1. slow \subseteq Clients /\ connections_ \subseteq Clients
      BY DEF IInv, Typed, TypeOK
    <3> QED BY <1>18, <3>1
  <2>3. DOMAIN cache_' = Position \cup Attitude
    BY <1>3, <1>10 DEF Cached
  <2>4. reads' \in 0..MaxReads /\ packets' \in Nat /\ now' \in Nat
    BY <1>1, <1>2, <1>4
  <2>5. /\ DOMAIN samples' \subseteq Quantities
        /\ \A q \in DOMAIN samples' :
             samples'[q].quantity = q /\ samples'[q].of \in 1..packets'
    BY <1>12 DEF SamplesTyped
  <2>6. /\ driver' \in Drivers /\ connections_' \subseteq Clients
        /\ client' \in [Clients -> {"away", "there", "gone"}] /\ DOMAIN since' = Clients
    BY <1>2 DEF IInv, Typed, TypeOK
  <2>7. Quantities' = Quantities
    BY DEF Quantities
  <2>8. TypeOK'
    BY <2>1, <2>2, <2>3, <2>4, <2>5, <2>6, <2>7 DEF TypeOK
  <2> QED BY <1>15, <1>18, <2>6, <2>8 DEF Typed
<1>21. Delivered'
  <2> SUFFICES ASSUME NEW c \in Clients
               PROVE  /\ client[c] = "away" => inbox'[c] = <<>> /\ pending'[c] = 0
                      /\ client[c] = "there" => c \in connections_
                      /\ client[c] = "there" /\ c \notin slow' =>
                           /\ pending'[c] = 0
                           /\ inbox'[c] = SubSeq(sent', since[c] + 1, Len(sent'))
    BY <1>2 DEF Delivered
  <2>1. /\ client[c] = "away" => inbox[c] = <<>> /\ pending[c] = 0
        /\ client[c] = "there" => c \in connections_
        /\ client[c] = "there" /\ c \notin slow =>
             pending[c] = 0 /\ inbox[c] = SubSeq(sent, since[c] + 1, Len(sent))
    BY DEF IInv, Delivered
  <2>2. CASE client[c] # "there"
    <3>1. inbox'[c] = inbox[c] /\ pending'[c] = pending[c]
      BY <1>18, <2>2
    <3> QED BY <2>1, <2>2, <3>1
  <2>3. CASE client[c] = "there"
    <3> DEFINE after == Send(c, deltas)
    <3>1. c \in to
      BY <2>1, <2>3
    <3>2. inbox'[c] = after.inbox /\ pending'[c] = after.pending
      BY <1>18, <3>1
    <3>3. c \notin slow' => c \notin slow /\ ~(after.pending > 0)
      BY <1>18, <3>1
    <3>4. /\ after.pending \in 0..(pending[c] + Len(deltas))
          /\ after.pending = 0 => after.inbox = inbox[c] \o deltas
      BY <1>19
    <3>5. pending[c] \in Nat /\ since[c] \in 0..Len(sent)
      BY <1>15 DEF IInv, Typed, TypeOK
    <3> HIDE DEF after
    <3>6. ASSUME c \notin slow'
          PROVE  pending'[c] = 0 /\ inbox'[c] = SubSeq(sent', since[c] + 1, Len(sent'))
      <4>1. after.pending = 0
        BY <1>15, <3>3, <3>4, <3>5, <3>6
      <4>2. SubSeq(sent \o deltas, since[c] + 1, Len(sent \o deltas))
              = SubSeq(sent, since[c] + 1, Len(sent)) \o deltas
        BY <1>11, <1>15, <3>5, MoreSent DEF deltas
      <4>3. inbox[c] = SubSeq(sent, since[c] + 1, Len(sent))
        BY <2>1, <2>3, <3>3, <3>6
      <4> QED BY <1>3, <3>2, <3>4, <4>1, <4>2, <4>3
    <3> QED BY <2>1, <2>3, <3>6
  <2> QED BY <2>2, <2>3
<1> QED BY <1>16, <1>17, <1>20, <1>21 DEF IInv

(* Every step keeps the inductive invariant. *)
LEMMA NextIInv == IInv /\ [Next]_vars => IInv'
<1> SUFFICES ASSUME IInv, [Next]_vars PROVE IInv' OBVIOUS
<1>1. CASE UNCHANGED vars
  <2>1. /\ sent' = sent /\ samples' = samples /\ cache_' = cache_ /\ now' = now
        /\ reads' = reads /\ shared' = shared /\ slow' = slow /\ packets' = packets
        /\ driver' = driver /\ connections_' = connections_ /\ since' = since
        /\ client' = client /\ inbox' = inbox /\ unread' = unread /\ pending' = pending
    BY <1>1 DEF vars, device, connection
  <2>2. Typed'
    <3>1. Sent' = Sent
      BY <2>1 DEF Sent
    <3> QED BY <2>1, <3>1 DEF IInv, Typed, TypeOK
  <2>3. CachePast' /\ Unmixed'
    BY <2>1 DEF IInv, CachePast, Unmixed
  <2>4. Delivered'
    BY <2>1 DEF IInv, Delivered
  <2> QED BY <2>2, <2>3, <2>4 DEF IInv
<1>2. ASSUME NEW n \in 1..Together, NEW ps \in ReadOf(n), Read(ps) PROVE IInv'
  BY <1>2, ReadIInv
<1>3. ASSUME NEW c \in Clients, HandleAccept(c) \/ ClientReads(c) \/ ClientGoes(c)
      PROVE  IInv'
  BY <1>3, AcceptIInv, ClientReadsIInv, ClientGoesIInv
<1> QED BY <1>1, <1>2, <1>3 DEF Next

(* Every state has the invariant.                                          *)
LEMMA Inductive == Spec => []IInv
  BY InitIInv, NextIInv, PTL DEF Spec

(* The state of the device, its processor and the connections is of its    *)
(* type: in particular all that a client gets was sent, whole or not, and  *)
(* no sample of the device is of a packet that has not come (device.h:258, *)
(* signalk_server.cpp:4-9).                                                *)
THEOREM TypeCorrect == Spec => []TypeOK
<1>1. IInv => TypeOK
  BY DEF IInv, Typed
<1> QED BY <1>1, Inductive, PTL

(* However many clients come, go and read slowly, one that keeps up gets   *)
(* every delta sent since it was accepted, once, whole and in order        *)
(* (signalk_server.cpp:5-9, 41-46).                                        *)
THEOREM ClientsGetEveryDelta == Spec => []DeltasDelivered
<1>1. IInv => DeltasDelivered
  BY DEF IInv, Delivered, DeltasDelivered
<1> QED BY <1>1, Inductive, PTL

(* Whatever a Ublox or an Xsens sends and however reads cut it, a delta is *)
(* of one packet unless packets shared a stamp, and even then the last     *)
(* position that was sent is the position of the device, of one packet     *)
(* (signalk_converter.cpp:8-28).                                           *)
THEOREM PacketsAreNotMixed == Spec => []MeasurementsNotMixed
<1>1. IInv => MeasurementsNotMixed
  <2> SUFFICES ASSUME IInv PROVE MeasurementsNotMixed OBVIOUS
  <2>1. IsSeq(sent) /\ DOMAIN sent = 1..Len(sent) /\ Len(sent) \in Nat
    BY IsSeqDomain DEF IInv, Typed, IsSeq
  <2>2. \A d \in Sent : d.timestamp \notin shared =>
          \A q, r \in DOMAIN d.value : d.value[q].of = d.value[r].of
    BY <2>1 DEF IInv, Unmixed, Sent, OnePacket
  <2>3. ("la" \in DOMAIN samples) = ("lo" \in DOMAIN samples)
    BY DEF IInv, Unmixed, PositionTold
  <2>4. ASSUME "la" \in DOMAIN samples
        PROVE  LET last == SelectLastInSeq(sent, LAMBDA d : d.path = "position")
               IN  /\ samples["la"].of = samples["lo"].of
                   /\ last # 0
                   /\ \A q \in Position : sent[last].value[q] = samples[q]
    <3> DEFINE last == SelectLastInSeq(sent, LAMBDA d : d.path = "position")
               I == {i \in 1..Len(sent) : sent[i].path = "position"}
    <3>1. /\ samples["la"].of = samples["lo"].of
          /\ \E l : /\ LastPosition(sent, l)
                    /\ \A q \in Position : sent[l].value[q] = samples[q]
      BY <2>4 DEF IInv, Unmixed, PositionTold
    <3>2. PICK l : /\ LastPosition(sent, l)
                   /\ \A q \in Position : sent[l].value[q] = samples[q]
      BY <3>1
    <3>3. l \in I /\ l # 0 /\ \A i \in I : l >= i
      BY <2>1, <3>2 DEF LastPosition
    <3>4. last = IF I # {} THEN Max(I) ELSE 0
      BY DEF SelectLastInSeq
    <3>5. Max(I) = l
      <4>1. \A x \in I : (\A y \in I : x >= y) => x = l
        BY <2>1, <3>3
      <4> HIDE DEF I
      <4> QED BY <3>3, <4>1 DEF Max
    <3>6. last = l
      BY <3>3, <3>4, <3>5
    <3> HIDE DEF last
    <3>7. /\ samples["la"].of = samples["lo"].of /\ last # 0
          /\ \A q \in Position : sent[last].value[q] = samples[q]
      BY <3>1, <3>2, <3>3, <3>6
    <3> QED BY <3>7 DEF last
  <2> QED BY <2>2, <2>3, <2>4 DEF MeasurementsNotMixed
<1> QED BY <1>1, Inductive, PTL

-----------------------------------------------------------------------------
(* Words and numbers.                                                      *)

(* A number is its quotient times the divisor and a remainder.             *)
LEMMA Divided ==
  ASSUME NEW n \in Int, NEW w \in Nat \ {0}
  PROVE  /\ n \div w \in Int /\ n % w \in Int
         /\ n = w * (n \div w) + (n % w) /\ 0 <= n % w /\ n % w < w
  OBVIOUS

(* There is one such quotient and remainder.                               *)
LEMMA DividedOnce ==
  ASSUME NEW n \in Int, NEW w \in Nat \ {0}, NEW a \in Int, NEW r \in Int,
         n = w * a + r, 0 <= r, r < w
  PROVE  n \div w = a /\ n % w = r
  OBVIOUS

(* Divided by one number and by another one.                               *)
LEMMA DividedTwice ==
  ASSUME NEW n \in Int, NEW v \in Nat \ {0}, NEW w \in Nat \ {0}
  PROVE  n \div (v * w) = (n \div v) \div w /\ v * w \in Nat \ {0}
<1> DEFINE a == n \div v
           r == n % v
           b == a \div w
           s == a % w
<1>1. a \in Int /\ r \in Int /\ n = v * a + r /\ 0 <= r /\ r < v
  BY Divided
<1> HIDE DEF a, r
<1>2. b \in Int /\ s \in Int /\ a = w * b + s /\ 0 <= s /\ s < w
  BY <1>1, Divided
<1> HIDE DEF b, s
<1> DEFINE t == v * s + r
           u == v * w
<1>3. u \in Nat \ {0} /\ t \in Int
  BY ONLY <1>1, <1>2, v \in Nat \ {0}, w \in Nat \ {0}
<1>4. n = u * b + t
  BY ONLY <1>1, <1>2, v \in Nat \ {0}, w \in Nat \ {0}
<1>5. 0 <= t /\ t < u
  <2>1. 0 <= v * s
    BY ONLY <1>2, v \in Nat \ {0}
  <2>2. v * s <= v * (w - 1)
    BY ONLY <1>2, v \in Nat \ {0}, w \in Nat \ {0}
  <2>3. v * (w - 1) = v * w - v
    BY ONLY v \in Nat \ {0}, w \in Nat \ {0}
  <2>4. v * s \in Int /\ v * w \in Int
    BY ONLY <1>2, v \in Nat \ {0}, w \in Nat \ {0}
  <2> QED BY ONLY <1>1, <2>1, <2>2, <2>3, <2>4, v \in Nat \ {0}
<1> HIDE DEF u, t
<1>6. n \div u = b
  BY <1>2, <1>3, <1>4, <1>5, DividedOnce
<1> QED BY <1>3, <1>6 DEF u, b, a

(* Four words spell a number of four words.                                *)
LEMMA FourWords ==
  ASSUME NEW n \in Int
  PROVE  ((WordOf(n, 0) * Word + WordOf(n, 1)) * Word * Word)
             + (WordOf(n, 2) * Word + WordOf(n, 3))
           = n % (Word * Word * Word * Word)
<1> DEFINE w == Word
           a == n \div w
           b == a \div w
           c == b \div w
           d == c \div w
           d0 == n % w
           d1 == a % w
           d2 == b % w
           d3 == c % w
<1>1. w \in Nat \ {0}
  BY ModbusAssumption
<1>w. WordOf(n, 0) = (n \div (w * w * w)) % w /\ WordOf(n, 1) = (n \div (w * w)) % w
      /\ WordOf(n, 2) = (n \div w) % w /\ WordOf(n, 3) = (n \div 1) % w
  BY DEF WordOf
<1> HIDE DEF w
<1>2. a \in Int /\ d0 \in Int /\ n = w * a + d0 /\ 0 <= d0 /\ d0 < w
  BY <1>1, Divided
<1>3. n \div (w * w) = b /\ w * w \in Nat \ {0}
  BY <1>1, DividedTwice
<1>4. n \div (w * w * w) = c
  <2> DEFINE v == w * w
  <2>1. v \in Nat \ {0} /\ n \div v = b
    BY <1>3
  <2> HIDE DEF v
  <2>2. n \div (v * w) = (n \div v) \div w
    BY <1>1, <2>1, DividedTwice
  <2> QED BY <2>1, <2>2 DEF v
<1>5. n \div 1 = n
  OBVIOUS
<1>6. WordOf(n, 0) = d3 /\ WordOf(n, 1) = d2 /\ WordOf(n, 2) = d1 /\ WordOf(n, 3) = d0
  BY <1>w, <1>3, <1>4, <1>5
<1> HIDE DEF a, d0
<1>7. b \in Int /\ d1 \in Int /\ a = w * b + d1 /\ 0 <= d1 /\ d1 < w
  BY <1>1, <1>2, Divided
<1> HIDE DEF b, d1
<1>8. c \in Int /\ d2 \in Int /\ b = w * c + d2 /\ 0 <= d2 /\ d2 < w
  BY <1>1, <1>7, Divided
<1> HIDE DEF c, d2
<1>9. d \in Int /\ d3 \in Int /\ c = w * d + d3 /\ 0 <= d3 /\ d3 < w
  BY <1>1, <1>8, Divided
<1> HIDE DEF d, d3
<1> DEFINE v == w * w
           low == d1 * w + d0
           high == d3 * w + d2
<1>10. v \in Nat \ {0} /\ low \in Int /\ high \in Int
  BY ONLY <1>1, <1>2, <1>3, <1>7, <1>8, <1>9
<1>11. 0 <= low /\ low < v
  <2>1. d1 * w <= (w - 1) * w /\ 0 <= d1 * w
    BY ONLY <1>1, <1>7
  <2>2. (w - 1) * w = w * w - w /\ d1 * w \in Int /\ w * w \in Int
    BY ONLY <1>1, <1>7
  <2> QED BY ONLY <1>1, <1>2, <2>1, <2>2
<1>12. 0 <= high /\ high < v
  <2>1. d3 * w <= (w - 1) * w /\ 0 <= d3 * w
    BY ONLY <1>1, <1>9
  <2>2. (w - 1) * w = w * w - w /\ d3 * w \in Int /\ w * w \in Int
    BY ONLY <1>1, <1>9
  <2> QED BY ONLY <1>1, <1>8, <2>1, <2>2
<1>13. n = v * b + low
  <2>1. n = w * (w * b + d1) + d0
    BY <1>2, <1>7
  <2> QED BY ONLY <2>1, <1>1, <1>2, <1>7
<1>14. b = v * d + high
  <2>1. b = w * (w * d + d3) + d2
    BY <1>8, <1>9
  <2> QED BY ONLY <2>1, <1>1, <1>8, <1>9
<1> HIDE DEF low, high
<1> DEFINE r == high * v + low
           u == v * v
<1>15. u \in Nat \ {0} /\ r \in Int
  <2> HIDE DEF v
  <2> QED BY ONLY <1>10
<1>16. n = u * d + r
  <2> HIDE DEF v
  <2>1. n = v * (v * d + high) + low
    BY <1>13, <1>14
  <2> QED BY ONLY <2>1, <1>9, <1>10
<1>17. 0 <= r /\ r < u
  <2> HIDE DEF v
  <2>1. high * v <= (v - 1) * v /\ 0 <= high * v
    BY ONLY <1>10, <1>12
  <2>2. (v - 1) * v = v * v - v /\ high * v \in Int /\ v * v \in Int
    BY ONLY <1>10
  <2> QED BY ONLY <1>10, <1>11, <2>1, <2>2
<1> HIDE DEF r, u
<1>18. n % u = r
  BY <1>9, <1>15, <1>16, <1>17, DividedOnce
<1>19. u = w * w * w * w
  BY <1>1 DEF u
<1>20. r = high * w * w + low
  BY <1>1, <1>10 DEF r
<1> QED BY <1>6, <1>18, <1>19, <1>20 DEF w, high, low

(* Two words spell a number of two words.                                  *)
LEMMA TwoWords ==
  ASSUME NEW n \in Int
  PROVE  (n \div Word) * Word + (n % Word) = n
<1> DEFINE w == Word
           a == n \div w
           b == n % w
<1>1. w \in Nat \ {0}
  BY ModbusAssumption
<1> HIDE DEF w
<1>2. a \in Int /\ b \in Int /\ n = w * a + b
  BY <1>1, Divided
<1> HIDE DEF a, b
<1>3. a * w + b = n
  BY ONLY <1>1, <1>2
<1> QED BY <1>3 DEF w, a, b

-----------------------------------------------------------------------------
(* Scaling.                                                                *)

(* What the configuration gives for a quantity are numbers, and its bounds *)
(* are in order unless it has a factor.                                    *)
Scaled(q) ==
  LET s == Scale(q)
  IN  /\ {s.min, s.max, s.multiplier, s.offset} \subseteq Int /\ s.signed \in BOOLEAN
      /\ s.multiplier = 0 => s.min < s.max

(* A number that is kept within the range.                                 *)
LEMMA ClampedIs ==
  ASSUME NEW x \in Int, NEW range \in Nat \ {0}
  PROVE  /\ Clamped(x, range) \in Int /\ 0 <= Clamped(x, range) /\ Clamped(x, range) < range
         /\ x < 0 => Clamped(x, range) = 0
         /\ x >= range - 1 => Clamped(x, range) = range - 1
         /\ 0 <= x /\ x < range => Clamped(x, range) = x
  BY DEF Clamped

(* The top bit, inverted, is within the range, and inverted again it is as *)
(* before.                                                                 *)
LEMMA TopBit ==
  ASSUME NEW half \in Nat \ {0}, NEW x \in Int, 0 <= x, x < 2 * half
  PROVE  LET y == (x + half) % (2 * half)
         IN  y \in Int /\ 0 <= y /\ y < 2 * half /\ (y + half) % (2 * half) = x
<1> DEFINE range == 2 * half
           y == (x + half) % range
<1>1. range \in Nat \ {0} /\ range = half + half
  OBVIOUS
<1> HIDE DEF range
<1>2. CASE x < half
  <2>1. x + half = range * 0 + (x + half) /\ 0 <= x + half /\ x + half < range
    BY <1>1, <1>2
  <2>2. y = x + half
    BY <1>1, <2>1, DividedOnce
  <2>3. y + half = range * 1 + x /\ y + half \in Int
    BY <1>1, <2>2
  <2>4. x < range
    BY <1>1
  <2>5. (y + half) % range = x
    BY <1>1, <2>3, <2>4, DividedOnce
  <2> QED BY <2>1, <2>2, <2>5 DEF range
<1>3. CASE x >= half
  <2>1. x + half = range * 1 + (x - half) /\ 0 <= x - half /\ x - half < range
    BY <1>1, <1>3
  <2>2. y = x - half
    BY <1>1, <2>1, DividedOnce
  <2>3. y + half = range * 0 + x /\ y + half \in Int /\ x < range
    BY <1>1, <2>2
  <2>4. (y + half) % range = x
    BY <1>1, <2>3, DividedOnce
  <2> QED BY <2>1, <2>2, <2>4 DEF range
<1> QED BY <1>2, <1>3

(* A value between two bounds, in a range.                                 *)
LEMMA BetweenBounds ==
  ASSUME NEW low \in Int, NEW high \in Int, low < high, NEW range \in Nat \ {0},
         NEW value \in Int
  PROVE  LET raw == ((value - low) * range) \div (high - low)
             x == Clamped(raw, range)
             above == (value - low) * range - x * (high - low)
         IN  /\ raw \in Int
             /\ value < low => x = 0
             /\ value >= high => x = range - 1
             /\ low <= value /\ value < high => 0 <= above /\ above < high - low
<1> DEFINE width == high - low
           n == (value - low) * range
           raw == n \div width
           rest == n % width
           x == Clamped(raw, range)
           above == n - x * width
<1>1. width \in Nat \ {0} /\ n \in Int
  OBVIOUS
<1> HIDE DEF width
<1>2. raw \in Int /\ rest \in Int /\ n = width * raw + rest /\ 0 <= rest /\ rest < width
  <2> HIDE DEF n
  <2> QED BY <1>1, Divided
<1> HIDE DEF raw, rest
<1>3. /\ x \in Int /\ 0 <= x /\ x < range
      /\ raw < 0 => x = 0
      /\ raw >= range - 1 => x = range - 1
      /\ 0 <= raw /\ raw < range => x = raw
  BY <1>2, ClampedIs
<1> HIDE DEF x
<1>4. ASSUME value < low PROVE x = 0
  <2>1. n < 0
    <3>1. value - low < 0 /\ value - low \in Int
      BY <1>4
    <3> DEFINE d == value - low
    <3> HIDE DEF d
    <3> QED BY <3>1 DEF d
  <2> HIDE DEF n
  <2>2. width * raw < 0
    BY <1>1, <1>2, <2>1
  <2>3. raw < 0
    BY ONLY <1>1, <1>2, <2>2
  <2> QED BY <1>3, <2>3
<1>5. ASSUME value >= high PROVE x = range - 1
  <2>1. n >= width * range
    <3>1. value - low >= width /\ value - low \in Int
      BY <1>5 DEF width
    <3> DEFINE d == value - low
    <3>2. d \in Int /\ d >= width
      BY <3>1
    <3> HIDE DEF d
    <3>3. d * range >= width * range
      BY ONLY <1>1, <3>2, range \in Nat \ {0}
    <3> QED BY <3>3 DEF d
  <2> HIDE DEF n
  <2>2. raw >= range
    <3>1. ASSUME raw <= range - 1 PROVE FALSE
      <4>1. width * raw <= width * (range - 1)
        BY ONLY <1>1, <1>2, <3>1, range \in Nat \ {0}
      <4>2. width * (range - 1) = width * range - width
        BY ONLY <1>1, range \in Nat \ {0}
      <4>3. width * range \in Int /\ width * raw \in Int
        BY ONLY <1>1, <1>2, range \in Nat \ {0}
      <4> QED BY ONLY <1>1, <1>2, <2>1, <4>1, <4>2, <4>3
    <3> QED BY <1>2, <3>1
  <2> QED BY <1>2, <1>3, <2>2
<1>6. ASSUME low <= value, value < high PROVE 0 <= above /\ above < width
  <2> DEFINE d == value - low
  <2>1. d \in Int /\ 0 <= d /\ d <= width - 1 /\ n = d * range
    BY <1>6 DEF width
  <2> HIDE DEF d
  <2>2. 0 <= n /\ n < width * range
    <3>1. 0 <= d * range /\ d * range <= (width - 1) * range
      BY ONLY <1>1, <2>1, range \in Nat \ {0}
    <3>2. (width - 1) * range = width * range - range /\ width * range \in Int
      BY ONLY <1>1, range \in Nat \ {0}
    <3> QED BY ONLY <2>1, <3>1, <3>2, range \in Nat \ {0}, <1>1
  <2> HIDE DEF n
  <2>3. 0 <= raw
    <3>1. ASSUME raw <= -1 PROVE FALSE
      <4>1. width * raw <= -width
        BY ONLY <1>1, <1>2, <3>1
      <4>2. width * raw \in Int
        BY ONLY <1>1, <1>2
      <4> QED BY ONLY <1>1, <1>2, <2>2, <4>1, <4>2
    <3> QED BY <1>2, <3>1
  <2>4. raw < range
    <3>1. ASSUME raw >= range PROVE FALSE
      <4>1. width * raw >= width * range
        BY ONLY <1>1, <1>2, <3>1, range \in Nat \ {0}
      <4>2. width * raw \in Int /\ width * range \in Int
        BY ONLY <1>1, <1>2, range \in Nat \ {0}
      <4> QED BY ONLY <1>1, <1>2, <2>2, <4>1, <4>2
    <3> QED BY <1>2, <3>1
  <2>5. x = raw
    BY <1>3, <2>3, <2>4
  <2>6. above = rest
    <3>1. above = n - raw * width
      BY <2>5
    <3> HIDE DEF above
    <3> QED BY ONLY <1>1, <1>2, <3>1
  <2> QED BY <1>2, <2>6
<1> QED BY <1>2, <1>4, <1>5, <1>6 DEF width, n, raw, x

(* A value is scaled as the manual has it (quantities.h:652-684).          *)
LEMMA ScaleEncodes ==
  ASSUME NEW q, Scaled(q), NEW value \in Int, NEW half \in Nat \ {0}
  PROVE  /\ scale_to(2 * half, q, value) \in Int
         /\ Encodes(q, 2 * half, scale_to(2 * half, q, value), value)
<1> DEFINE s == Scale(q)
           range == 2 * half
           raw == IF s.multiplier # 0
                  THEN (value - s.offset) * s.multiplier + range \div 2
                  ELSE ((value - s.min) * range) \div (s.max - s.min)
           x == Clamped(raw, range)
           y == scale_to(range, q, value)
           plain == IF s.signed THEN (y + half) % range ELSE y
           exact == s.multiplier * (value - s.offset)
           number == plain - half
           above == (value - s.min) * range - plain * (s.max - s.min)
<1>1. /\ s.min \in Int /\ s.max \in Int /\ s.multiplier \in Int /\ s.offset \in Int
      /\ s.signed \in BOOLEAN /\ (s.multiplier = 0 => s.min < s.max)
  BY DEF Scaled
<1>2. range \in Nat \ {0} /\ range \div 2 = half /\ range = 2 * half
  <2>1. 2 * half = 2 * half + 0 /\ 2 * half \in Int
    OBVIOUS
  <2>2. (2 * half) \div 2 = half
    BY <2>1, DividedOnce
  <2> QED BY <2>2
<1>3. y = IF s.signed THEN (x + half) % range ELSE x
  BY <1>2 DEF scale_to
<1> DEFINE encoded == Encodes(q, range, y, value)
<1>4. encoded
        <=> IF s.multiplier # 0
            THEN CASE exact < -half    -> number = -half
                   [] exact > half - 1 -> number = half - 1
                   [] OTHER            -> number = exact
            ELSE CASE value < s.min  -> plain = 0
                   [] value >= s.max -> plain = range - 1
                   [] OTHER          -> 0 <= above /\ above < s.max - s.min
  BY <1>2 DEF Encodes
<1> SUFFICES y \in Int /\ encoded
  OBVIOUS
<1> HIDE DEF s, y, range, encoded
<1>5. CASE s.multiplier # 0
  <2>1. raw = (value - s.offset) * s.multiplier + half
    BY <1>2, <1>5
  <2>2. exact \in Int /\ raw = exact + half
    BY <1>1, <2>1
  <2> HIDE DEF raw, exact
  <2>3. /\ x \in Int /\ 0 <= x /\ x < range
        /\ raw < 0 => x = 0
        /\ raw >= range - 1 => x = range - 1
        /\ 0 <= raw /\ raw < range => x = raw
    BY <1>2, <2>2, ClampedIs
  <2> HIDE DEF x
  <2>4. y \in Int /\ plain = x
    <3>1. LET z == (x + half) % range
          IN  z \in Int /\ 0 <= z /\ z < range /\ (z + half) % range = x
      BY <1>2, <2>3, TopBit, ZenonT(90)
    <3> QED BY <1>1, <1>3, <2>3, <3>1
  <2> HIDE DEF plain
  <2>5. CASE exact < -half
    <3>1. ~(exact > half - 1) /\ number = -half
      BY <1>2, <2>2, <2>3, <2>4, <2>5
    <3> HIDE DEF number
    <3>2. encoded
      BY ONLY <1>4, <1>5, <2>5, <3>1
    <3> QED BY <2>4, <3>2
  <2>6. CASE exact > half - 1
    <3>1. ~(exact < -half) /\ number = half - 1
      BY <1>2, <2>2, <2>3, <2>4, <2>6
    <3> HIDE DEF number
    <3>2. encoded
      BY ONLY <1>4, <1>5, <2>6, <3>1
    <3> QED BY <2>4, <3>2
  <2>7. CASE ~(exact < -half) /\ ~(exact > half - 1)
    <3>1. number = exact
      BY <1>2, <2>2, <2>3, <2>4, <2>7
    <3> HIDE DEF number
    <3>2. encoded
      BY ONLY <1>4, <1>5, <2>7, <3>1
    <3> QED BY <2>4, <3>2
  <2> QED BY <2>5, <2>6, <2>7
<1>6. CASE s.multiplier = 0
  <2> DEFINE r == ((value - s.min) * range) \div (s.max - s.min)
  <2>1. raw = r
    BY <1>6
  <2>2. s.min \in Int /\ s.max \in Int /\ s.min < s.max
    BY <1>1, <1>6
  <2> DEFINE a == (value - s.min) * range - x * (s.max - s.min)
  <2>3. /\ r \in Int
        /\ value < s.min => x = 0
        /\ value >= s.max => x = range - 1
        /\ s.min <= value /\ value < s.max => 0 <= a /\ a < s.max - s.min
    <3> DEFINE low == s.min
               high == s.max
    <3> HIDE DEF low, high
    <3>1. low \in Int /\ high \in Int /\ low < high
      BY <2>2 DEF low, high
    <3> DEFINE rr == ((value - low) * range) \div (high - low)
               xx == Clamped(rr, range)
               aa == (value - low) * range - xx * (high - low)
    <3>2. /\ rr \in Int
          /\ value < low => xx = 0
          /\ value >= high => xx = range - 1
          /\ low <= value /\ value < high => 0 <= aa /\ aa < high - low
      BY ONLY <1>2, <3>1, value \in Int, BetweenBounds
    <3> QED BY <2>1, <3>2 DEF low, high
  <2> HIDE DEF r, a
  <2>4. x \in Int /\ 0 <= x /\ x < range
    BY <1>2, <2>1, <2>3, ClampedIs
  <2>5. y \in Int /\ plain = x
    <3> HIDE DEF x
    <3>1. LET z == (x + half) % range
          IN  z \in Int /\ 0 <= z /\ z < range /\ (z + half) % range = x
      BY <1>2, <2>4, TopBit
    <3> QED BY <1>1, <1>3, <2>4, <3>1
  <2>6. above = a
    <3> HIDE DEF x, plain
    <3> QED BY <2>5 DEF a
  <2> HIDE DEF x, plain, above
  <2>7. CASE value < s.min
    <3>1. ~(value >= s.max) /\ plain = 0
      BY <2>2, <2>3, <2>5, <2>7
    <3>2. encoded
      BY ONLY <1>4, <1>6, <2>7, <3>1
    <3> QED BY <2>5, <3>2
  <2>8. CASE value >= s.max
    <3>1. ~(value < s.min) /\ plain = range - 1
      BY <2>2, <2>3, <2>5, <2>8
    <3>2. encoded
      BY ONLY <1>4, <1>6, <2>8, <3>1
    <3> QED BY <2>5, <3>2
  <2>9. CASE ~(value < s.min) /\ ~(value >= s.max)
    <3>1. s.min <= value /\ value < s.max
      BY <2>2, <2>9
    <3>2. 0 <= above /\ above < s.max - s.min
      BY <2>3, <2>6, <3>1
    <3>3. encoded
      BY ONLY <1>4, <1>6, <2>9, <3>2
    <3> QED BY <2>5, <3>3
  <2> QED BY <2>7, <2>8, <2>9
<1> QED BY <1>1, <1>5, <1>6

-----------------------------------------------------------------------------
(* Registers.                                                              *)

(* The quantities behind the registers that are looked at.                 *)
LEMMA RegisterQuantities ==
  QuantityOf(0) = "ut" /\ QuantityOf(1) = "la" /\ QuantityOf(2) = "lo"
<1>1. DOMAIN Quantity = 1..78 /\ Quantity[2] = "la" /\ Quantity[3] = "lo"
  BY QuantityPlaces
<1>2. Quantity[1] = "ut"
  BY DEF Quantity
<1> QED BY <1>1, <1>2 DEF QuantityOf

(* Halves of the range.                                                    *)
LEMMA WholeRange ==
  \E half \in Nat \ {0} : Word * Word = 2 * half /\ Word * Word \in Nat \ {0}
<1>1. Word \in Nat \ {0} /\ Word % 2 = 0
  BY ModbusAssumption
<1>2. PICK h \in Nat : Word = 2 * h
  <2>1. Word = 2 * (Word \div 2) + (Word % 2) /\ Word \div 2 \in Int
    BY <1>1, Divided
  <2>2. Word \div 2 \in Nat
    BY <1>1, <2>1
  <2> QED BY <1>1, <2>1, <2>2
<1> DEFINE w == Word
<1>3. w \in Nat \ {0} /\ w = 2 * h
  BY <1>1, <1>2
<1> HIDE DEF w
<1>4. w * w \in Nat \ {0} /\ h * w \in Nat /\ w * w = 2 * (h * w)
  BY ONLY <1>3, h \in Nat
<1> DEFINE k == h * w
<1>5. k \in Nat \ {0} /\ w * w = 2 * k
  BY ONLY <1>4
<1> QED BY <1>4, <1>5 DEF w

(* Two registers encode a quantity (modbus.cpp:84-103).                    *)
LEMMA HalvesEncode ==
  ASSUME NEW q, Scaled(q), NEW value \in Int
  PROVE  Encodes(q, Word * Word, HalfOf(q, value, 0) * Word + HalfOf(q, value, 1), value)
<1>1. PICK half \in Nat \ {0} : Word * Word = 2 * half
  BY WholeRange
<1> DEFINE both == scale_to(Word * Word, q, value)
<1>2. both \in Int /\ Encodes(q, Word * Word, both, value)
  BY <1>1, ScaleEncodes
<1>3. HalfOf(q, value, 0) = both \div Word /\ HalfOf(q, value, 1) = both % Word
  BY DEF HalfOf
<1> HIDE DEF both
<1>4. HalfOf(q, value, 0) * Word + HalfOf(q, value, 1) = both
  BY <1>2, <1>3, TwoWords
<1> QED BY <1>2, <1>4

-----------------------------------------------------------------------------
(* Numbers.                                                                *)

(* What a register may hold whole is a number, and so is its field. *)
Number(v, field) ==
  v.quantity \in {"ut", "la", "lo"} => v.value \in Int /\ v[field] \in Int

Numbers(s, field) == IsSeq(s) /\ \A i \in 1..Len(s) : Number(s[i], field)

(* Of no values they are all numbers.                                      *)
LEMMA NumbersEmpty == ASSUME NEW field PROVE Numbers(<<>>, field)
  BY DEF Numbers, IsSeq

(* So of values given only under a condition.                              *)
LEMMA WhenNumbers ==
  ASSUME NEW field, NEW condition, NEW s, condition => Numbers(s, field)
  PROVE  Numbers(When(condition, s), field)
  BY NumbersEmpty DEF When

(* Numbers joined with numbers.                                            *)
LEMMA NumbersJoined ==
  ASSUME NEW field, NEW s, NEW t, Numbers(s, field), Numbers(t, field)
  PROVE  Numbers(s \o t, field)
<1> DEFINE u == s \o t
<1>1. IsSeq(s) /\ IsSeq(t) /\ Len(s) \in Nat /\ Len(t) \in Nat
  BY DEF Numbers, IsSeq
<1>2. /\ IsSeq(u) /\ Len(u) = Len(s) + Len(t)
      /\ \A i \in 1..Len(s) : u[i] = s[i]
      /\ \A i \in 1..Len(t) : u[Len(s) + i] = t[i]
  BY <1>1, JoinedIsSeq
<1> HIDE DEF u
<1>3. ASSUME NEW i \in 1..Len(u) PROVE Number(u[i], field)
  <2>1. CASE i \in 1..Len(s)
    BY <1>2, <2>1 DEF Numbers
  <2>2. CASE i \notin 1..Len(s)
    <3> DEFINE j == i - Len(s)
    <3>1. j \in 1..Len(t) /\ u[i] = t[j]
      <4>1. j \in 1..Len(t) /\ i = Len(s) + j
        BY <1>1, <1>2, <2>2
      <4> QED BY <1>2, <4>1
    <3> HIDE DEF j
    <3> QED BY <3>1 DEF Numbers
  <2> QED BY <2>1, <2>2
<1>4. Numbers(u, field)
  BY <1>2, <1>3 DEF Numbers
<1> QED BY <1>4 DEF u

(* And sequences of them flattened.                                        *)
LEMMA NumbersFlattened ==
  ASSUME NEW field, NEW s, IsSeq(s), \A i \in 1..Len(s) : Numbers(s[i], field)
  PROVE  Numbers(FlattenSeq(s), field)
<1> DEFINE T == {t \in Seq(AllElements(s)) : Numbers(t, field)}
<1>1. <<>> \in T
  BY NumbersEmpty
<1>2. \A i \in 1..Len(s) : s[i] \in T
  BY ElementsTyped DEF Numbers
<1>3. \A t, u \in T : t \o u \in T
  BY NumbersJoined
<1>4. FlattenSeq(s) \in T
  <2> HIDE DEF T
  <2> QED BY <1>1, <1>2, <1>3, FlattenedWithin
<1> QED BY <1>4

(* Other quantities need not be numbers.                                   *)
LEMMA OtherNumbers ==
  ASSUME NEW field, NEW s, IsSeq(s),
         \A i \in 1..Len(s) : s[i].quantity \notin {"ut", "la", "lo"}
  PROVE  Numbers(s, field)
  BY DEF Numbers, Number

(* A navigation packet gives time, latitude and longitude as it has them.  *)
LEMMA PvtNumbers ==
  ASSUME NEW p, p.time \in Int, p.la \in Int, p.lo \in Int
  PROVE  Numbers(Pvt(p), "offset")
<1> DEFINE fix == p.fixtype \in {fixtype_2d, fixtype_3d, fixtype_3d_deadreck}
           a == When(p.valid_full, <<Value("ut", p.time)>>)
           b == When(fix, PositionHorizontal(p))
           c == When(fix /\ p.fixtype # fixtype_2d, PositionVertical(p))
           d == When(p.headveh_valid, Velocity(p))
<1>1. Numbers(a, "offset")
  <2> DEFINE s == <<Value("ut", p.time)>>
  <2>1. IsSeq(s) /\ Len(s) = 1 /\ s[1].value \in Int /\ s[1].offset \in Int
    BY DEF IsSeq, Value
  <2> HIDE DEF s
  <2>2. Numbers(s, "offset")
    BY <2>1 DEF Numbers, Number
  <2> HIDE DEF fix
  <2> QED BY <2>2, WhenNumbers DEF s
<1>2. Numbers(b, "offset")
  <2> DEFINE s == PositionHorizontal(p)
  <2>1. /\ IsSeq(s) /\ Len(s) = 3 /\ s[1].value \in Int /\ s[2].value \in Int
        /\ s[3].quantity = "hacc" /\ s[1].offset \in Int /\ s[2].offset \in Int
    BY DEF IsSeq, PositionHorizontal, Value
  <2> HIDE DEF s
  <2>2. Numbers(s, "offset")
    BY <2>1 DEF Numbers, Number
  <2> HIDE DEF fix
  <2> QED BY <2>2, WhenNumbers DEF s
<1>3. Numbers(c, "offset")
  <2> DEFINE s == PositionVertical(p)
  <2>1. /\ IsSeq(s) /\ Len(s) = 3
        /\ s[1].quantity = "hg84" /\ s[2].quantity = "hmsl" /\ s[3].quantity = "vacc"
    BY DEF IsSeq, PositionVertical, Values, Value
  <2> HIDE DEF s
  <2>2. Numbers(s, "offset")
    BY <2>1, OtherNumbers
  <2> HIDE DEF fix
  <2> QED BY <2>2, WhenNumbers DEF s
<1>4. Numbers(d, "offset")
  <2> DEFINE s == Velocity(p)
  <2>1. /\ IsSeq(s) /\ Len(s) = 6
        /\ s[1].quantity = "vog" /\ s[2].quantity = "crs" /\ s[3].quantity = "sacc"
        /\ s[4].quantity = "cacc" /\ s[5].quantity = "hdg" /\ s[6].quantity = "hdac"
    BY DEF IsSeq, Velocity, Values, Value
  <2> HIDE DEF s
  <2>2. Numbers(s, "offset")
    BY <2>1, OtherNumbers
  <2> HIDE DEF fix
  <2> QED BY <2>2, WhenNumbers DEF s
<1>5. Pvt(p) = ((a \o b) \o c) \o d
  BY DEF Pvt
<1> HIDE DEF a, b, c, d
<1> DEFINE ab == a \o b
           abc == ab \o c
<1>6. Numbers(ab, "offset")
  BY <1>1, <1>2, NumbersJoined
<1>7. Numbers(abc, "offset")
  <2> HIDE DEF ab
  <2> QED BY <1>3, <1>6, NumbersJoined
<1>8. Numbers(abc \o d, "offset")
  <2> HIDE DEF abc
  <2> QED BY <1>4, <1>7, NumbersJoined
<1> QED BY <1>5, <1>8

(* The other packets of a Ublox give other quantities.                     *)
LEMMA AngleNumbers ==
  ASSUME NEW q \in Attitude, NEW acc \in {"racc", "pacc", "yacc"},
         NEW figure, NEW accuracy, NEW limit
  PROVE  Numbers(Angle(q, acc, figure, accuracy, limit), "offset")
<1> DEFINE s == <<Value(q, figure), Value(acc, accuracy)>>
<1>1. /\ IsSeq(s) /\ Len(s) = 2 /\ s[1].quantity = q /\ s[2].quantity = acc
  BY DEF IsSeq, Value
<1> HIDE DEF s
<1>2. Numbers(s, "offset")
  BY <1>1, OtherNumbers DEF Attitude
<1> DEFINE condition == accuracy # 0 /\ accuracy < limit
<1>3. Angle(q, acc, figure, accuracy, limit) = When(condition, s)
  BY DEF Angle, s
<1> HIDE DEF condition
<1> QED BY <1>2, <1>3, WhenNumbers

(* So an attitude packet.                                                  *)
LEMMA AttNumbers == ASSUME NEW p PROVE Numbers(Att(p), "offset")
<1> DEFINE a == Angle("ro", "racc", p.figure, p.accroll, 5)
           b == Angle("pi", "pacc", p.figure, p.accpitch, 5)
           c == Angle("ya", "yacc", p.figure, p.accheading, 10)
<1>1. Numbers(a, "offset") /\ Numbers(b, "offset") /\ Numbers(c, "offset")
  BY AngleNumbers DEF Attitude
<1>2. Att(p) = (a \o b) \o c
  BY DEF Att
<1> HIDE DEF a, b, c
<1> DEFINE ab == a \o b
<1>3. Numbers(ab, "offset")
  BY <1>1, NumbersJoined
<1>4. Numbers(ab \o c, "offset")
  <2> HIDE DEF ab
  <2> QED BY <1>1, <1>3, NumbersJoined
<1> QED BY <1>2, <1>4

(* One of the inertial sensors.                                            *)
LEMMA InsNumbers == ASSUME NEW p PROVE Numbers(Ins(p), "offset")
<1> DEFINE s == [i \in DOMAIN Axes |-> When(Axes[i] \in p.valid, <<Value(Axes[i], p.figure)>>)]
<1>1. /\ DOMAIN Axes = 1..6
      /\ \A i \in 1..6 : Axes[i] \in {"rr", "pr", "yr", "fax", "fay", "faz"}
  BY DEF Axes
<1>2. IsSeq(s) /\ Len(s) = 6
  <2>1. s = [i \in 1..6 |-> s[i]]
    BY <1>1
  <2> HIDE DEF s
  <2> QED BY <2>1, FunctionIsSeq
<1>3. ASSUME NEW i \in 1..6 PROVE Numbers(s[i], "offset")
  <2> DEFINE v == <<Value(Axes[i], p.figure)>>
             condition == Axes[i] \in p.valid
  <2>1. IsSeq(v) /\ Len(v) = 1 /\ v[1].quantity = Axes[i]
    BY DEF IsSeq, Value
  <2>2. s[i] = When(condition, v)
    BY <1>1
  <2> HIDE DEF v, condition, s
  <2>3. Numbers(v, "offset")
    BY <1>1, <2>1, OtherNumbers
  <2> QED BY <2>2, <2>3, WhenNumbers
<1>4. Ins(p) = FlattenSeq(s)
  BY DEF Ins
<1> HIDE DEF s
<1> QED BY <1>2, <1>3, <1>4, NumbersFlattened

(* And one of raw measurements.                                            *)
LEMMA RawNumbers ==
  ASSUME NEW p, p.sensor_data \in Seq(Measurements)
  PROVE  Numbers(Raw(p), "offset")
<1> DEFINE reftag == Last(p.sensor_data).stag
           s == [i \in DOMAIN p.sensor_data |-> SensorData(p.sensor_data[i], reftag, p.figure)]
           n == Len(p.sensor_data)
<1>1. n \in Nat /\ DOMAIN p.sensor_data = 1..n
  OBVIOUS
<1>2. Raw(p) = IF p.sensor_data = <<>> THEN <<>> ELSE FlattenSeq(s)
  BY DEF Raw
<1> HIDE DEF reftag, n
<1>3. IsSeq(s) /\ Len(s) = n
  <2>1. s = [i \in 1..n |-> s[i]]
    BY <1>1
  <2> HIDE DEF s
  <2> QED BY <1>1, <2>1, FunctionIsSeq
<1>4. ASSUME NEW i \in 1..n PROVE Numbers(s[i], "offset")
  <2> DEFINE d == p.sensor_data[i]
             v == <<[Value(d.type, p.figure) EXCEPT !.offset = d.stag - reftag]>>
             condition == d.type \in DataTypes /\ reftag >= d.stag
  <2>1. IsSeq(v) /\ Len(v) = 1 /\ v[1].quantity = d.type
    BY DEF IsSeq, Value
  <2>2. s[i] = When(condition, v)
    BY <1>1 DEF SensorData
  <2> HIDE DEF v, s
  <2>3. condition => Numbers(v, "offset")
    <3> HAVE condition
    <3>1. d.type \notin {"ut", "la", "lo"}
      BY DEF DataTypes
    <3> HIDE DEF d
    <3> QED BY <2>1, <3>1, OtherNumbers
  <2> HIDE DEF condition
  <2> QED BY <2>2, <2>3, WhenNumbers
<1> HIDE DEF s
<1>5. Numbers(FlattenSeq(s), "offset")
  BY <1>3, <1>4, NumbersFlattened
<1> QED BY <1>2, <1>5, NumbersEmpty

(* What is known of the packets of a Ublox. *)
UbloxPacket(p) ==
  /\ p.payload = "raw" => p.sensor_data \in Seq(Measurements)
  /\ p.payload = "pvt" => {p.time, p.la, p.lo} \subseteq Int

(* So each packet of a Ublox.                                              *)
LEMMA UbloxNumbers ==
  ASSUME NEW p, UbloxPacket(p)
  PROVE  Numbers(get_values(p), "offset")
<1>1. CASE p.payload = "pvt"
  <2>1. get_values(p) = Pvt(p)
    BY <1>1 DEF get_values
  <2> QED BY <1>1, <2>1, PvtNumbers DEF UbloxPacket
<1>2. CASE p.payload = "att"
  <2>1. get_values(p) = Att(p)
    BY <1>2 DEF get_values
  <2> QED BY <2>1, AttNumbers
<1>3. CASE p.payload = "ins"
  <2>1. get_values(p) = Ins(p)
    BY <1>3 DEF get_values
  <2> QED BY <2>1, InsNumbers
<1>4. CASE p.payload = "raw"
  <2>1. get_values(p) = Raw(p)
    BY <1>4 DEF get_values
  <2> QED BY <1>4, <2>1, RawNumbers DEF UbloxPacket
<1>5. CASE p.payload \notin {"pvt", "att", "ins", "raw"}
  <2>1. get_values(p) = <<>>
    BY <1>5 DEF get_values
  <2> QED BY <2>1, NumbersEmpty
<1> QED BY <1>1, <1>2, <1>3, <1>4, <1>5

(* Visited. *)
LEMMA UbloxVisitedNumbers ==
  ASSUME NEW p, UbloxPacket(p), NEW stamp \in Int, NEW number
  PROVE  Numbers(Visited(p, stamp, number), "stamp")
<1> DEFINE values == get_values(p)
           s == Visited(p, stamp, number)
<1>1. Numbers(values, "offset")
  BY UbloxNumbers
<1>2. IsSeq(values) /\ Len(values) \in Nat /\ DOMAIN values = 1..Len(values)
  BY <1>1, IsSeqDomain DEF Numbers, IsSeq
<1>3. s = [i \in 1..Len(values) |->
             [quantity |-> values[i].quantity, value |-> values[i].value,
              stamp |-> stamp + values[i].offset, of |-> number]]
  BY <1>2 DEF Visited
<1> HIDE DEF values, s
<1>4. IsSeq(s) /\ Len(s) = Len(values)
  <2>1. s = [i \in 1..Len(values) |-> s[i]]
    BY <1>3
  <2> QED BY <1>2, <2>1, FunctionIsSeq
<1>5. \A i \in 1..Len(values) :
        /\ s[i].quantity = values[i].quantity /\ s[i].value = values[i].value
        /\ s[i].stamp = stamp + values[i].offset
  BY <1>3
<1>6. Numbers(s, "stamp")
  BY <1>1, <1>4, <1>5 DEF Numbers, Number
<1> QED BY <1>6 DEF s

(* And parsed.                                                             *)
LEMMA UbloxParsedNumbers ==
  ASSUME NEW ps, IsSeq(ps), \A i \in 1..Len(ps) : UbloxPacket(ps[i]),
         NEW stamp \in Int, NEW number
  PROVE  Numbers(Parsed(ps, stamp, number), "stamp")
<1> DEFINE s == [i \in DOMAIN ps |-> Visited(ps[i], stamp, number + i)]
<1>1. DOMAIN ps = 1..Len(ps) /\ Len(ps) \in Nat
  BY IsSeqDomain DEF IsSeq
<1>2. IsSeq(s) /\ Len(s) = Len(ps)
  <2>1. s = [i \in 1..Len(ps) |-> s[i]]
    BY <1>1
  <2> HIDE DEF s
  <2> QED BY <1>1, <2>1, FunctionIsSeq
<1>3. ASSUME NEW i \in 1..Len(s) PROVE Numbers(s[i], "stamp")
  <2>1. s[i] = Visited(ps[i], stamp, number + i) /\ i \in 1..Len(ps)
    BY <1>1, <1>2
  <2> HIDE DEF s
  <2> QED BY <2>1, UbloxVisitedNumbers
<1>4. Parsed(ps, stamp, number) = FlattenSeq(s)
  BY DEF Parsed
<1> HIDE DEF s
<1> QED BY <1>2, <1>3, <1>4, NumbersFlattened

(* The kinds of data but LatLon begin behind the longitude.                *)
LEMMA OtherKinds ==
  ASSUME NEW did \in DOMAIN Xsens!Data_value, did # "LatLon"
  PROVE  Xsens!Data_value[did].dim \in 1..4 /\ Place(Xsens!Data_value[did].quantity) \in 4..74
  BY Places DEF Xsens!Data_value, Xsens!Kind

(* Behind the longitude nothing is read whole.                             *)
LEMMA PlaceOfTime == ASSUME NEW i \in 1..78 PROVE Quantity[i] = "ut" => i = 1
  BY SMTT(60) DEF Quantity

(* What is known of the items of a message. *)
XsensItem(item) ==
  /\ item.did = "UtcTime" => item.time \in Int
  /\ item.did = "LatLon" => item.data[1] \in Int /\ item.data[2] \in Int

(* Latitude and longitude are not turned, and an angle in its range is a   *)
(* number.                                                                 *)
LEMMA LatLonNumbers ==
  ASSUME NEW data, data[1] \in Int, data[2] \in Int, NEW flip
  PROVE  Numbers(Xsens!DataValues(Xsens!Data_value["LatLon"], flip, data), "value")
<1> DEFINE s == Xsens!DataValues(Xsens!Data_value["LatLon"], flip, data)
<1>1. Xsens!Data_value["LatLon"] = [quantity |-> "la", dim |-> 2, converter |-> "Rad", flips |-> FALSE]
  BY DEF Xsens!Data_value, Xsens!Kind
<1>2. Xsens!Quantity = Quantity
  BY DEF Xsens!Quantity, Quantity
<1>3. s = [i \in 1..2 |->
             [quantity |-> Quantity[2 + i - 1],
              value |-> Xsens!value_norm(Quantity[2 + i - 1],
                          Xsens!convert("Rad", 2, flip, i - 1,
                            data[Xsens!index_permute(2, flip, i - 1) + 1]))]]
  BY <1>1, <1>2, Places DEF Xsens!DataValues, Place
<1> HIDE DEF s
<1>4. IsSeq(s) /\ Len(s) = 2
  <2>1. s = [i \in 1..2 |-> s[i]]
    BY <1>3
  <2> QED BY <2>1, FunctionIsSeq
<1>5. ASSUME NEW i \in 1..2, NEW x \in Int
      PROVE  Xsens!convert("Rad", 2, flip, i - 1, x) = x
  BY DEF Xsens!convert, Xsens!RadConverter, Xsens!IdentityConverter
<1>6. ASSUME NEW i \in 1..2
      PROVE  data[Xsens!index_permute(2, flip, i - 1) + 1] \in Int
  <2>1. Xsens!index_permute(2, flip, i - 1) + 1 = i
    BY DEF Xsens!index_permute
  <2> QED BY <2>1
<1>7. ASSUME NEW q, NEW x \in Int PROVE Xsens!value_norm(q, x) \in Int
  <2>0. HalfTurn \in Nat \ {0}
    BY PublishingAssumption
  <2>1. HalfTurn \in Nat \ {0} /\ 2 * HalfTurn \in Nat \ {0} /\ x + HalfTurn \in Int
    BY ONLY <2>0, x \in Int
  <2>2. ((x + HalfTurn) % (2 * HalfTurn)) \in Int
    BY <2>1, Divided
  <2> QED BY <2>1, <2>2 DEF Xsens!value_norm
<1>8. ASSUME NEW i \in 1..2 PROVE s[i].value \in Int
  <2> DEFINE x == data[Xsens!index_permute(2, flip, i - 1) + 1]
             q == Quantity[2 + i - 1]
  <2>1. s[i].value = Xsens!value_norm(q, Xsens!convert("Rad", 2, flip, i - 1, x))
    BY <1>3
  <2>2. x \in Int
    BY <1>6
  <2> HIDE DEF x, q
  <2>3. Xsens!convert("Rad", 2, flip, i - 1, x) = x
    BY <1>5, <2>2
  <2> QED BY <1>7, <2>1, <2>2, <2>3
<1> QED BY <1>4, <1>8 DEF Numbers, Number, s

(* Other data is of other quantities.                                      *)
LEMMA DataNumbers ==
  ASSUME NEW did \in DOMAIN Xsens!Data_value, did # "LatLon", NEW flip, NEW data
  PROVE  Numbers(Xsens!DataValues(Xsens!Data_value[did], flip, data), "value")
<1> DEFINE kind == Xsens!Data_value[did]
           first == Place(kind.quantity)
           s == Xsens!DataValues(kind, flip, data)
           n == kind.dim
<1>1. n \in 1..4 /\ first \in 4..74
  BY OtherKinds
<1> HIDE DEF kind, first
<1>2. Xsens!Quantity = Quantity
  BY DEF Xsens!Quantity, Quantity
<1>3. s = [i \in 1..n |-> s[i]] /\ \A i \in 1..n : s[i].quantity = Quantity[first + i - 1]
  BY <1>2 DEF Xsens!DataValues, first, Place
<1> HIDE DEF s, n
<1>4. IsSeq(s) /\ Len(s) = n
  BY <1>1, <1>3, FunctionIsSeq
<1>5. ASSUME NEW i \in 1..n
      PROVE  s[i].quantity \notin {"ut", "la", "lo"}
  <2> DEFINE k == first + i - 1
  <2>1. k \in 4..78 /\ k \in 1..78
    BY <1>1
  <2> HIDE DEF k
  <2>2. Quantity[k] # "la" /\ Quantity[k] # "lo" /\ Quantity[k] # "ut"
    BY <2>1, OnePlace, PlaceOfTime
  <2> QED BY <1>3, <2>2 DEF k
<1>6. Numbers(s, "value")
  BY <1>4, <1>5, OtherNumbers
<1> QED BY <1>6 DEF s, kind

(* So for each item of a message.                                          *)
LEMMA ItemNumbers ==
  ASSUME NEW item, XsensItem(item), NEW flip_axes
  PROVE  Numbers(Xsens!get_values(item, flip_axes), "value")
<1>1. CASE item.did = "UtcTime"
  <2> DEFINE s == <<[quantity |-> "ut", value |-> item.time]>>
  <2>0. "UtcTime" \notin DOMAIN Xsens!Data_value
    BY DEF Xsens!Data_value
  <2>1. Xsens!get_values(item, flip_axes) = IF item.valid_utc THEN s ELSE <<>>
    BY <1>1, <2>0 DEF Xsens!get_values
  <2>2. IsSeq(s) /\ Len(s) = 1 /\ s[1].value \in Int
    BY <1>1 DEF IsSeq, XsensItem
  <2> HIDE DEF s
  <2>3. Numbers(s, "value")
    BY <2>2 DEF Numbers, Number
  <2> QED BY <2>1, <2>3, NumbersEmpty
<1>2. CASE item.did # "UtcTime" /\ item.did \in DOMAIN Xsens!Data_value
  <2> DEFINE kind == Xsens!Data_value[item.did]
             flip == flip_axes /\ kind.flips
  <2>1. Xsens!get_values(item, flip_axes) = Xsens!DataValues(kind, flip, item.data)
    BY <1>2 DEF Xsens!get_values
  <2> HIDE DEF flip
  <2>2. CASE item.did = "LatLon"
    BY <2>1, <2>2, LatLonNumbers DEF XsensItem
  <2>3. CASE item.did # "LatLon"
    BY <1>2, <2>1, <2>3, DataNumbers
  <2> QED BY <2>2, <2>3
<1>3. CASE item.did # "UtcTime" /\ item.did \notin DOMAIN Xsens!Data_value
  <2>1. Xsens!get_values(item, flip_axes) = <<>>
    BY <1>3 DEF Xsens!get_values
  <2> QED BY <2>1, NumbersEmpty
<1> QED BY <1>1, <1>2, <1>3

(* For a message. *)
LEMMA XsensVisitedNumbers ==
  ASSUME NEW message, IsSeq(message), \A i \in 1..Len(message) : XsensItem(message[i]),
         NEW flip_axes, NEW stamp \in Int, NEW number
  PROVE  Numbers(Xsens!Visited(message, flip_axes, stamp, number), "stamp")
<1> DEFINE parts == [i \in DOMAIN message |-> Xsens!get_values(message[i], flip_axes)]
           values == FlattenSeq(parts)
           s == Xsens!Visited(message, flip_axes, stamp, number)
<1>1. DOMAIN message = 1..Len(message) /\ Len(message) \in Nat
  BY IsSeqDomain DEF IsSeq
<1>2. IsSeq(parts) /\ Len(parts) = Len(message)
  <2>1. parts = [i \in 1..Len(message) |-> parts[i]]
    BY <1>1
  <2> HIDE DEF parts
  <2> QED BY <1>1, <2>1, FunctionIsSeq
<1>3. \A i \in 1..Len(parts) : Numbers(parts[i], "value")
  BY <1>1, <1>2, ItemNumbers
<1>4. Numbers(values, "value")
  <2> HIDE DEF parts
  <2> QED BY <1>2, <1>3, NumbersFlattened
<1>5. Xsens!FlattenSeq(parts) = values
  BY XsensFlatten
<1>6. s = [i \in DOMAIN values |->
             [quantity |-> values[i].quantity, value |-> values[i].value,
              stamp |-> stamp, of |-> number]]
  BY <1>5 DEF Xsens!Visited
<1> HIDE DEF values, s, parts
<1>7. IsSeq(values) /\ Len(values) \in Nat /\ DOMAIN values = 1..Len(values)
  BY <1>4, IsSeqDomain DEF Numbers, IsSeq
<1>8. IsSeq(s) /\ Len(s) = Len(values)
  <2>1. s = [i \in 1..Len(values) |-> s[i]]
    BY <1>6, <1>7
  <2> QED BY <1>7, <2>1, FunctionIsSeq
<1>9. \A i \in 1..Len(values) :
        /\ s[i].quantity = values[i].quantity /\ s[i].value = values[i].value
        /\ s[i].stamp = stamp
  BY <1>6, <1>7
<1>10. Numbers(s, "stamp")
  BY <1>4, <1>8, <1>9 DEF Numbers, Number
<1> QED BY <1>10 DEF s

(* And for the messages of a read.                                         *)
LEMMA XsensParsedNumbers ==
  ASSUME NEW ps, IsSeq(ps),
         \A i \in 1..Len(ps) : IsSeq(ps[i]) /\ \A j \in 1..Len(ps[i]) : XsensItem(ps[i][j]),
         NEW flip_axes, NEW stamp \in Int, NEW number
  PROVE  Numbers(Xsens!Parsed(ps, flip_axes, stamp, number), "stamp")
<1> DEFINE s == [i \in DOMAIN ps |-> Xsens!Visited(ps[i], flip_axes, stamp, number + i)]
<1>1. DOMAIN ps = 1..Len(ps) /\ Len(ps) \in Nat
  BY IsSeqDomain DEF IsSeq
<1>2. IsSeq(s) /\ Len(s) = Len(ps)
  <2>1. s = [i \in 1..Len(ps) |-> s[i]]
    BY <1>1
  <2> HIDE DEF s
  <2> QED BY <1>1, <2>1, FunctionIsSeq
<1>3. ASSUME NEW i \in 1..Len(s) PROVE Numbers(s[i], "stamp")
  <2>1. s[i] = Xsens!Visited(ps[i], flip_axes, stamp, number + i) /\ i \in 1..Len(ps)
    BY <1>1, <1>2
  <2> HIDE DEF s
  <2> QED BY <2>1, XsensVisitedNumbers
<1>4. Xsens!Parsed(ps, flip_axes, stamp, number) = FlattenSeq(s)
  BY XsensFlatten DEF Xsens!Parsed
<1> HIDE DEF s
<1> QED BY <1>2, <1>3, <1>4, NumbersFlattened

(* What is read whole is a number, and so is its stamp.                    *)
LEMMA ReadNumbers ==
  ASSUME driver \in Drivers, NEW stamp \in Int, NEW n \in Nat, NEW ps \in ReadOf(n)
  PROVE  Numbers(ValuesOf(ps, stamp), "stamp")
<1>1. IsSeq(ps) /\ Len(ps) = n /\ \A i \in 1..n : ps[i] \in Packets[driver]
  <2>1. ps \in [1..n -> Packets[driver]]
    BY DEF ReadOf
  <2> QED BY <2>1, FunctionIsSeq
<1>2. CASE driver = "ublox"
  <2>1. \A i \in 1..Len(ps) : UbloxPacket(ps[i])
    BY <1>1, <1>2, PublishingAssumption DEF UbloxPacket
  <2>2. ValuesOf(ps, stamp) = Parsed(ps, stamp, packets)
    BY <1>2 DEF ValuesOf
  <2> QED BY <1>1, <2>1, <2>2, UbloxParsedNumbers
<1>3. CASE driver # "ublox"
  <2>1. ASSUME NEW i \in 1..Len(ps)
        PROVE  IsSeq(ps[i]) /\ \A j \in 1..Len(ps[i]) : XsensItem(ps[i][j])
    <3> DEFINE p == ps[i]
    <3>1. /\ p \in Seq(Xsens!Items)
          /\ \A j \in DOMAIN p : p[j].did = "LatLon" => Len(p[j].data) = 2
      BY <1>1, <1>3, PublishingAssumption
    <3> HIDE DEF p
    <3>2. IsSeq(p) /\ DOMAIN p = 1..Len(p) /\ \A j \in 1..Len(p) : p[j] \in Xsens!Items
      BY <3>1, SeqIsSeq
    <3>3. ASSUME NEW j \in 1..Len(p) PROVE XsensItem(p[j])
      <4> DEFINE item == p[j]
      <4>1. item \in Xsens!Items /\ (item.did = "LatLon" => Len(item.data) = 2)
        BY <3>1, <3>2
      <4> HIDE DEF item
      <4>2. item.did = "UtcTime" => item.time \in Int
        BY <4>1 DEF Xsens!Items
      <4>3. ASSUME item.did = "LatLon" PROVE item.data[1] \in Int /\ item.data[2] \in Int
        <5>1. item.data \in Seq(Int) /\ Len(item.data) = 2
          BY <4>1, <4>3 DEF Xsens!Items
        <5> QED BY <5>1
      <4>4. XsensItem(item)
        BY <4>2, <4>3 DEF XsensItem
      <4> QED BY <4>4 DEF item
    <3> QED BY <3>2, <3>3 DEF p
  <2> DEFINE flip_axes == driver = "xsens flipped"
  <2>2. ValuesOf(ps, stamp) = Xsens!Parsed(ps, flip_axes, stamp, packets)
    BY <1>3 DEF ValuesOf
  <2> HIDE DEF flip_axes
  <2> QED BY <1>1, <2>1, <2>2, XsensParsedNumbers
<1> QED BY <1>2, <1>3

(* The samples that registers hold are numbers, and so are their stamps. *)
NumbersKept == \A q \in DOMAIN samples : Number(samples[q], "stamp")

(* Values that are numbers stay so in the device.                          *)
LEMMA DataNumbersKept ==
  ASSUME NEW values, NEW data, DataAfter(values, data), Numbers(values, "stamp"), NumbersKept
  PROVE  \A q \in DOMAIN data[Len(values)] : Number(data[Len(values)][q], "stamp")
<1> DEFINE n == Len(values)
           good(d) == \A q \in DOMAIN d : Number(d[q], "stamp")
           P == {i \in 0..n : good(data[i])}
<1>1. n \in Nat
  BY DEF Numbers, IsSeq
<1>2. 0 \in P
  BY <1>1 DEF DataAfter, NumbersKept
<1>3. ASSUME NEW i \in 1..n, i - 1 \in P
      PROVE  i \in P
  <2> DEFINE old == data[i - 1]
             s == values[i]
  <2>1. data[i] = WithValue(old, s)
    BY DEF DataAfter
  <2>2. \A q \in DOMAIN old : Number(old[q], "stamp")
    BY <1>3
  <2>3. Number(s, "stamp")
    BY DEF Numbers
  <2> HIDE DEF old, s
  <2>4. \A q \in DOMAIN data[i] : Number(data[i][q], "stamp")
    BY <2>1, <2>2, <2>3 DEF WithValue
  <2> QED BY <1>1, <2>4
<1>4. \A i \in 0..n : i \in P
  <2> HIDE DEF P, n
  <2>1. \A i \in 1..n : i - 1 \in P => i \in P
    BY <1>3
  <2> QED BY <1>1, <1>2, <2>1, UpTo
<1> QED BY <1>1, <1>4

(* They are numbers in every state.                                        *)
LEMMA NumbersAreKept == Spec => []NumbersKept
<1>1. Init => NumbersKept
  BY DEF Init, NumbersKept
<1>2. ASSUME IInv, NumbersKept, NEW n \in 1..Together, NEW ps \in ReadOf(n), Read(ps)
      PROVE  NumbersKept'
  <2> DEFINE values == ValuesOf(ps, now')
  <2>1. n \in Nat /\ now' \in Int /\ driver \in Drivers
    <3>1. \E t \in Steps : now' = now + t
      BY <1>2 DEF Read
    <3>2. now \in Nat /\ driver \in Drivers
      BY <1>2 DEF IInv, Typed, TypeOK
    <3> QED BY <3>1, <3>2, Bounds
  <2>2. Numbers(values, "stamp")
    BY <2>1, ReadNumbers
  <2>3. samples' = WithValues(values)
    BY <1>2 DEF Read
  <2> HIDE DEF values
  <2>4. Len(values) \in Nat
    BY <2>2 DEF Numbers, IsSeq
  <2>5. PICK data : DataAfter(values, data) /\ WithValues(values) = data[Len(values)]
    BY <2>4, DataExists
  <2>6. \A q \in DOMAIN data[Len(values)] : Number(data[Len(values)][q], "stamp")
    BY <1>2, <2>2, <2>5, DataNumbersKept
  <2>7. samples' = data[Len(values)]
    BY <2>3, <2>5
  <2> QED BY <2>6, <2>7 DEF NumbersKept
<1>3. IInv /\ NumbersKept /\ [Next]_vars => NumbersKept'
  <2> SUFFICES ASSUME IInv, NumbersKept, [Next]_vars PROVE NumbersKept' OBVIOUS
  <2>1. CASE \E n \in 1..Together : \E ps \in ReadOf(n) : Read(ps)
    BY <1>2, <2>1
  <2>2. CASE samples' = samples
    BY <2>2 DEF NumbersKept
  <2>3. UNCHANGED vars => samples' = samples
    BY DEF vars, device
  <2>4. ASSUME NEW c \in Clients, HandleAccept(c) \/ ClientReads(c) \/ ClientGoes(c)
        PROVE  samples' = samples
    BY <2>4 DEF HandleAccept, ClientReads, ClientGoes, device
  <2> QED BY <2>1, <2>2, <2>3, <2>4 DEF Next
<1> QED BY <1>1, <1>3, Inductive, PTL DEF Spec

(* What a request for a few registers of the device is answered.           *)
LEMMA BaseAnswer ==
  ASSUME NEW unit \in {0, 255}, "la" \in DOMAIN samples, "lo" \in DOMAIN samples
  PROVE  LET r == Answer(unit, 3, 4)
         IN  /\ Pair(r, 1, FALSE) = HalfOf("la", samples["la"].value, 0) * Word
                               + HalfOf("la", samples["la"].value, 1)
             /\ Pair(r, 3, FALSE) = HalfOf("lo", samples["lo"].value, 0) * Word
                               + HalfOf("lo", samples["lo"].value, 1)
<1> DEFINE r == Answer(unit, 3, 4)
           u == IF unit = 255 THEN 1 ELSE unit + 1
<1>1. u = 1 /\ 1 \in DOMAIN <<samples>> /\ <<samples>>[1] = samples
  OBVIOUS
<1>2. /\ r[1] = BaseRegister(samples, 3) /\ r[2] = BaseRegister(samples, 4)
      /\ r[3] = BaseRegister(samples, 5) /\ r[4] = BaseRegister(samples, 6)
  BY <1>1 DEF Answer, read_input_registers, processor_base_address, plain_base_address
<1>3. /\ (3 - 1) \div 2 = 1 /\ (4 - 1) \div 2 = 1 /\ (5 - 1) \div 2 = 2 /\ (6 - 1) \div 2 = 2
      /\ (3 - 1) % 2 = 0 /\ (4 - 1) % 2 = 1 /\ (5 - 1) % 2 = 0 /\ (6 - 1) % 2 = 1
  OBVIOUS
<1>4. /\ BaseRegister(samples, 3) = HalfOf("la", samples["la"].value, 0)
      /\ BaseRegister(samples, 4) = HalfOf("la", samples["la"].value, 1)
      /\ BaseRegister(samples, 5) = HalfOf("lo", samples["lo"].value, 0)
      /\ BaseRegister(samples, 6) = HalfOf("lo", samples["lo"].value, 1)
  BY <1>3, RegisterQuantities DEF BaseRegister, Known, get_sample
<1> QED BY <1>2, <1>4 DEF Pair

(* And a request for the eight of one quantity.                            *)
LEMMA PlainAnswer ==
  ASSUME NEW i \in {1, 2, 3}, Quantity[i] \in DOMAIN samples
  PROVE  LET r == Answer(0, plain_base_address + 8 * (i - 1), 8)
             sample == samples[Quantity[i]]
         IN  /\ r[1] = WordOf(sample.value, 0) /\ r[2] = WordOf(sample.value, 1)
             /\ r[3] = WordOf(sample.value, 2) /\ r[4] = WordOf(sample.value, 3)
             /\ r[5] = WordOf(sample.stamp, 0) /\ r[6] = WordOf(sample.stamp, 1)
             /\ r[7] = WordOf(sample.stamp, 2) /\ r[8] = WordOf(sample.stamp, 3)
<1> DEFINE r == Answer(0, plain_base_address + 8 * (i - 1), 8)
           q == Quantity[i]
           sample == samples[q]
<1>1. 1 \in DOMAIN <<samples>> /\ <<samples>>[1] = samples
  OBVIOUS
<1>2. ASSUME NEW k \in 1..8 PROVE r[k] = PlainRegister(samples, 8 * (i - 1) + k - 1)
  <2> DEFINE address == plain_base_address + 8 * (i - 1)
             n == 8 * (i - 1) + k - 1
  <2>1. /\ ~(address >= processor_base_address) /\ address >= plain_base_address
        /\ (address + k - 1) - plain_base_address = n
    BY DEF plain_base_address, processor_base_address
  <2>2. r[k] = PlainRegister(samples, (address + k - 1) - plain_base_address)
    <3>1. ASSUME NEW a \in Int, ~(a >= processor_base_address), a >= plain_base_address
          PROVE  Answer(0, a, 8)[k] = PlainRegister(samples, (a + k - 1) - plain_base_address)
      BY <1>1, <3>1 DEF Answer, read_input_registers
    <3>2. address \in Int
      BY DEF plain_base_address
    <3> HIDE DEF address
    <3>3. Answer(0, address, 8)[k] = PlainRegister(samples, (address + k - 1) - plain_base_address)
      BY <2>1, <3>1, <3>2
    <3> QED BY <3>3 DEF address
  <2> QED BY <2>1, <2>2
<1>3. QuantityOf(i - 1) = q
  <2>1. DOMAIN Quantity = 1..78 /\ (i - 1) + 1 = i
    BY QuantityPlaces
  <2> QED BY <2>1 DEF QuantityOf
<1>4. ASSUME NEW k \in 1..8
      PROVE  r[k] = WordOf(IF k <= 4 THEN sample.value ELSE sample.stamp, (k - 1) % 4)
  <2> DEFINE n == 8 * (i - 1) + k - 1
  <2>1. n \div 8 = i - 1 /\ n % 8 = k - 1 /\ n \in Int
    <3>1. n = 8 * (i - 1) + (k - 1) /\ 0 <= k - 1 /\ k - 1 < 8 /\ n \in Int /\ i - 1 \in Int
      OBVIOUS
    <3> HIDE DEF n
    <3> QED BY <3>1, DividedOnce
  <2>2. n % 4 = (k - 1) % 4
    OBVIOUS
  <2>3. ((n % 8) \div 4 = 0) <=> k <= 4
    <3>1. (k - 1) \div 4 = 0 <=> k <= 4
      OBVIOUS
    <3> HIDE DEF n
    <3> QED BY <2>1, <3>1
  <2>4. r[k] = PlainRegister(samples, n)
    BY <1>2
  <2> HIDE DEF n, r
  <2>5. PlainRegister(samples, n)
          = WordOf(IF (n % 8) \div 4 = 0 THEN sample.value ELSE sample.stamp, n % 4)
    BY <1>3, <2>1 DEF PlainRegister, Known, get_sample
  <2> QED BY <2>2, <2>3, <2>4, <2>5
<1> HIDE DEF r, sample
<1>5. /\ (1 - 1) % 4 = 0 /\ (2 - 1) % 4 = 1 /\ (3 - 1) % 4 = 2 /\ (4 - 1) % 4 = 3
      /\ (5 - 1) % 4 = 0 /\ (6 - 1) % 4 = 1 /\ (7 - 1) % 4 = 2 /\ (8 - 1) % 4 = 3
  OBVIOUS
<1>6. /\ r[1] = WordOf(sample.value, 0) /\ r[2] = WordOf(sample.value, 1)
      /\ r[3] = WordOf(sample.value, 2) /\ r[4] = WordOf(sample.value, 3)
  BY <1>4, <1>5
<1>7. /\ r[5] = WordOf(sample.stamp, 0) /\ r[6] = WordOf(sample.stamp, 1)
      /\ r[7] = WordOf(sample.stamp, 2) /\ r[8] = WordOf(sample.stamp, 3)
  BY <1>4, <1>5
<1> QED BY <1>6, <1>7 DEF r, sample

(* Whatever a device measures, one request returns its position as scaled  *)
(* by the configuration, both halves of one packet, and time and position  *)
(* whole with their stamps, no word lost or repeated and all in one order  *)
(* (modbus.cpp:38-127, quantities.h:652-684), if the configuration gives   *)
(* latitude and longitude a factor or bounds that are in order.            *)
THEOREM RegistersAreRight == Scaled("la") /\ Scaled("lo") => (Spec => []RegistersTell)
<1> SUFFICES ASSUME Scaled("la"), Scaled("lo") PROVE Spec => []RegistersTell
  OBVIOUS
<1>1. ASSUME IInv, NumbersKept PROVE RegistersTell
  <2>1. ("la" \in DOMAIN samples) = ("lo" \in DOMAIN samples)
    BY <1>1 DEF IInv, Unmixed, PositionTold
  <2>2. \A q \in DOMAIN samples : samples[q].quantity = q
    BY <1>1 DEF IInv, Typed, TypeOK
  <2>3. ASSUME NEW q \in {"ut", "la", "lo"}, q \in DOMAIN samples
        PROVE  samples[q].value \in Int /\ samples[q].stamp \in Int
    BY <1>1, <2>2, <2>3 DEF NumbersKept, Number
  <2>4. ASSUME "la" \in DOMAIN samples, NEW unit \in {0, 255}
        PROVE  LET r == Answer(unit, 3, 4)
               IN  /\ Encodes("la", Word * Word, Pair(r, 1, FALSE), samples["la"].value)
                   /\ Encodes("lo", Word * Word, Pair(r, 3, FALSE), samples["lo"].value)
    <3> DEFINE r == Answer(unit, 3, 4)
               la == samples["la"].value
               lo == samples["lo"].value
    <3>1. "lo" \in DOMAIN samples
      BY <2>1, <2>4
    <3>2. la \in Int /\ lo \in Int
      BY <2>3, <2>4, <3>1
    <3>3. /\ Pair(r, 1, FALSE) = HalfOf("la", la, 0) * Word + HalfOf("la", la, 1)
          /\ Pair(r, 3, FALSE) = HalfOf("lo", lo, 0) * Word + HalfOf("lo", lo, 1)
      BY <2>4, <3>1, BaseAnswer
    <3> HIDE DEF r, la, lo
    <3>4. /\ Encodes("la", Word * Word, HalfOf("la", la, 0) * Word + HalfOf("la", la, 1), la)
          /\ Encodes("lo", Word * Word, HalfOf("lo", lo, 0) * Word + HalfOf("lo", lo, 1), lo)
      BY <3>2, HalvesEncode
    <3>5. Encodes("la", Word * Word, Pair(r, 1, FALSE), la) /\ Encodes("lo", Word * Word, Pair(r, 3, FALSE), lo)
      BY <3>3, <3>4
    <3> QED BY <3>5 DEF r, la, lo
  <2>5. ASSUME NEW i \in {1, 2, 3}, Quantity[i] \in DOMAIN samples
        PROVE  LET r == Answer(0, plain_base_address + 8 * (i - 1), 8)
                   double == Word * Word * Word * Word
               IN  /\ Whole(r, 1, FALSE) = samples[Quantity[i]].value % double
                   /\ Whole(r, 5, FALSE) = samples[Quantity[i]].stamp % double
    <3> DEFINE r == Answer(0, plain_base_address + 8 * (i - 1), 8)
               double == Word * Word * Word * Word
               value == samples[Quantity[i]].value
               stamp == samples[Quantity[i]].stamp
    <3>1. Quantity[i] \in {"ut", "la", "lo"}
      <4>1. Quantity[1] = "ut" /\ Quantity[2] = "la" /\ Quantity[3] = "lo"
        BY DEF Quantity
      <4> QED BY <4>1
    <3>2. value \in Int /\ stamp \in Int
      BY <2>3, <2>5, <3>1
    <3>3. /\ r[1] = WordOf(value, 0) /\ r[2] = WordOf(value, 1)
          /\ r[3] = WordOf(value, 2) /\ r[4] = WordOf(value, 3)
          /\ r[5] = WordOf(stamp, 0) /\ r[6] = WordOf(stamp, 1)
          /\ r[7] = WordOf(stamp, 2) /\ r[8] = WordOf(stamp, 3)
      BY <2>5, PlainAnswer
    <3> HIDE DEF r, value, stamp
    <3>4. Whole(r, 1, FALSE) = (r[1] * Word + r[2]) * Word * Word + (r[3] * Word + r[4])
      BY DEF Whole, Pair
    <3>5. Whole(r, 5, FALSE) = (r[5] * Word + r[6]) * Word * Word + (r[7] * Word + r[8])
      BY DEF Whole, Pair
    <3>6. Whole(r, 1, FALSE) = value % double
      BY <3>2, <3>3, <3>4, FourWords
    <3>7. Whole(r, 5, FALSE) = stamp % double
      BY <3>2, <3>3, <3>5, FourWords
    <3> QED BY <3>6, <3>7 DEF r, value, stamp
  <2>6. PositionRead(FALSE)
    BY <2>4 DEF PositionRead
  <2>7. \A i \in {1, 2, 3} :
          SampleRead(Quantity[i], plain_base_address + 8 * (i - 1), FALSE)
    BY <2>5 DEF SampleRead
  <2> QED BY <2>6, <2>7 DEF RegistersTell
<1>2. IInv /\ NumbersKept => RegistersTell
  BY <1>1
<1> QED BY <1>2, Inductive, NumbersAreKept, PTL
=============================================================================
