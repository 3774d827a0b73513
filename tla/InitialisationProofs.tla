------------------------ MODULE InitialisationProofs ------------------------
(***************************************************************************)
(* Proofs about Initialisation: the types, that an answer is found at its  *)
(* first place, that no device is known by a wrong identification, and     *)
(* that an initialised one is ready, for any devices, settings and bounds. *)
(*                                                                         *)
(* That the identification is right needs an argument about bytes.  What a *)
(* device sends is a stream of whole packets, whose payloads never hold    *)
(* the byte a packet begins with, by assumption those of Measurements as   *)
(* well as the answers.  So the beginning of the answer with the           *)
(* identification (Mark) occurs nowhere but in that answer, also where     *)
(* packets meet: the stream is Genuine.  It stays so when some of it is    *)
(* read or more is sent, however it is cut.  A Runwell's answers have no   *)
(* beginning to tell them by, but all their bytes are the same.            *)
(*                                                                         *)
(* The invariant that steps keep (StreamInv /\ IdInv): the types, the      *)
(* stream is genuine, a Runwell's first answer is asked for with its       *)
(* length, and the place where the answer was found is the one the search  *)
(* finds in what has been read so far.                                     *)
(*                                                                         *)
(* That an initialised device is ready (ReplyInv) rests on replies being   *)
(* told from the rest by their first three bytes, and on there being one   *)
(* at most to the command that is under way.                               *)
(*                                                                         *)
(* The last part is about ExecCommand, which has the handlers and timers   *)
(* of an initialisation where Initialisation has its bytes.                *)
(***************************************************************************)
EXTENDS Initialisation, ExecCommand, SequenceTheorems, WellFoundedInduction, TLAPS

-----------------------------------------------------------------------------
(* Numbers.                                                                *)

(* A set of natural numbers has a least one. *)
LEMMA MinExists ==
  ASSUME NEW S \in SUBSET Nat, S # {}
  PROVE  Min(S) \in S /\ \A i \in S : Min(S) <= i
<1>1. PICK m \in S : \A i \in S : ~(<<i, m>> \in OpToRel(<, Nat))
  BY WFMin, NatLessThanWellFounded
<1>2. \A i \in S : ~(i < m)
  BY <1>1 DEF OpToRel
<1>3. \A i \in S : m <= i
  BY <1>2
<1> QED BY <1>3 DEF Min

(* A property that is kept from each number to the next holds up to n. *)
LEMMA UpTo ==
  ASSUME NEW n \in Nat, NEW P, 0 \in P, \A i \in 1..n : i - 1 \in P => i \in P
  PROVE  \A i \in 0..n : i \in P
<1> DEFINE Bad == {i \in 0..n : i \notin P}
<1> SUFFICES ASSUME Bad # {} PROVE FALSE OBVIOUS
<1>1. Bad \in SUBSET Nat /\ \A i \in 0..n : i \notin Bad => i \in P
  OBVIOUS
<1>2. \E m \in Bad : \A i \in Bad : ~(i < m)
  <2> HIDE DEF Bad
  <2>1. PICK m \in Bad : \A i \in Bad : ~(<<i, m>> \in OpToRel(<, Nat))
    BY <1>1, WFMin, NatLessThanWellFounded
  <2>2. \A i \in Bad : ~(i < m)
    BY <1>1, <2>1 DEF OpToRel
  <2> QED BY <2>2
<1> PICK m \in Bad : \A i \in Bad : ~(i < m)
  BY <1>2
<1>3. m # 0 /\ m \in 1..n
  OBVIOUS
<1>4. m - 1 \notin Bad /\ m - 1 \in 0..n
  BY <1>3
<1> QED BY <1>3, <1>4

(* What is left when divided is smaller.                                   *)
LEMMA ByteRange ==
  ASSUME NEW a \in Int PROVE a % 256 \in Int /\ 0 <= a % 256 /\ a % 256 <= 255
  OBVIOUS

(* So is what is left of a length.                                         *)
LEMMA LengthRange ==
  ASSUME NEW a \in Int PROVE a % 65536 \in Int /\ 0 <= a % 65536 /\ a % 65536 <= 65535
  OBVIOUS

-----------------------------------------------------------------------------
(* The search for an answer.                                               *)

(* The items are in the container from position i on. *)
Occurs(container, items, i) ==
  /\ i + Len(items) <= Len(container)
  /\ \A j \in 1..Len(items) : container[i + j] = items[j]

(* The first place that does not disagree is before or at the end. *)
LEMMA FirstCandidate ==
  ASSUME NEW Item, NEW container \in Seq(Item), NEW items \in Seq(Item)
  PROVE  LET first == Min({i \in 0..Len(container) : Agree(container, items, i)})
         IN  /\ first \in 0..Len(container) /\ Agree(container, items, first)
             /\ \A i \in 0..Len(container) : Agree(container, items, i) => first <= i
<1> DEFINE S == {i \in 0..Len(container) : Agree(container, items, i)}
<1>1. Agree(container, items, Len(container))
  BY DEF Agree
<1>2. S \in SUBSET Nat /\ S # {}
  BY <1>1
<1> HIDE DEF S
<1>3. Min(S) \in S /\ \A i \in S : Min(S) <= i
  BY <1>2, MinExists
<1> QED BY <1>3 DEF S

(* What occurs agrees, and what agrees occurs if there is room for it. *)
LEMMA OccursAgrees ==
  ASSUME NEW Item, NEW container \in Seq(Item), NEW items \in Seq(Item), NEW i \in Nat
  PROVE  Occurs(container, items, i)
           <=> Agree(container, items, i) /\ i + Len(items) <= Len(container)
<1>1. \A j \in 1..Len(items) : i + Len(items) <= Len(container) => i + j <= Len(container)
  OBVIOUS
<1> QED BY <1>1 DEF Occurs, Agree

(* The search finds the first place where the answer is, and nothing only  *)
(* if it is nowhere (tools.h:73-105), although it stops at the first place *)
(* that does not disagree and looks no further.                            *)
THEOREM FirstPlaceFound ==
  ASSUME NEW Item, NEW container \in Seq(Item), NEW items \in Seq(Item)
  PROVE  LET found == contains_at(container, items)
         IN  \/ /\ found \in 0..Len(container) /\ Occurs(container, items, found)
                /\ \A i \in 0..(found - 1) : ~Occurs(container, items, i)
             \/ /\ found = -1
                /\ \A i \in 0..Len(container) : ~Occurs(container, items, i)
<1> DEFINE first == Min({i \in 0..Len(container) : Agree(container, items, i)})
<1>1. /\ first \in 0..Len(container) /\ Agree(container, items, first)
      /\ \A i \in 0..Len(container) : Agree(container, items, i) => first <= i
  BY FirstCandidate
<1>2. contains_at(container, items)
        = IF first + Len(items) <= Len(container) THEN first ELSE -1
  BY DEF contains_at
<1> HIDE DEF first
<1>3. \A i \in 0..Len(container) : Occurs(container, items, i) =>
        first <= i /\ i + Len(items) <= Len(container)
  BY <1>1, OccursAgrees
<1>4. CASE first + Len(items) <= Len(container)
  <2>1. Occurs(container, items, first)
    BY <1>1, <1>4, OccursAgrees
  <2> QED BY <1>1, <1>2, <1>3, <1>4, <2>1
<1>5. CASE ~(first + Len(items) <= Len(container))
  <2>1. \A i \in 0..Len(container) : ~Occurs(container, items, i)
    BY <1>1, <1>3, <1>5
  <2> QED BY <1>2, <1>5, <2>1
<1> QED BY <1>4, <1>5

(* A place that has been found does not move when more is read, so that    *)
(* the length that counts from it stays right (device.h:462-480).          *)
THEOREM FoundDoesNotMove ==
  ASSUME NEW Item, NEW container \in Seq(Item), NEW items \in Seq(Item),
         NEW more \in Seq(Item), contains_at(container, items) >= 0
  PROVE  contains_at(container \o more, items) = contains_at(container, items)
<1> DEFINE longer == container \o more
           found == contains_at(container, items)
           again == contains_at(longer, items)
<1>1. /\ longer \in Seq(Item) /\ Len(longer) = Len(container) + Len(more)
      /\ \A i \in 1..Len(container) : longer[i] = container[i]
  OBVIOUS
<1>2. /\ found \in 0..Len(container) /\ Occurs(container, items, found)
      /\ \A i \in 0..(found - 1) : ~Occurs(container, items, i)
  BY FirstPlaceFound
<1>3. \/ /\ again \in 0..Len(longer) /\ Occurs(longer, items, again)
         /\ \A i \in 0..(again - 1) : ~Occurs(longer, items, i)
      \/ /\ again = -1
         /\ \A i \in 0..Len(longer) : ~Occurs(longer, items, i)
  BY <1>1, FirstPlaceFound
<1> HIDE DEF longer, found, again
<1>4. \A i \in Nat : i + Len(items) <= Len(container) =>
        (Occurs(longer, items, i) <=> Occurs(container, items, i))
  <2>1. Len(items) \in Nat /\ Len(container) \in Nat /\ Len(more) \in Nat
    OBVIOUS
  <2>2. ASSUME NEW i \in Nat, i + Len(items) <= Len(container), NEW j \in 1..Len(items)
        PROVE  longer[i + j] = container[i + j]
    <3>1. i + j \in 1..Len(container)
      BY <2>1, <2>2
    <3> QED BY <1>1, <3>1
  <2> QED BY <1>1, <2>1, <2>2 DEF Occurs
<1>5. Occurs(longer, items, found) /\ found + Len(items) <= Len(container)
  BY <1>2, <1>4 DEF Occurs
<1>6. again # -1 /\ again <= found
  BY <1>1, <1>2, <1>3, <1>5
<1>7. Occurs(container, items, again)
  BY <1>2, <1>3, <1>4, <1>5, <1>6
<1> QED BY <1>2, <1>3, <1>6, <1>7 DEF found, again, longer

-----------------------------------------------------------------------------
(* Bytes, sums and packets.                                                *)

(* The bytes are those of the code. *)
LEMMA RealBytes ==
  Base = 256 /\ XsensPreamble = <<250, 255>> /\ UbloxPreamble = <<181, 98>>
  BY InitialisationAssumption, PacketFormatAssumption DEF Byte

(* A byte is a number below 256. *)
LEMMA ByteIs == \A b : b \in Byte <=> b \in Int /\ 0 <= b /\ b <= 255
  BY RealBytes DEF Byte

(* A sum goes from byte to byte. *)
Sums(bytes, f) ==
  /\ f[0] = 0
  /\ \A i \in 1..Len(bytes) : f[i] = (f[i - 1] + bytes[i]) % Base

(* The function that SumOf chooses is that one.                            *)
LEMMA SumsExist ==
  ASSUME NEW bytes, Len(bytes) \in Nat
  PROVE  \E f : Sums(bytes, f) /\ SumOf(bytes) = f[Len(bytes)]
<1> DEFINE n == Len(bytes)
           Equation(k, f) ==
             f = [i \in 0..k |-> IF i = 0 THEN 0 ELSE (f[i - 1] + bytes[i]) % Base]
           P == {k \in 0..n : \E f : Equation(k, f)}
<1>1. n \in Nat
  OBVIOUS
<1> HIDE DEF n
<1>2. 0 \in P
  <2>1. Equation(0, [i \in 0..0 |-> 0])
    OBVIOUS
  <2> HIDE DEF Equation
  <2>2. \E f : Equation(0, f)
    BY <2>1
  <2> QED BY <1>1, <2>2
<1>3. ASSUME NEW k \in 1..n, k - 1 \in P
      PROVE  k \in P
  <2>1. PICK f : Equation(k - 1, f)
    BY <1>3
  <2> DEFINE g == [i \in 0..k |-> IF i < k THEN f[i] ELSE (f[i - 1] + bytes[i]) % Base]
  <2>2. ASSUME NEW i \in 0..k
        PROVE  g[i] = IF i = 0 THEN 0 ELSE (g[i - 1] + bytes[i]) % Base
    <3>1. i # 0 => i - 1 \in 0..(k - 1) /\ g[i - 1] = f[i - 1]
      BY <1>1
    <3>2. CASE i < k
      <4>1. i \in 0..(k - 1) /\ g[i] = f[i]
        BY <1>1, <3>2
      <4>2. f[i] = IF i = 0 THEN 0 ELSE (f[i - 1] + bytes[i]) % Base
        BY <2>1, <4>1
      <4> QED BY <3>1, <4>1, <4>2
    <3>3. CASE ~(i < k)
      <4>1. i # 0 /\ g[i] = (f[i - 1] + bytes[i]) % Base
        BY <3>3
      <4> QED BY <3>1, <4>1
    <3> QED BY <3>2, <3>3
  <2>3. g = [i \in 0..k |-> g[i]]
    OBVIOUS
  <2> HIDE DEF g
  <2>4. Equation(k, g)
    BY <2>2, <2>3
  <2> HIDE DEF Equation
  <2> QED BY <2>4
<1>4. n \in P
  <2> HIDE DEF P
  <2>1. \A i \in 1..n : i - 1 \in P => i \in P
    BY <1>3
  <2>2. \A i \in 0..n : i \in P
    BY <1>1, <1>2, <2>1, UpTo
  <2> QED BY <1>1, <2>2
<1> DEFINE F == CHOOSE f : Equation(n, f)
<1>5. Equation(n, F)
  BY <1>4
<1>6. SumOf(bytes) = F[n]
  BY DEF SumOf, n
<1> HIDE DEF F
<1>7. Sums(bytes, F)
  <2>1. F[0] = 0
    BY <1>1, <1>5
  <2>2. \A i \in 1..n : F[i] = (F[i - 1] + bytes[i]) % Base
    BY <1>1, <1>5
  <2> QED BY <2>1, <2>2 DEF Sums, n
<1> QED BY <1>6, <1>7 DEF n

(* A sum of bytes is a byte.                                               *)
LEMMA SumTyped ==
  ASSUME NEW bytes \in Seq(Byte)
  PROVE  SumOf(bytes) \in Byte
<1> DEFINE n == Len(bytes)
<1>1. n \in Nat /\ \A i \in 1..n : bytes[i] \in Int
  BY ByteIs
<1>2. PICK f : Sums(bytes, f) /\ SumOf(bytes) = f[n]
  BY <1>1, SumsExist
<1> HIDE DEF n
<1> DEFINE P == {i \in 0..n : f[i] \in Byte}
<1>3. 0 \in P
  BY <1>1, <1>2, ByteIs DEF Sums
<1>4. ASSUME NEW i \in 1..n, i - 1 \in P PROVE i \in P
  <2>1. f[i - 1] \in Int
    BY <1>4, ByteIs
  <2>2. bytes[i] \in Int
    BY <1>1
  <2>3. f[i] = (f[i - 1] + bytes[i]) % 256
    BY <1>2, RealBytes DEF Sums, n
  <2>4. f[i - 1] + bytes[i] \in Int
    BY ONLY <2>1, <2>2
  <2>5. f[i] \in Byte
    BY ONLY <2>3, <2>4, ByteRange, ByteIs
  <2> QED BY <1>1, <2>5
<1>5. \A i \in 0..n : i \in P
  <2>1. \A i \in 1..n : i - 1 \in P => i \in P
    BY <1>4
  <2> HIDE DEF P
  <2> QED BY <1>1, <1>3, <2>1, UpTo
<1> QED BY <1>1, <1>2, <1>5

(* What two sequences have, one after the other.                           *)
LEMMA Concat ==
  ASSUME NEW Item, NEW a \in Seq(Item), NEW b \in Seq(Item)
  PROVE  /\ a \o b \in Seq(Item) /\ Len(a \o b) = Len(a) + Len(b)
         /\ \A j \in 1..Len(a) : (a \o b)[j] = a[j]
         /\ \A j \in 1..Len(b) : (a \o b)[Len(a) + j] = b[j]
  OBVIOUS

(* What an Xsens packet consists of.                                       *)
LEMMA XsensPacketIs ==
  ASSUME NEW mid \in Byte, NEW payload \in Seq(Byte), Len(payload) \in Byte
  PROVE  LET p == XsensPacket(mid, payload)
         IN  /\ p \in Seq(Byte) /\ Len(p) = 5 + Len(payload)
             /\ p[1] = 250 /\ p[2] = 255 /\ p[3] = mid /\ p[4] = Len(payload)
             /\ \A j \in 1..Len(payload) : p[4 + j] = payload[j]
<1> DEFINE start == <<250>>
           head == <<255, mid, Len(payload)>>
           counted == head \o payload
           check == <<(256 - SumOf(counted)) % 256>>
           front == start \o counted
           p == front \o check
<1>1. head \in Seq(Byte) /\ start \in Seq(Byte)
  BY ByteIs
<1>2. /\ Len(head) = 3 /\ head[1] = 255 /\ head[2] = mid /\ head[3] = Len(payload)
      /\ Len(start) = 1 /\ start[1] = 250
  OBVIOUS
<1>3. XsensPacket(mid, payload) = p
  BY RealBytes DEF XsensPacket
<1>4. Len(payload) \in Nat
  OBVIOUS
<1> HIDE DEF head, start
<1>5. /\ counted \in Seq(Byte) /\ Len(counted) = Len(head) + Len(payload)
      /\ \A j \in 1..Len(head) : counted[j] = head[j]
      /\ \A j \in 1..Len(payload) : counted[Len(head) + j] = payload[j]
  BY ONLY <1>1, Concat, payload \in Seq(Byte)
<1> HIDE DEF counted
<1>a. counted \in Seq(Byte)
  BY <1>5
<1>6. check \in Seq(Byte)
  <2>1. SumOf(counted) \in Int
    BY <1>5, SumTyped, ByteIs
  <2>2. 256 - SumOf(counted) \in Int
    BY ONLY <2>1
  <2>3. (256 - SumOf(counted)) % 256 \in Byte
    BY ONLY <2>2, ByteRange, ByteIs
  <2> QED BY <2>3
<1>7. Len(check) = 1
  OBVIOUS
<1> HIDE DEF check
<1>8. /\ front \in Seq(Byte) /\ Len(front) = Len(start) + Len(counted)
      /\ \A j \in 1..Len(start) : front[j] = start[j]
      /\ \A j \in 1..Len(counted) : front[Len(start) + j] = counted[j]
  BY ONLY <1>1, <1>a, Concat
<1> HIDE DEF front
<1>b. front \in Seq(Byte)
  BY <1>8
<1>9. /\ p \in Seq(Byte) /\ Len(p) = Len(front) + Len(check)
      /\ \A j \in 1..Len(front) : p[j] = front[j]
  BY ONLY <1>6, <1>b, Concat
<1> HIDE DEF p
<1>10. Len(counted) = 3 + Len(payload) /\ Len(front) = 4 + Len(payload)
  BY <1>2, <1>4, <1>5, <1>8
<1>11. p[1] = 250 /\ p[2] = 255 /\ p[3] = mid /\ p[4] = Len(payload)
  <2>1. /\ {1, 2, 3} \subseteq 1..Len(counted)
        /\ {1, 2, 3, 4} \subseteq 1..Len(front)
    BY <1>4, <1>10
  <2>2. front[1 + 1] = counted[1] /\ front[1 + 2] = counted[2] /\ front[1 + 3] = counted[3]
    BY <1>2, <1>8, <2>1
  <2> QED BY <1>2, <1>5, <1>8, <1>9, <2>1, <2>2
<1>12. ASSUME NEW j \in 1..Len(payload) PROVE p[4 + j] = payload[j]
  <2>1. /\ 4 + j \in 1..Len(front) /\ 3 + j \in 1..Len(counted)
        /\ 4 + j = 1 + (3 + j)
    BY <1>4, <1>10
  <2>2. p[4 + j] = front[4 + j] /\ front[1 + (3 + j)] = counted[3 + j]
    BY <1>2, <1>8, <1>9, <2>1
  <2>3. counted[3 + j] = payload[j]
    BY <1>2, <1>5
  <2> QED BY <2>1, <2>2, <2>3
<1> QED BY <1>2, <1>3, <1>4, <1>7, <1>9, <1>10, <1>11, <1>12

(* The bytes before the identifier, and an upper byte of a length.         *)
LEMMA PreambleBytes == 0 \in Byte /\ 98 \in Byte /\ 181 \in Byte
  BY ByteIs

(* What a Ublox packet consists of.                                        *)
LEMMA UbloxPacketIs ==
  ASSUME NEW cls \in Byte, NEW id \in Byte, NEW payload \in Seq(Byte),
         Len(payload) \in Byte
  PROVE  LET p == UbloxPacket(cls, id, payload)
         IN  /\ p \in Seq(Byte) /\ Len(p) = 8 + Len(payload)
             /\ p[1] = 181 /\ p[2] = 98 /\ p[3] = cls /\ p[4] = id
             /\ p[5] = Len(payload) /\ p[6] = 0
             /\ \A j \in 1..Len(payload) : p[6 + j] = payload[j]
<1> DEFINE start == <<181, 98>>
           head == <<cls, id, Len(payload), 0>>
           data == head \o payload
           firsts == [i \in DOMAIN data |-> SumOf(SubSeq(data, 1, i))]
           check == <<SumOf(data), SumOf(firsts)>>
           front == start \o data
           p == front \o check
<1>1. head \in Seq(Byte) /\ start \in Seq(Byte)
  BY PreambleBytes
<1>2. /\ Len(head) = 4 /\ head[1] = cls /\ head[2] = id /\ head[3] = Len(payload)
      /\ head[4] = 0 /\ Len(start) = 2 /\ start[1] = 181 /\ start[2] = 98
  OBVIOUS
<1>3. UbloxPacket(cls, id, payload) = p
  <2>1. Len(payload) \in Int /\ 0 <= Len(payload) /\ Len(payload) <= 255
    BY ByteIs
  <2>2. Len(payload) % 256 = Len(payload) /\ Len(payload) \div 256 = 0
    BY ONLY <2>1
  <2>3. <<cls, id, Len(payload) % Base, Len(payload) \div Base>> = head
    BY <2>2, RealBytes
  <2>4. calc_checksum(data) = check
    BY DEF calc_checksum
  <2>5. UbloxPreamble = start
    BY RealBytes
  <2> HIDE DEF head, check, start
  <2> QED BY ONLY <2>3, <2>4, <2>5, Zenon DEF UbloxPacket
<1>4. Len(payload) \in Nat
  OBVIOUS
<1> HIDE DEF head, start
<1>5. /\ data \in Seq(Byte) /\ Len(data) = Len(head) + Len(payload)
      /\ \A j \in 1..Len(head) : data[j] = head[j]
      /\ \A j \in 1..Len(payload) : data[Len(head) + j] = payload[j]
  BY ONLY <1>1, Concat, payload \in Seq(Byte)
<1> HIDE DEF data
<1>a. data \in Seq(Byte)
  BY <1>5
<1>6. check \in Seq(Byte)
  <2>1. SumOf(data) \in Byte
    BY <1>5, SumTyped
  <2>2. ASSUME NEW i \in DOMAIN data PROVE SumOf(SubSeq(data, 1, i)) \in Byte
    <3>1. SubSeq(data, 1, i) \in Seq(Byte)
      BY <1>5, <2>2
    <3> QED BY <3>1, SumTyped
  <2>3. firsts \in Seq(Byte)
    BY <1>5, <2>2
  <2> HIDE DEF firsts
  <2>4. SumOf(firsts) \in Byte
    BY <2>3, SumTyped
  <2> QED BY <2>1, <2>4
<1>7. Len(check) = 2
  OBVIOUS
<1> HIDE DEF check
<1>8. /\ front \in Seq(Byte) /\ Len(front) = Len(start) + Len(data)
      /\ \A j \in 1..Len(start) : front[j] = start[j]
      /\ \A j \in 1..Len(data) : front[Len(start) + j] = data[j]
  BY ONLY <1>1, <1>a, Concat
<1> HIDE DEF front
<1>b. front \in Seq(Byte)
  BY <1>8
<1>9. /\ p \in Seq(Byte) /\ Len(p) = Len(front) + Len(check)
      /\ \A j \in 1..Len(front) : p[j] = front[j]
  BY ONLY <1>6, <1>b, Concat
<1> HIDE DEF p
<1>10. Len(data) = 4 + Len(payload) /\ Len(front) = 6 + Len(payload)
  BY <1>2, <1>4, <1>5, <1>8
<1>11. /\ p[1] = 181 /\ p[2] = 98 /\ p[3] = cls /\ p[4] = id
       /\ p[5] = Len(payload) /\ p[6] = 0
  <2>1. 1..4 \subseteq 1..Len(data) /\ 1..6 \subseteq 1..Len(front)
    BY <1>4, <1>10
  <2>2. /\ front[2 + 1] = data[1] /\ front[2 + 2] = data[2]
        /\ front[2 + 3] = data[3] /\ front[2 + 4] = data[4]
    BY <1>2, <1>8, <2>1
  <2> QED BY <1>2, <1>5, <1>8, <1>9, <2>1, <2>2
<1>12. ASSUME NEW j \in 1..Len(payload) PROVE p[6 + j] = payload[j]
  <2>1. /\ 6 + j \in 1..Len(front) /\ 4 + j \in 1..Len(data)
        /\ 6 + j = 2 + (4 + j)
    BY <1>4, <1>10
  <2>2. p[6 + j] = front[6 + j] /\ front[2 + (4 + j)] = data[4 + j]
    BY <1>2, <1>8, <1>9, <2>1
  <2>3. data[4 + j] = payload[j]
    BY <1>2, <1>5
  <2> QED BY <2>1, <2>2, <2>3
<1> QED BY <1>2, <1>3, <1>4, <1>7, <1>9, <1>10, <1>11, <1>12

-----------------------------------------------------------------------------
(* Wherever a pattern is, the whole answer is.                             *)

Genuine(bytes, pattern, answer) ==
  \A i \in 0..Len(bytes) : Occurs(bytes, pattern, i) => Occurs(bytes, answer, i)

(* What occurs in a sequence occurs there when more follows.               *)
LEMMA OccursLonger ==
  ASSUME NEW Item, NEW a \in Seq(Item), NEW b \in Seq(Item), NEW items \in Seq(Item),
         NEW i \in Nat, i + Len(items) <= Len(a)
  PROVE  Occurs(a \o b, items, i) <=> Occurs(a, items, i)
<1>1. /\ Len(a \o b) = Len(a) + Len(b)
      /\ \A j \in 1..Len(a) : (a \o b)[j] = a[j]
  BY ONLY Concat, a \in Seq(Item), b \in Seq(Item)
<1>2. Len(a) \in Nat /\ Len(b) \in Nat /\ Len(items) \in Nat
  OBVIOUS
<1>3. ASSUME NEW j \in 1..Len(items) PROVE (a \o b)[i + j] = a[i + j]
  <2>1. i + j \in 1..Len(a)
    BY <1>2
  <2> QED BY <1>1, <2>1
<1>4. i + Len(items) <= Len(a \o b)
  BY <1>1, <1>2
<1> QED BY <1>3, <1>4 DEF Occurs

(* What occurs in a sequence occurs later when more precedes.              *)
LEMMA OccursLater ==
  ASSUME NEW Item, NEW a \in Seq(Item), NEW b \in Seq(Item), NEW items \in Seq(Item),
         NEW i \in Nat
  PROVE  Occurs(a \o b, items, Len(a) + i) <=> Occurs(b, items, i)
<1>1. /\ Len(a \o b) = Len(a) + Len(b)
      /\ \A j \in 1..Len(b) : (a \o b)[Len(a) + j] = b[j]
  BY ONLY Concat, a \in Seq(Item), b \in Seq(Item)
<1>2. Len(a) \in Nat /\ Len(b) \in Nat /\ Len(items) \in Nat
  OBVIOUS
<1>3. ASSUME NEW j \in 1..Len(items), i + Len(items) <= Len(b)
      PROVE  (a \o b)[(Len(a) + i) + j] = b[i + j]
  <2>1. i + j \in 1..Len(b) /\ (Len(a) + i) + j = Len(a) + (i + j)
    BY <1>2, <1>3
  <2>2. (a \o b)[Len(a) + (i + j)] = b[i + j]
    BY <1>1, <2>1
  <2> QED BY <2>1, <2>2
<1>4. (Len(a) + i) + Len(items) <= Len(a \o b) <=> i + Len(items) <= Len(b)
  BY <1>1, <1>2
<1> QED BY <1>3, <1>4 DEF Occurs

(* Bytes stay genuine when others follow that are genuine and whose first  *)
(* one does not go on with the pattern.                                    *)
LEMMA GenuineAppended ==
  ASSUME NEW a \in Seq(Byte), NEW b \in Seq(Byte), NEW pattern \in Seq(Byte),
         NEW answer \in Seq(Byte), Len(pattern) > 0,
         Genuine(a, pattern, answer), Genuine(b, pattern, answer),
         \A j \in 2..Len(pattern) : pattern[j] # b[1]
  PROVE  Genuine(a \o b, pattern, answer)
<1> SUFFICES ASSUME NEW i \in 0..Len(a \o b), Occurs(a \o b, pattern, i)
             PROVE  Occurs(a \o b, answer, i)
  BY DEF Genuine
<1> DEFINE la == Len(a)
           lb == Len(b)
           lp == Len(pattern)
<1>1. la \in Nat /\ lb \in Nat /\ lp \in Nat /\ lp > 0 /\ Len(a \o b) = la + lb
  OBVIOUS
<1>2. i \in Nat /\ i + lp <= la + lb /\ \A j \in 1..lp : (a \o b)[i + j] = pattern[j]
  BY <1>1 DEF Occurs
<1>3. CASE i + lp <= la
  <2>1. Occurs(a, pattern, i)
    BY <1>2, <1>3, OccursLonger
  <2>2. Occurs(a, answer, i)
    BY <1>1, <1>2, <1>3, <2>1 DEF Genuine
  <2>3. i + Len(answer) <= Len(a)
    BY <2>2 DEF Occurs
  <2> QED BY <1>2, <2>2, <2>3, OccursLonger
<1>4. CASE i >= la
  <2> DEFINE k == i - la
  <2>1. k \in Nat /\ k \in 0..lb /\ i = la + k
    BY <1>1, <1>2, <1>4
  <2> HIDE DEF k
  <2>2. Occurs(b, pattern, k)
    BY <2>1, OccursLater
  <2>3. Occurs(b, answer, k)
    BY <2>1, <2>2 DEF Genuine
  <2> QED BY <2>1, <2>3, OccursLater
<1>5. CASE i < la /\ i + lp > la
  <2> DEFINE j == (la - i) + 1
  <2>1. j \in 2..lp /\ i + j = la + 1 /\ 1 \in 1..lb
    BY <1>1, <1>2, <1>5
  <2> HIDE DEF j
  <2>2. (a \o b)[la + 1] = b[1]
    BY <2>1, Concat
  <2>3. j \in 1..lp
    BY <1>1, <2>1
  <2>4. pattern[j] = b[1]
    BY <1>2, <2>1, <2>2, <2>3
  <2> QED BY <2>1, <2>4
<1> HIDE DEF la, lb, lp
<1> QED BY <1>1, <1>2, <1>3, <1>4, <1>5

(* They stay genuine when the first ones are taken.                        *)
LEMMA GenuineTaken ==
  ASSUME NEW a \in Seq(Byte), NEW b \in Seq(Byte), NEW pattern \in Seq(Byte),
         NEW answer \in Seq(Byte), Genuine(a \o b, pattern, answer)
  PROVE  Genuine(b, pattern, answer)
<1> SUFFICES ASSUME NEW i \in 0..Len(b), Occurs(b, pattern, i)
             PROVE  Occurs(b, answer, i)
  BY DEF Genuine
<1>1. i \in Nat /\ Occurs(a \o b, pattern, Len(a) + i)
  BY OccursLater
<1>2. Len(a) + i \in 0..Len(a \o b)
  <2>1. Len(a) \in Nat /\ Len(b) \in Nat /\ Len(a \o b) = Len(a) + Len(b)
    OBVIOUS
  <2> QED BY <2>1
<1>3. Occurs(a \o b, answer, Len(a) + i)
  BY <1>1, <1>2 DEF Genuine
<1> QED BY <1>1, <1>3, OccursLater

-----------------------------------------------------------------------------
(* What identifies a device: how the packet with its identification        *)
(* begins, and that packet.                                                *)

Mark(type) == IF type \in XsensDrivers THEN XsensHead(1) ELSE UbloxPreamble \o <<39, 3>>

Identification(type) ==
  IF type \in XsensDrivers THEN XsensPacket(1, XsensSerial)
  ELSE UbloxPacket(39, 3, <<1, 0, 0, 0>> \o UbloxSerial)

(* A packet that no other one can be mistaken for, with what came before.  *)
Clean(type, packet) ==
  /\ packet \in Seq(Byte) /\ Len(packet) > 0
  /\ \A j \in 2..Len(Mark(type)) : Mark(type)[j] # packet[1]
  /\ Genuine(packet, Mark(type), Identification(type))

(* The beginning of an Xsens packet, byte by byte.                         *)
LEMMA XsensHeadIs ==
  ASSUME NEW mid \in Byte
  PROVE  LET h == XsensHead(mid)
         IN  /\ h \in Seq(Byte) /\ Len(h) = 3
             /\ h[1] = 250 /\ h[2] = 255 /\ h[3] = mid
<1> DEFINE start == <<250, 255>>
<1>1. start \in Seq(Byte)
  BY ByteIs
<1>2. Len(start) = 2 /\ start[1] = 250 /\ start[2] = 255
  OBVIOUS
<1>3. XsensHead(mid) = Append(start, mid)
  BY RealBytes DEF XsensHead
<1> HIDE DEF start
<1>4. /\ Append(start, mid) \in Seq(Byte) /\ Len(Append(start, mid)) = Len(start) + 1
      /\ \A j \in 1..Len(start) : Append(start, mid)[j] = start[j]
      /\ Append(start, mid)[Len(start) + 1] = mid
  BY ONLY <1>1, mid \in Byte
<1>5. 1 \in 1..Len(start) /\ 2 \in 1..Len(start)
  BY <1>2
<1> QED BY <1>2, <1>3, <1>4, <1>5

(* The beginning of a Ublox packet.                                        *)
UbloxHead(cls, id) == UbloxPreamble \o <<cls, id>>

(* It is this, byte by byte.                                               *)
LEMMA UbloxHeadIs ==
  ASSUME NEW cls \in Byte, NEW id \in Byte
  PROVE  LET h == UbloxHead(cls, id)
         IN  /\ h \in Seq(Byte) /\ Len(h) = 4
             /\ h[1] = 181 /\ h[2] = 98 /\ h[3] = cls /\ h[4] = id
<1> DEFINE start == <<181, 98>>
           end == <<cls, id>>
<1>1. start \in Seq(Byte) /\ end \in Seq(Byte)
  BY ByteIs
<1>2. /\ Len(start) = 2 /\ start[1] = 181 /\ start[2] = 98
      /\ Len(end) = 2 /\ end[1] = cls /\ end[2] = id
  OBVIOUS
<1>3. UbloxHead(cls, id) = start \o end
  BY RealBytes DEF UbloxHead
<1> HIDE DEF start, end
<1>4. /\ start \o end \in Seq(Byte) /\ Len(start \o end) = Len(start) + Len(end)
      /\ \A j \in 1..Len(start) : (start \o end)[j] = start[j]
      /\ \A j \in 1..Len(end) : (start \o end)[Len(start) + j] = end[j]
  BY ONLY <1>1, Concat
<1>5. /\ 1 \in 1..Len(start) /\ 2 \in 1..Len(start)
      /\ 1 \in 1..Len(end) /\ 2 \in 1..Len(end)
      /\ Len(start) + 1 = 3 /\ Len(start) + 2 = 4 /\ Len(start) + Len(end) = 4
  BY <1>2
<1> DEFINE h == start \o end
<1> HIDE DEF h
<1>6. /\ h \in Seq(Byte) /\ Len(h) = 4
      /\ h[1] = start[1] /\ h[2] = start[2] /\ h[3] = end[1] /\ h[4] = end[2]
  BY <1>4, <1>5 DEF h
<1>7. UbloxHead(cls, id) = h
  BY <1>3 DEF h
<1> QED BY <1>2, <1>6, <1>7

(* Some bytes.                                                             *)
LEMMA SmallBytes == 1 \in Byte /\ 3 \in Byte /\ 39 \in Byte
  BY ByteIs

(* The drivers are apart.                                                  *)
LEMMA DriversApart ==
  /\ \A type \in XsensDrivers : type \notin UbloxDrivers /\ type # "runwell"
  /\ \A type \in UbloxDrivers : type # "runwell"
  BY DEF UbloxDrivers, XsensDrivers

(* An Xsens packet without a preamble in its middle can only be mistaken   *)
(* for another one if it has its identifier.                               *)
LEMMA XsensPacketClean ==
  ASSUME NEW type \in XsensDrivers, NEW mid \in Byte, NEW payload \in Seq(Byte),
         Len(payload) \in Byte, mid # 250, Len(payload) # 250,
         \A j \in 1..Len(payload) : payload[j] # 250,
         mid = 1 => payload = XsensSerial
  PROVE  Clean(type, XsensPacket(mid, payload))
<1> DEFINE p == XsensPacket(mid, payload)
           l == Len(payload)
           mark == Mark(type)
<1>0. l # 250
  OBVIOUS
<1>1. /\ p \in Seq(Byte) /\ Len(p) = 5 + l
      /\ p[1] = 250 /\ p[2] = 255 /\ p[3] = mid /\ p[4] = l
      /\ \A j \in 1..l : p[4 + j] = payload[j]
  BY XsensPacketIs
<1>2. /\ mark = XsensHead(1) /\ mark \in Seq(Byte) /\ Len(mark) = 3
      /\ mark[1] = 250 /\ mark[2] = 255 /\ mark[3] = 1
  <2>1. 1 \in Byte
    BY SmallBytes
  <2>2. mark = XsensHead(1)
    BY DEF Mark
  <2> HIDE DEF mark
  <2> QED BY <2>1, <2>2, XsensHeadIs
<1>3. l \in Nat
  OBVIOUS
<1>4. mid = 1 => Identification(type) = p
  BY DEF Identification
<1>5. ASSUME NEW i \in 0..Len(p), Occurs(p, mark, i) PROVE i = 0 /\ mid = 1
  <2> HIDE DEF p, l, mark
  <2>1. /\ i \in Nat /\ i + 3 <= 5 + l
        /\ p[i + 1] = 250 /\ p[i + 2] = 255 /\ p[i + 3] = 1
    <3>1. i + Len(mark) <= Len(p) /\ \A j \in 1..Len(mark) : p[i + j] = mark[j]
      BY <1>5 DEF Occurs
    <3>2. 1 \in 1..Len(mark) /\ 2 \in 1..Len(mark) /\ 3 \in 1..Len(mark)
      BY <1>2
    <3>3. i \in Nat
      BY <1>1, <1>3
    <3> QED BY <1>1, <1>2, <3>1, <3>2, <3>3
  <2>2. CASE i = 0
    BY <1>1, <2>1, <2>2
  <2>3. i # 1
    BY <1>1, <2>1
  <2>4. i # 2
    BY <1>1, <2>1
  <2>5. i # 3
    BY <1>0, <1>1, <2>1
  <2>6. CASE i >= 4
    <3> DEFINE j == i - 3
    <3>1. j \in 1..l /\ i + 1 = 4 + j
      BY <1>3, <2>1, <2>6
    <3> HIDE DEF j
    <3>2. payload[j] = 250
      BY <1>1, <2>1, <3>1
    <3> QED BY <3>1, <3>2 DEF l
  <2> QED BY <2>1, <2>2, <2>3, <2>4, <2>5, <2>6
<1>6. Genuine(p, mark, Identification(type))
  <2> SUFFICES ASSUME NEW i \in 0..Len(p), Occurs(p, mark, i)
               PROVE  Occurs(p, Identification(type), i)
    BY DEF Genuine
  <2>1. i = 0 /\ Identification(type) = p
    BY <1>4, <1>5
  <2> HIDE DEF p
  <2> QED BY <1>1, <1>3, <2>1 DEF Occurs
<1>7. \A j \in 2..Len(mark) : mark[j] # p[1]
  <2> HIDE DEF p, mark
  <2> TAKE j \in 2..Len(mark)
  <2>0. Len(mark) = 3
    BY <1>2
  <2>1. j = 2 \/ j = 3
    BY ONLY <2>0, j \in 2..Len(mark)
  <2> QED BY <1>1, <1>2, <2>1
<1> QED BY <1>1, <1>3, <1>6, <1>7 DEF Clean

(* So it is for Ublox.                                                     *)
LEMMA UbloxPacketClean ==
  ASSUME NEW type \in UbloxDrivers, NEW cls \in Byte, NEW id \in Byte,
         NEW payload \in Seq(Byte), Len(payload) \in Byte,
         cls # 181, id # 181, Len(payload) # 181,
         \A j \in 1..Len(payload) : payload[j] # 181,
         cls = 39 /\ id = 3 => payload = <<1, 0, 0, 0>> \o UbloxSerial
  PROVE  Clean(type, UbloxPacket(cls, id, payload))
<1> DEFINE p == UbloxPacket(cls, id, payload)
           l == Len(payload)
           mark == Mark(type)
<1>0. l # 181
  OBVIOUS
<1>1. /\ p \in Seq(Byte) /\ Len(p) = 8 + l
      /\ p[1] = 181 /\ p[2] = 98 /\ p[3] = cls /\ p[4] = id
      /\ p[5] = l /\ p[6] = 0
      /\ \A j \in 1..l : p[6 + j] = payload[j]
  BY UbloxPacketIs
<1>2. /\ mark \in Seq(Byte) /\ Len(mark) = 4
      /\ mark[1] = 181 /\ mark[2] = 98 /\ mark[3] = 39 /\ mark[4] = 3
  <2>1. 39 \in Byte /\ 3 \in Byte
    BY SmallBytes
  <2>2. mark = UbloxHead(39, 3)
    BY DriversApart DEF Mark, UbloxHead
  <2> HIDE DEF mark
  <2> QED BY <2>1, <2>2, UbloxHeadIs
<1>3. l \in Nat
  OBVIOUS
<1>4. cls = 39 /\ id = 3 => Identification(type) = p
  BY DriversApart DEF Identification
<1>5. ASSUME NEW i \in 0..Len(p), Occurs(p, mark, i) PROVE i = 0 /\ cls = 39 /\ id = 3
  <2> HIDE DEF p, l, mark
  <2>1. /\ i \in Nat /\ i + 4 <= 8 + l
        /\ p[i + 1] = 181 /\ p[i + 2] = 98 /\ p[i + 3] = 39 /\ p[i + 4] = 3
    <3>1. i + Len(mark) <= Len(p) /\ \A j \in 1..Len(mark) : p[i + j] = mark[j]
      BY <1>5 DEF Occurs
    <3>2. /\ 1 \in 1..Len(mark) /\ 2 \in 1..Len(mark)
          /\ 3 \in 1..Len(mark) /\ 4 \in 1..Len(mark)
      BY <1>2
    <3>3. i \in Nat
      BY <1>1, <1>3
    <3> QED BY <1>1, <1>2, <3>1, <3>2, <3>3
  <2>2. CASE i = 0
    BY <1>1, <2>1, <2>2
  <2>3. i # 1 /\ i # 2 /\ i # 3 /\ i # 5
    <3>1. p[1 + 1] # 181 /\ p[2 + 1] # 181 /\ p[3 + 1] # 181 /\ p[5 + 1] # 181
      BY <1>1
    <3>2. p[i + 1] = 181
      BY <2>1
    <3>3. i # 1
      BY ONLY <3>1, <3>2, Zenon
    <3>4. i # 2
      BY ONLY <3>1, <3>2, Zenon
    <3>5. i # 3
      BY ONLY <3>1, <3>2, Zenon
    <3>6. i # 5
      BY ONLY <3>1, <3>2, Zenon
    <3> QED BY ONLY <3>3, <3>4, <3>5, <3>6
  <2>4. i # 4
    <3>1. p[4 + 1] # 181
      BY <1>0, <1>1
    <3> QED BY <2>1, <3>1
  <2>5. CASE i >= 6
    <3> DEFINE j == i - 5
    <3>1. j \in 1..l /\ i + 1 = 6 + j
      BY <1>3, <2>1, <2>5
    <3> HIDE DEF j
    <3>2. p[6 + j] = payload[j]
      BY <1>1, <3>1
    <3>3. p[i + 1] = 181
      BY <2>1
    <3>4. payload[j] = 181
      BY ONLY <3>1, <3>2, <3>3
    <3> QED BY <3>1, <3>4 DEF l
  <2> QED BY <2>1, <2>2, <2>3, <2>4, <2>5
<1>6. Genuine(p, mark, Identification(type))
  <2> SUFFICES ASSUME NEW i \in 0..Len(p), Occurs(p, mark, i)
               PROVE  Occurs(p, Identification(type), i)
    BY DEF Genuine
  <2>1. i = 0 /\ Identification(type) = p
    BY <1>4, <1>5
  <2> HIDE DEF p
  <2> QED BY <1>1, <1>3, <2>1 DEF Occurs
<1>7. \A j \in 2..Len(mark) : mark[j] # p[1]
  <2> HIDE DEF p, mark
  <2> TAKE j \in 2..Len(mark)
  <2>0. Len(mark) = 4
    BY <1>2
  <2>1. j = 2 \/ j = 3 \/ j = 4
    BY ONLY <2>0, j \in 2..Len(mark)
  <2> QED BY <1>1, <1>2, <2>1
<1> QED BY <1>1, <1>3, <1>6, <1>7 DEF Clean

-----------------------------------------------------------------------------
(* The commands.                                                           *)

(* What holds of each command, and of what the device answers.             *)
CommandOf(type, c) ==
  /\ c.expected \in Seq(Byte) /\ Len(c.expected) <= 65535
  /\ c.error \in Seq(Byte)
  /\ c.ask \in {<<>>, <<3>>, <<4, 5>>}
  /\ Clean(type, c.accept)
  /\ \A bytes \in c.refuse : Clean(type, bytes)
  /\ c.name \in {"identifier", "sec_uniqid"} => c.expected = Mark(type)

(* A payload without the first byte of a packet.                           *)
XsensPayload(bytes) ==
  /\ bytes \in Seq(Byte)
  /\ Len(bytes) \in Int /\ 0 <= Len(bytes) /\ Len(bytes) <= 180
  /\ \A j \in 1..Len(bytes) : bytes[j] # 250

(* No byte, one or two of them.                                            *)
LEMMA ShortPayloads ==
  /\ XsensPayload(<<>>)
  /\ \A a \in 0..100 : XsensPayload(<<a>>)
  /\ \A a, b \in 0..100 : XsensPayload(<<a, b>>)
<1>1. XsensPayload(<<>>)
  BY DEF XsensPayload
<1>2. \A a \in 0..100 : a \in Byte /\ a # 250
  BY ByteIs
<1>3. ASSUME NEW a \in 0..100 PROVE XsensPayload(<<a>>)
  <2>1. <<a>> \in Seq(Byte) /\ <<a>>[1] # 250
    BY <1>2
  <2>2. Len(<<a>>) = 1
    OBVIOUS
  <2> DEFINE bytes == <<a>>
  <2> HIDE DEF bytes
  <2>3. bytes \in Seq(Byte) /\ bytes[1] # 250 /\ Len(bytes) = 1
    BY <2>1, <2>2 DEF bytes
  <2>4. \A j \in 1..Len(bytes) : j = 1
    BY ONLY <2>3
  <2>5. XsensPayload(bytes)
    BY <2>3, <2>4 DEF XsensPayload
  <2> QED BY <2>5 DEF bytes
<1>4. ASSUME NEW a \in 0..100, NEW b \in 0..100 PROVE XsensPayload(<<a, b>>)
  <2>1. <<a, b>> \in Seq(Byte) /\ <<a, b>>[1] # 250 /\ <<a, b>>[2] # 250
    BY <1>2
  <2>2. Len(<<a, b>>) = 2
    OBVIOUS
  <2> DEFINE bytes == <<a, b>>
  <2> HIDE DEF bytes
  <2>3. bytes \in Seq(Byte) /\ bytes[1] # 250 /\ bytes[2] # 250 /\ Len(bytes) = 2
    BY <2>1, <2>2 DEF bytes
  <2>4. \A j \in 1..Len(bytes) : j = 1 \/ j = 2
    BY ONLY <2>3
  <2>5. XsensPayload(bytes)
    BY <2>3, <2>4 DEF XsensPayload
  <2> QED BY <2>5 DEF bytes
<1> QED BY <1>1, <1>3, <1>4

(* Those that the commands and their answers have.                         *)
LEMMA SomePayloads ==
  /\ XsensPayload(<<>>)
  /\ XsensPayload(<<0>>) /\ XsensPayload(<<1>>) /\ XsensPayload(<<4>>)
  /\ XsensPayload(<<77>>)
  /\ XsensPayload(<<16, 16>>) /\ XsensPayload(<<64, 32>>) /\ XsensPayload(<<64, 48>>)
<1>1. {0, 1, 4, 16, 32, 48, 64, 77} \subseteq 0..100
  OBVIOUS
<1>2. \A a \in 0..100 : XsensPayload(<<a>>)
  BY ShortPayloads
<1>3. \A a, b \in 0..100 : XsensPayload(<<a, b>>)
  BY ShortPayloads
<1>4. XsensPayload(<<0>>) /\ XsensPayload(<<1>>) /\ XsensPayload(<<4>>) /\ XsensPayload(<<77>>)
  BY ONLY <1>1, <1>2, Zenon
<1>5. XsensPayload(<<16, 16>>) /\ XsensPayload(<<64, 32>>) /\ XsensPayload(<<64, 48>>)
  BY ONLY <1>1, <1>3, Zenon
<1> QED BY ShortPayloads, <1>4, <1>5

(* So is the identification.                                               *)
LEMMA SerialPayload ==
  /\ XsensPayload(XsensSerial) /\ Len(XsensSerial) = 4
<1>1. XsensSerial \in Seq(Byte)
  BY ByteIs DEF XsensSerial
<1>2. /\ Len(XsensSerial) = 4
      /\ XsensSerial[1] # 250 /\ XsensSerial[2] # 250
      /\ XsensSerial[3] # 250 /\ XsensSerial[4] # 250
  BY DEF XsensSerial
<1>3. \A j \in 1..Len(XsensSerial) : j = 1 \/ j = 2 \/ j = 3 \/ j = 4
  BY ONLY <1>2
<1> QED BY <1>1, <1>2, <1>3 DEF XsensPayload

(* What an Xsens sends is clean, but for its identification it carries     *)
(* another identifier.                                                     *)
LEMMA XsensClean ==
  ASSUME NEW type \in XsensDrivers, NEW mid \in Int, 2 <= mid, mid <= 249,
         NEW payload, XsensPayload(payload)
  PROVE  /\ Clean(type, XsensPacket(mid, payload))
         /\ XsensPacket(mid, payload) \in Seq(Byte)
         /\ Len(XsensPacket(mid, payload)) <= 65535
<1>1. /\ payload \in Seq(Byte)
      /\ \A j \in 1..Len(payload) : payload[j] # 250
  BY DEF XsensPayload
<1>2. /\ mid \in Int /\ 2 <= mid /\ mid <= 249
      /\ Len(payload) \in Int /\ 0 <= Len(payload) /\ Len(payload) <= 180
  BY DEF XsensPayload
<1> DEFINE length == Len(payload)
<1>a. length \in Int /\ 0 <= length /\ length <= 180
  BY <1>2
<1> HIDE DEF length
<1>b. mid \in Byte /\ mid # 250 /\ mid # 1
  BY ONLY <1>2, ByteIs
<1>c. length \in Byte /\ length # 250
  BY ONLY <1>a, ByteIs
<1>3. mid \in Byte /\ Len(payload) \in Byte /\ mid # 250 /\ mid # 1 /\ Len(payload) # 250
  BY <1>b, <1>c DEF length
<1>4. Clean(type, XsensPacket(mid, payload))
  BY ONLY <1>1, <1>3, XsensPacketClean, type \in XsensDrivers
<1>5. /\ XsensPacket(mid, payload) \in Seq(Byte)
      /\ Len(XsensPacket(mid, payload)) = 5 + Len(payload)
  BY ONLY <1>1, <1>3, XsensPacketIs
<1>6. Len(XsensPacket(mid, payload)) <= 65535
  BY ONLY <1>2, <1>5
<1> QED BY ONLY <1>4, <1>5, <1>6

(* The identification of an Xsens is clean.                                *)
LEMMA XsensIdentificationClean ==
  ASSUME NEW type \in XsensDrivers
  PROVE  Clean(type, XsensPacket(1, XsensSerial))
<1>1. /\ XsensSerial \in Seq(Byte)
      /\ \A j \in 1..Len(XsensSerial) : XsensSerial[j] # 250
  BY SerialPayload DEF XsensPayload
<1>2. Len(XsensSerial) = 4
  BY SerialPayload
<1>3. Len(XsensSerial) \in Byte /\ Len(XsensSerial) # 250
  BY <1>2, ByteIs
<1>4. 1 \in Byte /\ 1 # 250
  BY SmallBytes
<1> QED BY ONLY <1>1, <1>3, <1>4, XsensPacketClean, type \in XsensDrivers

(* How the refusals of an Xsens begin.                                     *)
LEMMA XsensErrorTyped == XsensError \in Seq(Byte)
<1> DEFINE start == <<250, 255>>
           end == <<66, 1>>
<1>1. start \in Seq(Byte) /\ end \in Seq(Byte)
  BY ByteIs
<1>2. XsensError = start \o end
  BY RealBytes DEF XsensError
<1> HIDE DEF start, end
<1> QED BY <1>1, <1>2, Concat

(* Each kind of command of an Xsens.                                       *)
LEMMA XsensKinds ==
  ASSUME NEW type \in XsensDrivers, NEW name, name \notin {"identifier", "sec_uniqid"},
         NEW mid \in 1..248, NEW ask \in {<<>>, << 3 >>},
         NEW setting, XsensPayload(setting), NEW other, XsensPayload(other),
         NEW payload, XsensPayload(payload)
  PROVE  /\ CommandOf(type, do_command(name, mid))
         /\ CommandOf(type, do_set(name, mid))
         /\ CommandOf(type, do_check(name, mid, setting, other))
         /\ CommandOf(type, do_request(name, mid, ask, payload))
<1> DEFINE next == mid + 1
<1>1. next \in 2..249 /\ next \in Int /\ 0 <= next /\ next <= 255
  OBVIOUS
<1> HIDE DEF next
<1>2. next \in Byte
  BY ONLY <1>1, ByteIs
<1>a. /\ XsensHead(next) \in Seq(Byte) /\ Len(XsensHead(next)) = 3
  BY <1>2, XsensHeadIs
<1>b. Len(XsensHead(next)) <= 65535
  BY <1>a
<1>3. XsensHead(next) \in Seq(Byte) /\ Len(XsensHead(next)) <= 65535
  BY ONLY <1>a, <1>b
<1>4. ASSUME NEW bytes, XsensPayload(bytes)
      PROVE  /\ Clean(type, XsensPacket(next, bytes))
             /\ XsensPacket(next, bytes) \in Seq(Byte)
             /\ Len(XsensPacket(next, bytes)) <= 65535
  <2>1. next \in Int /\ 2 <= next /\ next <= 249
    BY <1>1
  <2> QED BY <1>4, <2>1, XsensClean
<1>d. XsensPayload(<<>>)
  BY SomePayloads
<1>5. Clean(type, XsensRefusal)
  <2>1. 66 \in 2..249 /\ XsensPayload(<<4>>)
    BY SomePayloads
  <2> QED BY <2>1, XsensClean DEF XsensRefusal
<1>6. CommandOf(type, do_command(name, mid))
  BY <1>4, <1>5, <1>d, XsensErrorTyped DEF CommandOf, do_command, Command, next
<1>7. CommandOf(type, do_set(name, mid))
  BY <1>3, <1>4, <1>5, <1>d, XsensErrorTyped DEF CommandOf, do_set, Command, next
<1>8. CommandOf(type, do_check(name, mid, setting, other))
  BY <1>4, XsensErrorTyped DEF CommandOf, do_check, Command, next
<1>9. CommandOf(type, do_request(name, mid, ask, payload))
  BY <1>3, <1>4, <1>5, XsensErrorTyped DEF CommandOf, do_request, Command, next
<1> QED BY <1>6, <1>7, <1>8, <1>9

(* The request for the identification of an Xsens.                         *)
LEMMA IdentifierIs ==
  ASSUME NEW type \in XsensDrivers
  PROVE  CommandOf(type, do_request("identifier", 0, <<3>>, XsensSerial))
<1>1. Clean(type, XsensPacket(1, XsensSerial))
  BY XsensIdentificationClean
<1>2. Clean(type, XsensRefusal)
  <2>1. 66 \in 2..249 /\ XsensPayload(<<4>>)
    BY SomePayloads
  <2> QED BY <2>1, XsensClean DEF XsensRefusal
<1>a. /\ XsensHead(1) \in Seq(Byte) /\ Len(XsensHead(1)) = 3
      /\ XsensHead(1) = Mark(type)
  BY SmallBytes, XsensHeadIs DEF Mark
<1>b. Len(XsensHead(1)) <= 65535
  <2> DEFINE h == XsensHead(1)
  <2>1. Len(h) = 3
    BY <1>a
  <2> HIDE DEF h
  <2>2. Len(h) <= 65535
    BY ONLY <2>1
  <2> QED BY <2>2 DEF h
<1>3. /\ XsensHead(1) \in Seq(Byte) /\ Len(XsensHead(1)) <= 65535
      /\ XsensHead(1) = Mark(type)
  BY ONLY <1>a, <1>b
<1>4. 0 + 1 = 1
  OBVIOUS
<1> QED BY <1>1, <1>2, <1>3, <1>4, XsensErrorTyped DEF CommandOf, do_request, Command

-----------------------------------------------------------------------------
(* The program of an Xsens.                                                *)

(* Its commands are those of the driver.                                   *)
XsensCommands(type) ==
  {do_command("goto_config", 48),
   do_request("identifier", 0, <<3>>, XsensSerial),
   do_request("product_code", 28, <<3>>, <<77>>),
   do_request("firmware", 18, <<3>>, <<1>>),
   do_set("option_flags", 72), do_set("string_output_type", 142),
   do_set("filter_profile", 100),
   do_check("check_output", 192, output_configuration(type), OtherOutput),
   do_set("set_output", 192),
   do_request("init_mt", 2, <<>>, <<>>),
   do_command("goto_measurement", 16),
   do_command("reset", 64)}

(* Each of them is in order.                                               *)
LEMMA XsensCommandsAre ==
  ASSUME NEW type \in XsensDrivers, NEW c \in XsensCommands(type)
  PROVE  CommandOf(type, c)
<1>1. /\ XsensPayload(<<>>) /\ XsensPayload(<<77>>) /\ XsensPayload(<<1>>)
      /\ XsensPayload(output_configuration(type)) /\ XsensPayload(OtherOutput)
  BY SomePayloads DEF output_configuration, OtherOutput
<1>2. \A name, mid : name \notin {"identifier", "sec_uniqid"} /\ mid \in 1..248 =>
        /\ CommandOf(type, do_command(name, mid))
        /\ CommandOf(type, do_set(name, mid))
        /\ CommandOf(type, do_check(name, mid, output_configuration(type), OtherOutput))
  BY <1>1, XsensKinds
<1>3. \A name, mid, ask, payload :
        /\ name \notin {"identifier", "sec_uniqid"} /\ mid \in 1..248
        /\ ask \in {<<>>, <<3>>} /\ XsensPayload(payload)
        => CommandOf(type, do_request(name, mid, ask, payload))
  BY <1>1, XsensKinds
<1>4. {48, 28, 18, 72, 142, 100, 192, 2, 16, 64} \subseteq 1..248
  OBVIOUS
<1>5. CommandOf(type, do_request("identifier", 0, <<3>>, XsensSerial))
  BY IdentifierIs
<1>6. /\ CommandOf(type, do_command("goto_config", 48))
      /\ CommandOf(type, do_set("option_flags", 72))
      /\ CommandOf(type, do_set("string_output_type", 142))
      /\ CommandOf(type, do_set("filter_profile", 100))
      /\ CommandOf(type, do_check("check_output", 192, output_configuration(type), OtherOutput))
      /\ CommandOf(type, do_set("set_output", 192))
      /\ CommandOf(type, do_command("goto_measurement", 16))
      /\ CommandOf(type, do_command("reset", 64))
  BY ONLY <1>2, <1>4
<1>7. /\ CommandOf(type, do_request("product_code", 28, <<3>>, <<77>>))
      /\ CommandOf(type, do_request("firmware", 18, <<3>>, <<1>>))
      /\ CommandOf(type, do_request("init_mt", 2, <<>>, <<>>))
  BY ONLY <1>1, <1>3, <1>4
<1> QED BY <1>5, <1>6, <1>7 DEF XsensCommands

(* The program has these commands, in this order; n of them come before    *)
(* those of the class of devices.                                          *)
LEMMA XsensProgramIs ==
  ASSUME NEW type \in XsensDrivers
  PROVE  LET p == XsensProgram(type)
             n == 6 + Len(set_filter_profile)
         IN  /\ p \in Seq(XsensCommands(type)) /\ Len(p) = n + 5 /\ n \in {6, 7}
             /\ Len(set_filter_profile) \in Nat
             /\ p[1].name = "goto_config" /\ p[2].name = "identifier"
             /\ p[3].name = "product_code" /\ p[4].name = "firmware"
             /\ p[5].name = "option_flags" /\ p[6].name = "string_output_type"
             /\ n = 7 => p[7].name = "filter_profile"
             /\ p[n + 1].name = "check_output" /\ p[n + 2].name = "set_output"
             /\ p[n + 3].name = "init_mt" /\ p[n + 4].name = "goto_measurement"
             /\ p[n + 5].name = "reset"
<1> DEFINE C == XsensCommands(type)
           a1 == do_command("goto_config", 48)
           a2 == do_request("identifier", 0, <<3>>, XsensSerial)
           a3 == do_request("product_code", 28, <<3>>, <<77>>)
           a4 == do_request("firmware", 18, <<3>>, <<1>>)
           a5 == do_set("option_flags", 72)
           a6 == do_set("string_output_type", 142)
           f1 == do_set("filter_profile", 100)
           o1 == do_check("check_output", 192, output_configuration(type), OtherOutput)
           o2 == do_set("set_output", 192)
           z1 == do_request("init_mt", 2, <<>>, <<>>)
           z2 == do_command("goto_measurement", 16)
           z3 == do_command("reset", 64)
<1>1. /\ a1 \in C /\ a2 \in C /\ a3 \in C /\ a4 \in C /\ a5 \in C /\ a6 \in C
      /\ f1 \in C /\ o1 \in C /\ o2 \in C /\ z1 \in C /\ z2 \in C /\ z3 \in C
  BY DEF XsensCommands
<1>2. /\ a1.name = "goto_config" /\ z2.name = "goto_measurement" /\ z3.name = "reset"
      /\ a5.name = "option_flags" /\ a6.name = "string_output_type"
      /\ f1.name = "filter_profile" /\ o2.name = "set_output"
      /\ a2.name = "identifier" /\ a3.name = "product_code" /\ a4.name = "firmware"
      /\ z1.name = "init_mt" /\ o1.name = "check_output"
  BY DEF do_command, do_request, do_set, do_check, Command
<1> DEFINE A == <<a1, a2, a3, a4, a5, a6>>
           F == set_filter_profile
           O == <<o1, o2>>
           Z == <<z1, z2, z3>>
<1>3. XsensProgram(type) = ((A \o F) \o O) \o Z
  BY DEF XsensProgram, OutputProgram
<1> HIDE DEF C, a1, a2, a3, a4, a5, a6, f1, o1, o2, z1, z2, z3
<1>4. F = <<>> \/ F = <<f1>>
  BY DEF set_filter_profile, f1
<1> HIDE DEF F
<1>5. A \in Seq(C) /\ F \in Seq(C) /\ O \in Seq(C) /\ Z \in Seq(C)
  <2>1. A \in Seq(C) /\ O \in Seq(C) /\ Z \in Seq(C)
    BY <1>1
  <2>2. <<>> \in Seq(C) /\ <<f1>> \in Seq(C)
    BY <1>1
  <2> QED BY <1>4, <2>1, <2>2
<1>6. /\ Len(A) = 6 /\ A[1] = a1 /\ A[2] = a2 /\ A[3] = a3 /\ A[4] = a4
      /\ A[5] = a5 /\ A[6] = a6
      /\ Len(O) = 2 /\ O[1] = o1 /\ O[2] = o2
      /\ Len(Z) = 3 /\ Z[1] = z1 /\ Z[2] = z2 /\ Z[3] = z3
  OBVIOUS
<1>7. (Len(F) = 0 \/ Len(F) = 1) /\ (Len(F) = 1 => F[1] = f1)
  <2>1. Len(<<>>) = 0 /\ Len(<<f1>>) = 1 /\ <<f1>>[1] = f1
    OBVIOUS
  <2> QED BY <1>4, <2>1
<1> HIDE DEF A, O, Z
<1> DEFINE AF == A \o F
           AFO == AF \o O
           P == AFO \o Z
<1>8. /\ AF \in Seq(C) /\ Len(AF) = Len(A) + Len(F)
      /\ \A j \in 1..Len(A) : AF[j] = A[j]
      /\ \A j \in 1..Len(F) : AF[Len(A) + j] = F[j]
  BY ONLY <1>5, Concat
<1> HIDE DEF AF
<1>a. AF \in Seq(C)
  BY <1>8
<1>9. /\ AFO \in Seq(C) /\ Len(AFO) = Len(AF) + Len(O)
      /\ \A j \in 1..Len(AF) : AFO[j] = AF[j]
      /\ \A j \in 1..Len(O) : AFO[Len(AF) + j] = O[j]
  BY ONLY <1>5, <1>a, Concat
<1> HIDE DEF AFO
<1>b. AFO \in Seq(C)
  BY <1>9
<1>10. /\ P \in Seq(C) /\ Len(P) = Len(AFO) + Len(Z)
       /\ \A j \in 1..Len(AFO) : P[j] = AFO[j]
       /\ \A j \in 1..Len(Z) : P[Len(AFO) + j] = Z[j]
  BY ONLY <1>5, <1>b, Concat
<1> HIDE DEF P
<1> DEFINE n == 6 + Len(F)
<1>11. n \in {6, 7} /\ Len(F) \in Nat
  <2> DEFINE k == Len(F)
  <2>1. k = 0 \/ k = 1
    BY <1>7
  <2> HIDE DEF k
  <2>2. 6 + k \in {6, 7} /\ k \in Nat
    BY ONLY <2>1
  <2> QED BY <2>2 DEF k
<1>12. Len(AF) = n /\ Len(AFO) = n + 2 /\ Len(P) = n + 5
  BY <1>6, <1>8, <1>9, <1>10, <1>11
<1>13. \A j \in 1..6 : P[j] = A[j]
  BY <1>6, <1>8, <1>9, <1>10, <1>11, <1>12
<1>14. n = 7 => P[7] = f1
  <2> SUFFICES ASSUME n = 7 PROVE P[7] = f1
    OBVIOUS
  <2>1. Len(F) = 1 /\ F[1] = f1 /\ 1 \in 1..Len(F)
    BY <1>7, <1>11
  <2>2. AF[Len(A) + 1] = f1
    BY <1>8, <2>1
  <2>3. Len(A) + 1 = 7 /\ 7 \in 1..Len(AF) /\ 7 \in 1..Len(AFO)
    BY <1>6, <1>12
  <2> QED BY <1>9, <1>10, <2>2, <2>3
<1>15. P[n + 1] = o1 /\ P[n + 2] = o2
  <2>1. /\ 1 \in 1..Len(O) /\ 2 \in 1..Len(O)
        /\ n + 1 \in 1..Len(AFO) /\ n + 2 \in 1..Len(AFO)
    BY <1>6, <1>11, <1>12
  <2>2. AFO[n + 1] = O[1] /\ AFO[n + 2] = O[2]
    BY <1>9, <1>12, <2>1
  <2> QED BY <1>6, <1>10, <2>1, <2>2
<1>16. P[n + 3] = z1 /\ P[n + 4] = z2 /\ P[n + 5] = z3
  <2>1. /\ 1 \in 1..Len(Z) /\ 2 \in 1..Len(Z) /\ 3 \in 1..Len(Z)
        /\ (n + 2) + 1 = n + 3 /\ (n + 2) + 2 = n + 4 /\ (n + 2) + 3 = n + 5
    BY <1>6, <1>11
  <2>2. P[(n + 2) + 1] = Z[1] /\ P[(n + 2) + 2] = Z[2] /\ P[(n + 2) + 3] = Z[3]
    BY <1>10, <1>12, <2>1
  <2> QED BY <1>6, <2>1, <2>2
<1>17. XsensProgram(type) = P
  BY <1>3 DEF P, AFO, AF
<1>18. /\ P[1] = a1 /\ P[2] = a2 /\ P[3] = a3 /\ P[4] = a4 /\ P[5] = a5 /\ P[6] = a6
  BY <1>6, <1>13
<1> HIDE DEF n
<1>19. n = 6 + Len(set_filter_profile)
  BY DEF n, F
<1> QED BY <1>2, <1>10, <1>11, <1>12, <1>14, <1>15, <1>16, <1>17, <1>18, <1>19 DEF C, F

-----------------------------------------------------------------------------
(* The program of a Ublox.                                                 *)

(* A payload without the first byte of a packet.                           *)
UbloxPayload(bytes) ==
  /\ bytes \in Seq(Byte)
  /\ Len(bytes) \in Int /\ 0 <= Len(bytes) /\ Len(bytes) <= 180
  /\ \A j \in 1..Len(bytes) : bytes[j] # 181

(* What the acknowledgements, the versions and the measurements carry.     *)
LEMMA UbloxPayloads ==
  /\ UbloxPayload(<<>>) /\ UbloxPayload(<<0>>)
  /\ \A a \in 0..150 : UbloxPayload(<<6, a>>)
<1>1. UbloxPayload(<<>>)
  BY DEF UbloxPayload
<1>2. 0 \in Byte /\ 6 \in Byte /\ \A a \in 0..150 : a \in Byte /\ a # 181
  BY ByteIs
<1>3. UbloxPayload(<<0>>)
  <2> DEFINE bytes == <<0>>
  <2>1. bytes \in Seq(Byte) /\ bytes[1] # 181
    BY <1>2
  <2>2. Len(bytes) = 1
    OBVIOUS
  <2> HIDE DEF bytes
  <2>3. \A j \in 1..Len(bytes) : j = 1
    BY ONLY <2>2
  <2>4. UbloxPayload(bytes)
    BY <2>1, <2>2, <2>3 DEF UbloxPayload
  <2> QED BY <2>4 DEF bytes
<1>4. ASSUME NEW a \in 0..150 PROVE UbloxPayload(<<6, a>>)
  <2> DEFINE bytes == <<6, a>>
  <2>1. bytes \in Seq(Byte) /\ bytes[1] # 181 /\ bytes[2] # 181
    BY <1>2
  <2>2. Len(bytes) = 2
    OBVIOUS
  <2> HIDE DEF bytes
  <2>3. \A j \in 1..Len(bytes) : j = 1 \/ j = 2
    BY ONLY <2>2
  <2>4. UbloxPayload(bytes)
    BY <2>1, <2>2, <2>3 DEF UbloxPayload
  <2> QED BY <2>4 DEF bytes
<1> QED BY <1>1, <1>3, <1>4

(* The identification, after its version.                                  *)
UbloxIdentity == <<1, 0, 0, 0>> \o UbloxSerial

(* So is the identification, which ends in the serial number.              *)
LEMMA UbloxIdentityIs ==
  /\ UbloxPayload(UbloxIdentity) /\ Len(UbloxIdentity) = 9
  /\ UbloxSerial \in Seq(Byte) /\ Len(UbloxSerial) = 5
  /\ \A j \in 1..5 : UbloxIdentity[4 + j] = UbloxSerial[j]
<1> DEFINE start == <<1, 0, 0, 0>>
           s == UbloxSerial
           p == start \o s
<1>1. start \in Seq(Byte) /\ s \in Seq(Byte)
  BY ByteIs DEF UbloxSerial
<1>2. /\ Len(start) = 4 /\ start[1] # 181 /\ start[2] # 181 /\ start[3] # 181
      /\ start[4] # 181 /\ Len(s) = 5 /\ s[1] # 181 /\ s[2] # 181 /\ s[3] # 181
      /\ s[4] # 181 /\ s[5] # 181
  BY DEF UbloxSerial
<1> HIDE DEF start, s
<1>3. /\ p \in Seq(Byte) /\ Len(p) = Len(start) + Len(s)
      /\ \A j \in 1..Len(start) : p[j] = start[j]
      /\ \A j \in 1..Len(s) : p[Len(start) + j] = s[j]
  BY ONLY <1>1, Concat
<1> HIDE DEF p
<1>4. Len(p) = 9 /\ Len(p) \in Int /\ 0 <= Len(p) /\ Len(p) <= 9
  BY <1>2, <1>3
<1>5. ASSUME NEW j \in 1..Len(p) PROVE p[j] # 181
  <2>1. j \in 1..4 \/ j - 4 \in 1..5
    BY <1>4
  <2>2. CASE j \in 1..4
    <3>1. p[j] = start[j] /\ (j = 1 \/ j = 2 \/ j = 3 \/ j = 4)
      BY <1>2, <1>3, <2>2
    <3> QED BY <1>2, <3>1
  <2>3. CASE j - 4 \in 1..5
    <3> DEFINE k == j - 4
    <3>1. k \in 1..5 /\ (k = 1 \/ k = 2 \/ k = 3 \/ k = 4 \/ k = 5) /\ j = 4 + k
      BY <2>3
    <3> HIDE DEF k
    <3>2. p[j] = s[k]
      BY <1>2, <1>3, <3>1
    <3> QED BY <1>2, <3>1, <3>2
  <2> QED BY <2>1, <2>2, <2>3
<1>6. \A j \in 1..5 : p[4 + j] = s[j]
  BY <1>2, <1>3
<1>7. UbloxIdentity = p
  BY DEF p, start, s, UbloxIdentity
<1>8. UbloxPayload(p)
  BY <1>3, <1>4, <1>5 DEF UbloxPayload
<1> QED BY <1>1, <1>2, <1>4, <1>6, <1>7, <1>8 DEF s

(* What a Ublox sends is clean.                                            *)
LEMMA UbloxClean ==
  ASSUME NEW type \in UbloxDrivers, NEW cls \in Int, 0 <= cls, cls <= 100,
         NEW id \in Int, 0 <= id, id <= 100,
         NEW payload, UbloxPayload(payload),
         cls = 39 /\ id = 3 => payload = UbloxIdentity
  PROVE  Clean(type, UbloxPacket(cls, id, payload))
<1>1. /\ payload \in Seq(Byte)
      /\ \A j \in 1..Len(payload) : payload[j] # 181
  BY DEF UbloxPayload
<1> DEFINE length == Len(payload)
<1>2. length \in Int /\ 0 <= length /\ length <= 180
  BY DEF UbloxPayload
<1> HIDE DEF length
<1>3. cls \in Byte /\ id \in Byte /\ cls # 181 /\ id # 181
  BY ByteIs
<1>4. length \in Byte /\ length # 181
  BY ONLY <1>2, ByteIs
<1>5. Len(payload) \in Byte /\ Len(payload) # 181
  BY <1>4 DEF length
<1> QED BY <1>1, <1>3, <1>5, UbloxPacketClean DEF UbloxIdentity

(* How the acknowledgements of a Ublox begin.                              *)
LEMMA UbloxAnswersTyped ==
  /\ UbloxAck \in Seq(Byte) /\ Len(UbloxAck) = 7
  /\ UbloxNak \in Seq(Byte)
<1> DEFINE start == <<181, 98>>
           ack == <<5, 1, 2, 0, 6>>
           nak == <<5, 0, 2, 0, 6>>
<1>1. start \in Seq(Byte) /\ ack \in Seq(Byte) /\ nak \in Seq(Byte)
  BY ByteIs
<1>2. Len(start) = 2 /\ Len(ack) = 5
  OBVIOUS
<1>3. UbloxAck = start \o ack /\ UbloxNak = start \o nak
  BY RealBytes DEF UbloxAck, UbloxNak
<1> HIDE DEF start, ack, nak
<1>4. /\ start \o ack \in Seq(Byte) /\ Len(start \o ack) = Len(start) + Len(ack)
      /\ start \o nak \in Seq(Byte)
  BY ONLY <1>1, Concat
<1> DEFINE a == start \o ack
<1> HIDE DEF a
<1>5. Len(a) = 7
  BY <1>2, <1>4 DEF a
<1> QED BY <1>3, <1>4, <1>5 DEF a

(* Its commands are those of the driver.                                   *)
UbloxSets == {UbloxSet("prt_usb", 0), UbloxSet("prt_uart", 0), UbloxSet("pms", 134),
              UbloxSet("nav5", 36), UbloxSet("gnss", 62),
              UbloxSet("rate", 8), UbloxSet("hnr", 92),
              UbloxSet("nav_pvt", 1), UbloxSet("nav_att", 1),
              UbloxSet("esf_ins", 1), UbloxSet("esf_raw", 1)}

UbloxCommands ==
  UbloxSets \cup {UbloxRequest("mon_ver", 10, 4, <<0>>),
                  UbloxRequest("sec_uniqid", 39, 3, UbloxIdentity)}

(* A command that sets something is in order.                              *)
LEMMA UbloxSetIs ==
  ASSUME NEW type \in UbloxDrivers, NEW name, name \notin {"identifier", "sec_uniqid"},
         NEW id \in 0..150
  PROVE  CommandOf(type, UbloxSet(name, id))
<1>1. UbloxPayload(<<6, id>>)
  BY UbloxPayloads
<1>2. 0 <= 5 /\ 5 <= 100 /\ 0 <= 1 /\ 1 <= 100 /\ 0 <= 0 /\ 0 <= 100
      /\ ~(5 = 39) /\ 0 \in Int /\ 1 \in Int /\ 5 \in Int
  OBVIOUS
<1>3. /\ Clean(type, UbloxPacket(5, 1, <<6, id>>))
      /\ Clean(type, UbloxPacket(5, 0, <<6, id>>))
  BY ONLY <1>1, <1>2, UbloxClean, type \in UbloxDrivers
<1>4. /\ UbloxAck \in Seq(Byte) /\ UbloxNak \in Seq(Byte)
  BY UbloxAnswersTyped
<1>5. Len(UbloxAck) <= 65535
  <2> DEFINE l == Len(UbloxAck)
  <2>1. l = 7
    BY UbloxAnswersTyped
  <2> HIDE DEF l
  <2>2. l <= 65535
    BY ONLY <2>1
  <2> QED BY <2>2 DEF l
<1> DEFINE c == UbloxSet(name, id)
<1>6. /\ c.name = name /\ c.expected = UbloxAck /\ c.error = UbloxNak /\ c.ask = <<>>
      /\ c.accept = UbloxPacket(5, 1, <<6, id>>)
      /\ c.refuse = {UbloxPacket(5, 0, <<6, id>>)}
  BY DEF UbloxSet, Command
<1> HIDE DEF c
<1>7. CommandOf(type, c)
  BY <1>3, <1>4, <1>5, <1>6 DEF CommandOf
<1> QED BY <1>7 DEF c

(* A request is in order if its answer is clean.                           *)
LEMMA UbloxRequestIs ==
  ASSUME NEW type \in UbloxDrivers, NEW name, NEW cls \in Byte, NEW id \in Byte,
         NEW payload, Clean(type, UbloxPacket(cls, id, payload)),
         name \in {"identifier", "sec_uniqid"} => cls = 39 /\ id = 3
  PROVE  CommandOf(type, UbloxRequest(name, cls, id, payload))
<1> DEFINE h == UbloxHead(cls, id)
<1>1. h \in Seq(Byte) /\ Len(h) = 4
  BY UbloxHeadIs
<1> HIDE DEF h
<1>2. cls = 39 /\ id = 3 => h = Mark(type)
  BY DriversApart DEF Mark, h, UbloxHead
<1>3. UbloxRequest(name, cls, id, payload)
        = Command(name, h, UbloxNak, <<4, 5>>, UbloxPacket(cls, id, payload), {})
  BY DEF UbloxRequest, h, UbloxHead
<1> HIDE DEF h
<1>4. Len(h) <= 65535
  BY ONLY <1>1
<1>5. h \in Seq(Byte)
  BY <1>1
<1> QED BY <1>2, <1>3, <1>4, <1>5, UbloxAnswersTyped DEF CommandOf, Command

(* Each command is in order.                                               *)
LEMMA UbloxCommandsAre ==
  ASSUME NEW type \in UbloxDrivers, NEW c \in UbloxCommands
  PROVE  CommandOf(type, c)
<1>1. CASE c \in UbloxSets
  <2>1. {0, 134, 36, 62, 8, 92, 1} \subseteq 0..150
    OBVIOUS
  <2>2. \A name, id : name \notin {"identifier", "sec_uniqid"} /\ id \in 0..150
          => CommandOf(type, UbloxSet(name, id))
    BY UbloxSetIs
  <2> QED BY <1>1, <2>1, <2>2 DEF UbloxSets
<1>2. CASE c = UbloxRequest("mon_ver", 10, 4, <<0>>)
  <2>1. 10 \in Byte /\ 4 \in Byte
    BY ByteIs
  <2>2. 10 \in Int /\ 0 <= 10 /\ 10 <= 100 /\ 4 \in Int /\ 0 <= 4 /\ 4 <= 100 /\ ~(10 = 39)
    OBVIOUS
  <2>3. Clean(type, UbloxPacket(10, 4, <<0>>))
    BY ONLY <2>2, UbloxClean, UbloxPayloads, type \in UbloxDrivers
  <2>4. "mon_ver" \notin {"identifier", "sec_uniqid"}
    OBVIOUS
  <2> QED BY <1>2, <2>1, <2>3, <2>4, UbloxRequestIs
<1>3. CASE c = UbloxRequest("sec_uniqid", 39, 3, UbloxIdentity)
  <2>1. 39 \in Byte /\ 3 \in Byte
    BY SmallBytes
  <2>2. 39 \in Int /\ 0 <= 39 /\ 39 <= 100 /\ 3 \in Int /\ 0 <= 3 /\ 3 <= 100
    OBVIOUS
  <2>3. Clean(type, UbloxPacket(39, 3, UbloxIdentity))
    BY ONLY <2>2, UbloxClean, UbloxIdentityIs, type \in UbloxDrivers
  <2> QED BY <1>3, <2>1, <2>3, UbloxRequestIs
<1> QED BY <1>1, <1>2, <1>3 DEF UbloxCommands

(* The program has these commands, in this order.                          *)
LEMMA UbloxProgramIs ==
  LET p == UbloxProgram
  IN  /\ p \in Seq(UbloxCommands) /\ Len(p) = 13
      /\ p[1].name = "prt_usb" /\ p[2].name = "prt_uart" /\ p[3].name = "mon_ver"
      /\ p[4].name = "sec_uniqid" /\ p[5].name = "pms" /\ p[6].name = "nav5"
      /\ p[7].name = "gnss" /\ p[8].name = "rate" /\ p[9].name = "hnr"
      /\ p[10].name = "nav_pvt" /\ p[11].name = "nav_att" /\ p[12].name = "esf_ins"
      /\ p[13].name = "esf_raw"
<1> DEFINE C == UbloxCommands
           a1 == UbloxSet("prt_usb", 0)
           a2 == UbloxSet("prt_uart", 0)
           a3 == UbloxRequest("mon_ver", 10, 4, <<0>>)
           a4 == UbloxRequest("sec_uniqid", 39, 3, UbloxIdentity)
           a5 == UbloxSet("pms", 134)
           a6 == UbloxSet("nav5", 36)
           a7 == UbloxSet("gnss", 62)
           a8 == UbloxSet("rate", 8)
           a9 == UbloxSet("hnr", 92)
           a10 == UbloxSet("nav_pvt", 1)
           a11 == UbloxSet("nav_att", 1)
           a12 == UbloxSet("esf_ins", 1)
           a13 == UbloxSet("esf_raw", 1)
           P == <<a1, a2, a3, a4, a5, a6, a7, a8, a9, a10, a11, a12, a13>>
<1>1. /\ a1 \in C /\ a2 \in C /\ a3 \in C /\ a4 \in C /\ a5 \in C /\ a6 \in C /\ a7 \in C
      /\ a8 \in C /\ a9 \in C /\ a10 \in C /\ a11 \in C /\ a12 \in C /\ a13 \in C
  BY DEF UbloxCommands, UbloxSets
<1>2. /\ a1.name = "prt_usb" /\ a2.name = "prt_uart" /\ a3.name = "mon_ver"
      /\ a4.name = "sec_uniqid" /\ a5.name = "pms" /\ a6.name = "nav5"
      /\ a7.name = "gnss" /\ a8.name = "rate" /\ a9.name = "hnr"
      /\ a10.name = "nav_pvt" /\ a11.name = "nav_att" /\ a12.name = "esf_ins"
      /\ a13.name = "esf_raw"
  BY DEF UbloxSet, UbloxRequest, Command
<1>3. UbloxProgram = P
  BY DEF UbloxProgram, UbloxIdentity
<1> HIDE DEF C, a1, a2, a3, a4, a5, a6, a7, a8, a9, a10, a11, a12, a13
<1>4. P \in Seq(C)
  BY <1>1
<1>5. /\ Len(P) = 13 /\ P[1] = a1 /\ P[2] = a2 /\ P[3] = a3 /\ P[4] = a4 /\ P[5] = a5
      /\ P[6] = a6 /\ P[7] = a7 /\ P[8] = a8 /\ P[9] = a9 /\ P[10] = a10 /\ P[11] = a11
      /\ P[12] = a12 /\ P[13] = a13
  OBVIOUS
<1> HIDE DEF P
<1> QED BY <1>2, <1>3, <1>4, <1>5 DEF C

-----------------------------------------------------------------------------
(* The programs.                                                           *)

(* What holds of the commands of every driver, as far as types go.         *)
CommandTyped(c) ==
  /\ c.expected \in Seq(Byte) /\ Len(c.expected) <= 65535
  /\ c.error \in Seq(Byte)
  /\ c.ask \in {<<>>, <<3>>, <<4, 5>>, <<255, 17>>, <<255, 48>>}
  /\ c.accept \in Seq(Byte) /\ \A bytes \in c.refuse : bytes \in Seq(Byte)

(* Whose program it is.                                                    *)
LEMMA ProgramIs ==
  /\ \A type \in XsensDrivers : Program[type] = XsensProgram(type)
  /\ \A type \in UbloxDrivers : Program[type] = UbloxProgram
  /\ Program["runwell"] = RunwellProgram
<1> DEFINE p(type) == CASE type \in UbloxDrivers -> UbloxProgram
                        [] type \in XsensDrivers -> XsensProgram(type)
                        [] type = "runwell"      -> RunwellProgram
<1>1. \A type \in AllDrivers : Program[type] = p(type)
  BY DEF Program
<1>2. \A type \in XsensDrivers : p(type) = XsensProgram(type)
  BY DriversApart
<1>3. \A type \in UbloxDrivers : p(type) = UbloxProgram
  BY DriversApart
<1>4. p("runwell") = RunwellProgram
  BY DriversApart
<1> HIDE DEF p
<1> QED BY <1>1, <1>2, <1>3, <1>4 DEF AllDrivers

(* Which drivers have an identification with a mark.                       *)
Marked == XsensDrivers \cup UbloxDrivers

(* Their commands are in order, and each asks for its own identification.  *)
LEMMA MarkedCommands ==
  ASSUME NEW type \in Marked, NEW i \in DOMAIN Program[type]
  PROVE  LET c == Program[type][i]
         IN  /\ CommandOf(type, c) /\ c.name # "request_id"
             /\ c.name = "identifier" => type \in XsensDrivers
             /\ c.name = "sec_uniqid" => type \in UbloxDrivers
<1>1. CASE type \in XsensDrivers
  <2>1. Program[type] = XsensProgram(type) /\ XsensProgram(type) \in Seq(XsensCommands(type))
    BY <1>1, ProgramIs, XsensProgramIs
  <2>2. Program[type][i] \in XsensCommands(type)
    BY <2>1
  <2>3. \A c \in XsensCommands(type) : c.name # "request_id" /\ c.name # "sec_uniqid"
    BY DEF XsensCommands, do_command, do_request, do_set, do_check, Command
  <2>4. CommandOf(type, Program[type][i])
    BY <1>1, <2>2, XsensCommandsAre
  <2> QED BY <1>1, <2>2, <2>3, <2>4
<1>2. CASE type \in UbloxDrivers
  <2>1. Program[type] = UbloxProgram /\ UbloxProgram \in Seq(UbloxCommands)
    BY <1>2, ProgramIs, UbloxProgramIs
  <2>2. Program[type][i] \in UbloxCommands
    BY <2>1
  <2>3. \A c \in UbloxCommands : c.name # "request_id" /\ c.name # "identifier"
    BY DEF UbloxCommands, UbloxSets, UbloxSet, UbloxRequest, Command
  <2>4. CommandOf(type, Program[type][i])
    BY <1>2, <2>2, UbloxCommandsAre
  <2> QED BY <1>2, <2>2, <2>3, <2>4
<1> QED BY <1>1, <1>2 DEF Marked

(* The program of a Runwell, whose answers are all the same byte.          *)
LEMMA RunwellProgramIs ==
  LET p == Program["runwell"]
  IN  /\ p \in Seq({p[1], p[2]}) /\ Len(p) = 2
      /\ p[1].name = "request_id" /\ p[2].name = "request_version"
      /\ p[1].expected = <<>> /\ p[2].expected = <<>>
      /\ p[1].error = <<88, 88, 88>> /\ p[2].error = <<88, 88, 88>>
      /\ p[1].ask = <<255, 17>> /\ p[2].ask = <<255, 48>>
      /\ p[1].accept = [i \in 1..17 |-> 48] /\ p[2].accept = [i \in 1..48 |-> 48]
      /\ p[1].refuse = {} /\ p[2].refuse = {}
<1> DEFINE a1 == RunwellRequest("request_id", 17)
           a2 == RunwellRequest("request_version", 48)
           P == <<a1, a2>>
<1>1. Program["runwell"] = P
  BY ProgramIs DEF RunwellProgram
<1>2. Base - 1 = 255
  BY RealBytes
<1>3. /\ a1.name = "request_id" /\ a2.name = "request_version"
      /\ a1.expected = <<>> /\ a2.expected = <<>>
      /\ a1.error = <<88, 88, 88>> /\ a2.error = <<88, 88, 88>>
      /\ a1.ask = <<255, 17>> /\ a2.ask = <<255, 48>>
      /\ a1.accept = [i \in 1..17 |-> 48] /\ a2.accept = [i \in 1..48 |-> 48]
      /\ a1.refuse = {} /\ a2.refuse = {}
  BY <1>2 DEF RunwellRequest, Command
<1> HIDE DEF a1, a2
<1>4. P \in Seq({P[1], P[2]}) /\ Len(P) = 2 /\ P[1] = a1 /\ P[2] = a2
  OBVIOUS
<1> HIDE DEF P
<1> QED BY <1>1, <1>3, <1>4

(* Each command of each driver is typed.                                   *)
LEMMA CommandsTyped ==
  ASSUME NEW type \in AllDrivers, NEW i \in DOMAIN Program[type]
  PROVE  CommandTyped(Program[type][i])
<1>1. CASE type \in Marked
  <2>1. CommandOf(type, Program[type][i])
    BY <1>1, MarkedCommands
  <2> QED BY <2>1 DEF CommandOf, CommandTyped, Clean
<1>2. CASE type = "runwell"
  <2> DEFINE p == Program["runwell"]
  <2>1. p \in Seq({p[1], p[2]}) /\ Len(p) = 2
    BY RunwellProgramIs
  <2>2. p[i] = p[1] \/ p[i] = p[2]
    BY <1>2, <2>1
  <2>3. \A c \in {p[1], p[2]} :
          /\ c.expected = <<>> /\ c.error = <<88, 88, 88>> /\ c.refuse = {}
          /\ c.ask \in {<<255, 17>>, <<255, 48>>}
          /\ c.accept = [j \in 1..17 |-> 48] \/ c.accept = [j \in 1..48 |-> 48]
    <3>1. /\ p[1].expected = <<>> /\ p[2].expected = <<>>
          /\ p[1].error = <<88, 88, 88>> /\ p[2].error = <<88, 88, 88>>
          /\ p[1].refuse = {} /\ p[2].refuse = {}
          /\ p[1].ask = <<255, 17>> /\ p[2].ask = <<255, 48>>
          /\ p[1].accept = [j \in 1..17 |-> 48] /\ p[2].accept = [j \in 1..48 |-> 48]
      BY RunwellProgramIs
    <3> HIDE DEF p
    <3> SUFFICES ASSUME NEW c \in {p[1], p[2]}
                 PROVE  /\ c.expected = <<>> /\ c.error = <<88, 88, 88>> /\ c.refuse = {}
                        /\ c.ask \in {<<255, 17>>, <<255, 48>>}
                        /\ c.accept = [j \in 1..17 |-> 48] \/ c.accept = [j \in 1..48 |-> 48]
      OBVIOUS
    <3>2. CASE c = p[1]
      BY ONLY <3>1, <3>2, Zenon
    <3>3. CASE c = p[2]
      BY ONLY <3>1, <3>3, Zenon
    <3> QED BY <3>2, <3>3
  <2> HIDE DEF p
  <2>4. 48 \in Byte /\ 88 \in Byte
    BY ByteIs
  <2>5. /\ <<88, 88, 88>> \in Seq(Byte) /\ [j \in 1..17 |-> 48] \in Seq(Byte)
        /\ [j \in 1..48 |-> 48] \in Seq(Byte)
    BY <2>4
  <2>6. <<>> \in Seq(Byte) /\ Len(<<>>) <= 65535
    OBVIOUS
  <2> DEFINE c == p[i]
  <2>7. /\ c.expected = <<>> /\ c.error = <<88, 88, 88>> /\ c.refuse = {}
        /\ c.ask \in {<<255, 17>>, <<255, 48>>}
        /\ c.accept = [j \in 1..17 |-> 48] \/ c.accept = [j \in 1..48 |-> 48]
    <3>1. c \in {p[1], p[2]}
      BY <2>2
    <3> HIDE DEF c
    <3> QED BY ONLY <2>3, <3>1, Zenon
  <2> HIDE DEF c
  <2>8. c.expected \in Seq(Byte) /\ Len(c.expected) <= 65535
    BY ONLY <2>6, <2>7
  <2>9. c.error \in Seq(Byte) /\ c.accept \in Seq(Byte) /\ c.refuse = {}
    BY ONLY <2>5, <2>7
  <2>10. c.ask \in {<<>>, <<3>>, <<4, 5>>, <<255, 17>>, <<255, 48>>}
    BY ONLY <2>7
  <2>11. CommandTyped(c)
    BY ONLY <2>8, <2>9, <2>10 DEF CommandTyped
  <2> QED BY <1>2, <2>11 DEF p, c
<1> QED BY <1>1, <1>2 DEF AllDrivers, Marked

(* A program is a sequence that is not empty.                              *)
LEMMA ProgramLength ==
  ASSUME NEW type \in AllDrivers
  PROVE  /\ Len(Program[type]) \in Nat /\ Len(Program[type]) > 1
         /\ DOMAIN Program[type] = 1..Len(Program[type])
<1>1. CASE type \in XsensDrivers
  <2> DEFINE p == XsensProgram(type)
             n == 6 + Len(set_filter_profile)
  <2>1. Program[type] = p /\ p \in Seq(XsensCommands(type)) /\ Len(p) = n + 5 /\ n \in {6, 7}
    BY <1>1, ProgramIs, XsensProgramIs
  <2> HIDE DEF p, n
  <2>2. DOMAIN p = 1..Len(p) /\ Len(p) \in Nat
    BY <2>1
  <2>3. Len(p) > 1
    BY <2>1
  <2> QED BY <2>1, <2>2, <2>3
<1>2. CASE type \in UbloxDrivers
  <2>1. Program[type] = UbloxProgram /\ UbloxProgram \in Seq(UbloxCommands)
    BY <1>2, ProgramIs, UbloxProgramIs
  <2>2. Len(UbloxProgram) = 13
    BY UbloxProgramIs
  <2>3. Len(UbloxProgram) > 1
    BY ONLY <2>2
  <2> QED BY <2>1, <2>3
<1>3. CASE type = "runwell"
  <2> DEFINE p == Program["runwell"]
             S == {p[1], p[2]}
  <2>1. p \in Seq(S) /\ Len(p) = 2
    BY RunwellProgramIs
  <2> HIDE DEF S, p
  <2>2. DOMAIN p = 1..Len(p) /\ Len(p) \in Nat
    BY <2>1
  <2>3. Len(p) > 1
    BY <2>1
  <2>4. Program[type] = p
    BY <1>3 DEF p
  <2> QED BY <2>2, <2>3, <2>4
<1> QED BY <1>1, <1>2, <1>3 DEF AllDrivers

-----------------------------------------------------------------------------
(* What initialize() does next.                                            *)

(* A command begins, or the initialisation has ended.                      *)
Moved(rest) ==
  /\ phase' \in {"closed", "initialised", "command"}
  /\ timed' = FALSE \/ timed' = timed
  /\ at' \in DOMAIN Program[driver]
  /\ response' = <<>> /\ response_found' = -1
  /\ IF phase' = "command"
     THEN /\ wire' = rest /\ asked' = Program[driver][at'].ask
          /\ expected_len' = Len(Program[driver][at'].expected)
     ELSE wire' = <<>> /\ asked' = <<>> /\ expected_len' = 0
  /\ pending' = pending \/ pending' = Append(pending, at')
  /\ waits' \in {0, 1, waits}

(* Whatever it begins with.                                                *)
LEMMA BeginMoves ==
  ASSUME NEW i \in DOMAIN Program[driver], NEW rest, Begin(i), wire' = rest
  PROVE  Moved(rest) /\ phase' = "command" /\ timed' = FALSE /\ at' = i
  BY DEF Begin, Moved

(* However it ends.                                                        *)
LEMMA EndMoves ==
  ASSUME NEW rest, driver \in AllDrivers, Fail(rest) \/ Succeed(rest)
  PROVE  Moved(rest) /\ phase' \in {"closed", "initialised"}
<1>1. 1 \in DOMAIN Program[driver]
  BY ProgramLength
<1> QED BY <1>1 DEF Fail, Succeed, Ended, SetRequest, Moved

(* A command that a program names is in it.                                *)
LEMMA XsensIndices ==
  ASSUME NEW type \in XsensDrivers,
         NEW name \in {"goto_measurement", "set_output", "reset"}
  PROVE  /\ IndexOf(type, name) \in DOMAIN Program[type]
         /\ Program[type][IndexOf(type, name)].name = name
<1> DEFINE p == XsensProgram(type)
           n == 6 + Len(set_filter_profile)
<1>1. /\ p \in Seq(XsensCommands(type)) /\ Len(p) = n + 5 /\ n \in {6, 7}
      /\ p[n + 4].name = "goto_measurement"
      /\ p[n + 2].name = "set_output" /\ p[n + 5].name = "reset"
  BY XsensProgramIs
<1>2. Program[type] = p
  BY ProgramIs
<1> HIDE DEF p, n
<1>3. {n + 2, n + 4, n + 5} \subseteq DOMAIN p
  BY <1>1
<1>4. \E i \in DOMAIN p : p[i].name = name
  BY <1>1, <1>3
<1> QED BY <1>2, <1>4 DEF IndexOf

(* Only the last command of a program has its name.                        *)
LEMMA NotLast ==
  /\ \A type \in XsensDrivers : \A i \in DOMAIN Program[type] :
       Program[type][i].name # "reset" => i + 1 \in DOMAIN Program[type]
  /\ \A type \in UbloxDrivers : \A i \in DOMAIN Program[type] :
       Program[type][i].name # "esf_raw" => i + 1 \in DOMAIN Program[type]
<1>1. ASSUME NEW type \in XsensDrivers, NEW i \in DOMAIN Program[type],
             Program[type][i].name # "reset"
      PROVE  i + 1 \in DOMAIN Program[type]
  <2> DEFINE p == XsensProgram(type)
             n == 6 + Len(set_filter_profile)
  <2>1. /\ p \in Seq(XsensCommands(type)) /\ Len(p) = n + 5 /\ n \in {6, 7}
        /\ p[n + 5].name = "reset"
    BY XsensProgramIs
  <2>2. Program[type] = p
    BY ProgramIs
  <2> HIDE DEF p, n
  <2> QED BY <1>1, <2>1, <2>2
<1>2. ASSUME NEW type \in UbloxDrivers, NEW i \in DOMAIN Program[type],
             Program[type][i].name # "esf_raw"
      PROVE  i + 1 \in DOMAIN Program[type]
  <2> DEFINE p == UbloxProgram
  <2>1. /\ p \in Seq(UbloxCommands) /\ Len(p) = 13 /\ p[13].name = "esf_raw"
    BY UbloxProgramIs
  <2>2. Program[type] = p
    BY ProgramIs
  <2> HIDE DEF p
  <2> QED BY <1>2, <2>1, <2>2
<1> QED BY <1>1, <1>2

(* An Ublox that fails at its last command fails.                          *)
LEMMA UbloxGoesOnMoves ==
  ASSUME driver \in UbloxDrivers, at \in DOMAIN Program[driver],
         NEW ok \in BOOLEAN, NEW rest, UbloxGoesOn(ok, rest)
  PROVE  Moved(rest)
<1> USE DEF Current
<1>0. driver \in AllDrivers
  BY DEF AllDrivers
<1>1. Fail(rest) \/ Succeed(rest) \/ (Begin(at + 1) /\ wire' = rest)
  BY DEF UbloxGoesOn
<1>2. CASE Fail(rest) \/ Succeed(rest)
  BY <1>0, <1>2, EndMoves
<1>3. CASE ~(Fail(rest) \/ Succeed(rest))
  <2>1. Begin(at + 1) /\ wire' = rest
    BY <1>1, <1>3
  <2>2. Current.name # "esf_raw"
    BY <1>3 DEF UbloxGoesOn
  <2>3. at + 1 \in DOMAIN Program[driver]
    BY <2>2, NotLast
  <2> QED BY <2>1, <2>3, BeginMoves
<1> QED BY <1>2, <1>3

(* An Xsens goes on, back, or to the end.                                  *)
LEMMA XsensGoesOnCases ==
  ASSUME NEW ok \in BOOLEAN, NEW rest, XsensGoesOn(ok, rest)
  PROVE  \/ Current.name = "reset" /\ Fail(rest)
         \/ Current.name = "goto_measurement" /\ ok /\ Succeed(rest)
         \/ Current.name = "check_output" /\ ok /\ GoTo("goto_measurement", rest)
         \/ Current.name = "check_output" /\ ~ok /\ GoTo("set_output", rest)
         \/ /\ Current.name \notin {"check_output", "reset"} /\ ~ok
            /\ GoTo("reset", rest)
         \/ /\ Current.name \notin {"check_output", "reset", "goto_measurement"} /\ ok
            /\ Begin(at + 1) /\ wire' = rest
<1> DEFINE name == Current.name
           A == Fail(rest)
           B == Succeed(rest)
           C == GoTo(IF ok THEN "goto_measurement" ELSE "set_output", rest)
           D == GoTo("reset", rest)
           E == Begin(at + 1) /\ wire' = rest
<1>1. (CASE name = "reset" -> A
         [] name = "goto_measurement" /\ ok -> B
         [] name = "check_output" -> C
         [] name \notin {"check_output", "reset"} /\ ~ok -> D
         [] OTHER -> E)
  BY DEF XsensGoesOn
<1>2. (ok => C = GoTo("goto_measurement", rest)) /\ (~ok => C = GoTo("set_output", rest))
  OBVIOUS
<1> HIDE DEF A, B, C, D, E, name
<1>3. \/ name = "reset" /\ A
      \/ name = "goto_measurement" /\ ok /\ B
      \/ name = "check_output" /\ C
      \/ name \notin {"check_output", "reset"} /\ ~ok /\ D
      \/ name \notin {"check_output", "reset", "goto_measurement"} /\ ok /\ E
  <2>1. CASE name = "reset"
    BY <1>1, <2>1
  <2>2. CASE name = "goto_measurement" /\ ok
    BY <1>1, <2>2
  <2>3. CASE name = "check_output"
    BY <1>1, <2>3
  <2>4. CASE name \notin {"check_output", "reset"} /\ ~ok
    BY <1>1, <2>4
  <2>5. CASE name \notin {"check_output", "reset", "goto_measurement"} /\ ok
    BY <1>1, <2>5
  <2> QED BY <2>1, <2>2, <2>3, <2>4, <2>5
<1> QED BY <1>2, <1>3 DEF name, A, B, D, E

(* In each case it moves.                                                  *)
LEMMA XsensGoesOnMoves ==
  ASSUME driver \in XsensDrivers, at \in DOMAIN Program[driver],
         NEW ok \in BOOLEAN, NEW rest, XsensGoesOn(ok, rest)
  PROVE  Moved(rest)
<1>0. driver \in AllDrivers
  BY DEF AllDrivers
<1>1. CASE Fail(rest) \/ Succeed(rest)
  BY <1>0, <1>1, EndMoves
<1>2. ASSUME NEW name \in {"goto_measurement", "set_output", "reset"}, GoTo(name, rest)
      PROVE  Moved(rest)
  <2>1. IndexOf(driver, name) \in DOMAIN Program[driver]
    BY XsensIndices
  <2> QED BY <1>2, <2>1, BeginMoves DEF GoTo
<1>3. CASE /\ Current.name # "reset" /\ Begin(at + 1) /\ wire' = rest
  <2>1. at + 1 \in DOMAIN Program[driver]
    BY <1>3, NotLast DEF Current
  <2> QED BY <1>3, <2>1, BeginMoves
<1> QED BY <1>1, <1>2, <1>3, XsensGoesOnCases

(* A Runwell has two commands.                                             *)
LEMMA RunwellGoesOnMoves ==
  ASSUME driver = "runwell", at \in DOMAIN Program[driver],
         NEW ok \in BOOLEAN, NEW rest, RunwellGoesOn(ok, rest)
  PROVE  Moved(rest)
<1>0. driver \in AllDrivers
  BY DEF AllDrivers
<1>1. CASE Fail(rest) \/ Succeed(rest)
  BY <1>0, <1>1, EndMoves
<1>2. CASE at # Len(Program[driver]) /\ Begin(at + 1) /\ wire' = rest
  <2>1. at + 1 \in DOMAIN Program[driver]
    BY <1>0, <1>2, ProgramLength
  <2> QED BY <1>2, <2>1, BeginMoves
<1> QED BY <1>1, <1>2 DEF RunwellGoesOn

(* So every driver moves.                                                  *)
LEMMA GoesOnIs ==
  ASSUME NEW ok \in BOOLEAN, NEW rest, GoesOn(ok, rest)
  PROVE  /\ driver \in UbloxDrivers => UbloxGoesOn(ok, rest)
         /\ driver \in XsensDrivers => XsensGoesOn(ok, rest)
         /\ driver = "runwell" => RunwellGoesOn(ok, rest)
<1> DEFINE U == UbloxGoesOn(ok, rest)
           X == XsensGoesOn(ok, rest)
           R == RunwellGoesOn(ok, rest)
<1>1. (CASE driver \in UbloxDrivers -> U
         [] driver \in XsensDrivers -> X
         [] driver = "runwell"      -> R)
  BY DEF GoesOn
<1> HIDE DEF U, X, R
<1>2. CASE driver \in UbloxDrivers
  BY <1>1, <1>2, DriversApart DEF U
<1>3. CASE driver \in XsensDrivers
  BY <1>1, <1>3, DriversApart DEF X
<1>4. CASE driver = "runwell"
  BY <1>1, <1>4, DriversApart DEF R
<1> QED BY <1>2, <1>3, <1>4

(* Whichever it is.                                                        *)
LEMMA GoesOnMoves ==
  ASSUME driver \in AllDrivers, at \in DOMAIN Program[driver],
         NEW ok \in BOOLEAN, NEW rest, GoesOn(ok, rest)
  PROVE  Moved(rest)
  BY GoesOnIs, UbloxGoesOnMoves, XsensGoesOnMoves, RunwellGoesOnMoves DEF AllDrivers

(* What marks an identification, and the identification, as bytes.         *)
LEMMA MarksTyped ==
  ASSUME NEW type \in Marked
  PROVE  /\ Mark(type) \in Seq(Byte) /\ Len(Mark(type)) > 0
         /\ Identification(type) \in Seq(Byte)
<1>1. CASE type \in XsensDrivers
  <2>1. 1 \in Byte
    BY SmallBytes
  <2> DEFINE h == XsensHead(1)
  <2>2. h \in Seq(Byte) /\ Len(h) = 3
    BY <2>1, XsensHeadIs
  <2>3. Mark(type) = h
    BY <1>1 DEF Mark
  <2>4. Identification(type) \in Seq(Byte)
    <3>1. Clean(type, XsensPacket(1, XsensSerial))
      BY <1>1, XsensIdentificationClean
    <3> DEFINE q == XsensPacket(1, XsensSerial)
    <3>2. Identification(type) = q
      BY <1>1 DEF Identification
    <3> HIDE DEF q
    <3>3. q \in Seq(Byte)
      BY ONLY <3>1 DEF Clean, q
    <3> QED BY ONLY <3>2, <3>3
  <2> HIDE DEF h
  <2>5. h \in Seq(Byte) /\ Len(h) > 0
    BY ONLY <2>2
  <2>6. Mark(type) \in Seq(Byte) /\ Len(Mark(type)) > 0
    BY ONLY <2>3, <2>5
  <2> QED BY <2>4, <2>6
<1>2. CASE type \in UbloxDrivers
  <2>1. 39 \in Byte /\ 3 \in Byte
    BY SmallBytes
  <2> DEFINE h == UbloxHead(39, 3)
  <2>2. h \in Seq(Byte) /\ Len(h) = 4
    BY <2>1, UbloxHeadIs
  <2>3. Mark(type) = h
    BY <1>2, DriversApart DEF Mark, UbloxHead
  <2>4. Identification(type) \in Seq(Byte)
    <3>1. UbloxPayload(UbloxIdentity)
      BY UbloxIdentityIs
    <3>2. Clean(type, UbloxPacket(39, 3, UbloxIdentity))
      BY <1>2, <3>1, UbloxClean
    <3>3. Identification(type) = UbloxPacket(39, 3, UbloxIdentity)
      BY <1>2, DriversApart DEF Identification, UbloxIdentity
    <3> QED BY <3>2, <3>3 DEF Clean
  <2> HIDE DEF h
  <2>5. h \in Seq(Byte) /\ Len(h) > 0
    BY ONLY <2>2
  <2>6. Mark(type) \in Seq(Byte) /\ Len(Mark(type)) > 0
    BY ONLY <2>3, <2>5
  <2> QED BY <2>4, <2>6
<1> QED BY <1>1, <1>2 DEF Marked

-----------------------------------------------------------------------------
(* The inductive invariant.                                                *)

(* What is asked for is what the command asks for, or no longer anything.  *)
AskedIsAsk == asked \in {<<>>, Current.ask}

RequestsBounded == requests + due <= MaxRequests

IdleIsEmpty ==
  /\ phase \in {"closed", "initialised"} => wire = <<>>
  /\ phase # "command" => response = <<>>

(* Wherever an identification begins in what has been read and what is     *)
(* still to be read, it is whole.                                          *)
StreamGenuine ==
  driver \in Marked => Genuine(response \o wire, Mark(driver), Identification(driver))

RunwellAsks ==
  driver = "runwell" =>
    /\ phase \in {"closed", "command", "initialised"}
    /\ phase = "command" /\ at = 1 =>
         asked = <<255, 17>> \/ (asked = <<>> /\ expected_len = 17)

(* Unless a request for data has got in between, a Runwell only answers    *)
(* its commands.                                                           *)
AllSame(bytes) == \A j \in 1..Len(bytes) : bytes[j] = 48

RunwellStream ==
  driver = "runwell" /\ phase = "command" /\ ~strayed =>
    AllSame(response \o wire) /\ ~Contains(pending, Aside)

FoundSoFar ==
  phase = "command" =>
    response_found = IF response = <<>> THEN -1 ELSE contains_at(response, Current.expected)

(* All of it but the identification, which no part of it depends on.       *)
StreamInv ==
  /\ TypeOK /\ AskedIsAsk /\ RequestsBounded /\ IdleIsEmpty
  /\ StreamGenuine /\ RunwellAsks /\ RunwellStream /\ FoundSoFar

(* The counters of requests, as numbers.                                   *)
LEMMA RequestsTyped ==
  ASSUME StreamInv
  PROVE  /\ requests \in Nat /\ due \in Nat /\ MaxRequests \in Nat
         /\ requests + due <= MaxRequests
<1>1. requests \in 0..MaxRequests /\ due \in Nat /\ RequestsBounded
  BY Zenon DEF StreamInv, TypeOK
<1>2. MaxRequests \in Nat
  BY InitialisationAssumption
<1> QED BY ONLY <1>1, <1>2 DEF RequestsBounded

(* The length expected of an answer fits its sixteen bits.                 *)
LEMMA ExpectedTyped ==
  ASSUME StreamInv
  PROVE  expected_len \in Int /\ 0 <= expected_len /\ expected_len <= 65535
<1>1. expected_len \in 0..(Base * Base - 1)
  BY Zenon DEF StreamInv, TypeOK
<1>2. Base = 256
  BY RealBytes
<1>3. Base * Base - 1 = 65535
  BY ONLY <1>2
<1> QED BY ONLY <1>1, <1>3

(* Appending in another order.                                             *)
LEMMA Associative ==
  ASSUME NEW a \in Seq(Byte), NEW b \in Seq(Byte), NEW c \in Seq(Byte)
  PROVE  a \o (b \o c) = (a \o b) \o c
<1> DEFINE x == a \o (b \o c)
           y == (a \o b) \o c
<1>1. a \o b \in Seq(Byte) /\ b \o c \in Seq(Byte)
  OBVIOUS
<1>2. x \in Seq(Byte) /\ y \in Seq(Byte)
  BY <1>1
<1>3. Len(x) = Len(a) + Len(b) + Len(c) /\ Len(y) = Len(x)
  BY <1>1
<1>4. \A i \in 1..Len(x) : x[i] = y[i]
  BY <1>1, <1>3
<1> HIDE DEF x, y
<1>5. x = y
  BY <1>2, <1>3, <1>4, SeqEqual
<1> QED BY <1>5 DEF x, y

(* What is taken from the front goes to the end.                           *)
LEMMA Regrouped ==
  ASSUME NEW a \in Seq(Byte), NEW b \in Seq(Byte), NEW n \in 1..Len(b)
  PROVE  /\ SubSeq(b, 1, n) \in Seq(Byte) /\ SubSeq(b, n + 1, Len(b)) \in Seq(Byte)
         /\ Len(SubSeq(b, 1, n)) = n
         /\ a \o b = (a \o SubSeq(b, 1, n)) \o SubSeq(b, n + 1, Len(b))
<1> DEFINE x == SubSeq(b, 1, n)
           y == SubSeq(b, n + 1, Len(b))
<1>1. x \in Seq(Byte) /\ Len(x) = n
  OBVIOUS
<1>2. y \in Seq(Byte)
  OBVIOUS
<1>3. 1 \in 1..(Len(b) + 1) /\ n \in (1 - 1)..Len(b) /\ Len(b) \in n..Len(b)
  OBVIOUS
<1>4. x \o y = SubSeq(b, 1, Len(b))
  BY <1>3, ConcatAdjacentSubSeq
<1>5. SubSeq(b, 1, Len(b)) = b
  BY SubSeqFull
<1>a. x \in Seq(Byte)
  BY <1>1
<1> HIDE DEF x, y
<1>6. (a \o x) \o y = a \o (x \o y)
  BY <1>a, <1>2, Associative
<1> QED BY <1>1, <1>2, <1>4, <1>5, <1>6 DEF x, y

(* Some bytes.                                                             *)
LEMMA OfferedBytes ==
  /\ 3 \in Byte /\ 4 \in Byte /\ 5 \in Byte
  /\ 17 \in Byte /\ 48 \in Byte /\ 255 \in Byte
  BY ByteIs

(* A step of initialize() from one command to the next keeps the           *)
(* invariant, if what is left unread does.                                 *)
LEMMA MovedKeeps ==
  ASSUME StreamInv, NEW rest \in Seq(Byte), Moved(rest), ~timed',
         driver' = driver, id_' \in Seq(Byte), attempts' \in 0..MaxAttempts,
         unsolicited' \in 0..MaxUnsolicited, due' = due, requests' = requests,
         strayed' \in BOOLEAN,
         driver \in Marked => Genuine(rest, Mark(driver), Identification(driver)),
         driver = "runwell" /\ ~strayed' => AllSame(rest) /\ ~Contains(pending, Aside)
  PROVE  StreamInv'
<1> USE DEF StreamInv
<1>1. driver \in AllDrivers
  BY InitialisationAssumption DEF TypeOK
<1>2. /\ Len(Program[driver]) \in Nat
      /\ DOMAIN Program[driver] = 1..Len(Program[driver])
  BY <1>1, ProgramLength
<1>3. at' \in DOMAIN Program[driver]
  BY DEF Moved
<1>4. CommandTyped(Program[driver][at'])
  BY <1>1, <1>3, CommandsTyped
<1>5. Base * Base - 1 = 65535
  <2>1. Base = 256
    BY RealBytes
  <2>2. 256 * 256 - 1 = 65535
    OBVIOUS
  <2> QED BY <2>1, <2>2
<1>6. TypeOK'
  <2>1. asked' \in Seq(Byte)
    <3>1. /\ 3 \in Byte /\ 4 \in Byte /\ 5 \in Byte
          /\ 17 \in Byte /\ 48 \in Byte /\ 255 \in Byte
      BY OfferedBytes
    <3>2. /\ <<>> \in Seq(Byte) /\ <<3>> \in Seq(Byte) /\ <<4, 5>> \in Seq(Byte)
          /\ <<255, 17>> \in Seq(Byte) /\ <<255, 48>> \in Seq(Byte)
      BY <3>1
    <3>3. asked' = Program[driver][at'].ask \/ asked' = <<>>
      BY DEF Moved
    <3>4. Program[driver][at'].ask \in {<<>>, <<3>>, <<4, 5>>, <<255, 17>>, <<255, 48>>}
      <4> DEFINE c == Program[driver][at']
      <4> HIDE DEF c
      <4>1. CommandTyped(c)
        BY <1>4 DEF c
      <4>2. c.ask \in {<<>>, <<3>>, <<4, 5>>, <<255, 17>>, <<255, 48>>}
        BY ONLY <4>1 DEF CommandTyped
      <4> QED BY <4>2 DEF c
    <3>5. Program[driver][at'].ask \in Seq(Byte)
      BY ONLY <3>2, <3>4, ZenonT(40)
    <3> QED BY <3>2, <3>3, <3>5
  <2>2. response' \in Seq(Byte) /\ wire' \in Seq(Byte)
    <3>1. response' = <<>> /\ (wire' = rest \/ wire' = <<>>)
      BY DEF Moved
    <3>2. <<>> \in Seq(Byte)
      OBVIOUS
    <3> QED BY <3>1, <3>2
  <2>3. response_found' \in -1..Len(response')
    BY DEF Moved
  <2>4. expected_len' \in 0..(Base * Base - 1)
    <3>1. CASE phase' # "command"
      BY <1>5, <3>1 DEF Moved
    <3>2. CASE phase' = "command"
      <4> DEFINE e == Program[driver][at'].expected
      <4>1. e \in Seq(Byte) /\ Len(e) <= 65535
        BY <1>4 DEF CommandTyped
      <4>2. expected_len' = Len(e)
        BY <3>2 DEF Moved
      <4> HIDE DEF e
      <4> QED BY <1>5, <4>1, <4>2
    <3> QED BY <3>1, <3>2
  <2>5. pending' \in Seq(DOMAIN Program[driver] \cup {Aside})
    <3> DEFINE S == DOMAIN Program[driver] \cup {Aside}
    <3>1. pending \in Seq(S) /\ at' \in S
      BY <1>3 DEF TypeOK
    <3> HIDE DEF S
    <3>2. Append(pending, at') \in Seq(S)
      BY <3>1
    <3>3. pending' = pending \/ pending' = Append(pending, at')
      BY DEF Moved
    <3> QED BY <3>1, <3>2, <3>3 DEF S
  <2>6. waits' \in 0..1 /\ due' \in Nat /\ requests' \in 0..MaxRequests
    BY DEF Moved, TypeOK
  <2>7. phase' \in {"closed", "wakeup", "configuration", "command", "initialised"}
    BY DEF Moved
  <2>8. ~(response_found' >= 0)
    BY DEF Moved
  <2>9. driver' \in Drivers
    BY DEF TypeOK
  <2> QED BY <1>3, <2>1, <2>2, <2>3, <2>4, <2>5, <2>6, <2>7, <2>8, <2>9 DEF TypeOK
<1>7. AskedIsAsk'
  BY DEF Moved, AskedIsAsk, Current
<1>8. RequestsBounded'
  BY DEF RequestsBounded
<1>9. IdleIsEmpty'
  BY DEF Moved, IdleIsEmpty
<1>10. response' \o wire' = wire' /\ (wire' = rest \/ wire' = <<>>)
  <2>1. response' = <<>> /\ (wire' = rest \/ wire' = <<>>)
    BY DEF Moved
  <2>2. wire' \in Seq(Byte)
    <3>1. <<>> \in Seq(Byte)
      OBVIOUS
    <3> QED BY <2>1, <3>1
  <2>3. <<>> \o wire' = wire'
    BY <2>2, ConcatEmptySeq
  <2> QED BY <2>1, <2>3
<1>11. StreamGenuine'
  <2> SUFFICES ASSUME driver \in Marked
               PROVE  Genuine(wire', Mark(driver), Identification(driver))
    BY <1>10 DEF StreamGenuine
  <2>1. Mark(driver) \in Seq(Byte) /\ Len(Mark(driver)) > 0
    <3>1. CASE driver \in XsensDrivers
      <4>1. 1 \in Byte
        BY SmallBytes
      <4>2. XsensHead(1) \in Seq(Byte) /\ Len(XsensHead(1)) = 3
        BY <4>1, XsensHeadIs
      <4> DEFINE h == XsensHead(1)
      <4>3. Mark(driver) = h /\ h \in Seq(Byte) /\ Len(h) = 3
        BY <3>1, <4>2 DEF Mark
      <4> HIDE DEF h
      <4> QED BY <4>3
    <3>2. CASE driver \in UbloxDrivers
      <4>1. 39 \in Byte /\ 3 \in Byte
        BY SmallBytes
      <4> DEFINE h == UbloxHead(39, 3)
      <4>2. h \in Seq(Byte) /\ Len(h) = 4
        BY <4>1, UbloxHeadIs
      <4>3. Mark(driver) = h
        BY <3>2, DriversApart DEF Mark, UbloxHead
      <4>4. Mark(driver) = h /\ h \in Seq(Byte) /\ Len(h) = 4
        BY <4>2, <4>3
      <4> HIDE DEF h
      <4> QED BY ONLY <4>4
    <3> QED BY <3>1, <3>2 DEF Marked
  <2>2. CASE wire' = rest
    BY <2>2
  <2>3. CASE wire' = <<>>
    <3>1. \A i \in 0..Len(<<>>) : ~(i + Len(Mark(driver)) <= Len(<<>>))
      BY <2>1
    <3> QED BY <2>3, <3>1 DEF Genuine, Occurs
  <2> QED BY <1>10, <2>2, <2>3
<1>12. RunwellAsks'
  <2> SUFFICES ASSUME driver = "runwell"
               PROVE  /\ phase' \in {"closed", "command", "initialised"}
                      /\ phase' = "command" /\ at' = 1 => asked' = <<255, 17>>
    BY DEF RunwellAsks
  <2>1. Program["runwell"][1].ask = <<255, 17>>
    BY RunwellProgramIs
  <2> QED BY <2>1 DEF Moved
<1>13. RunwellStream'
  <2> SUFFICES ASSUME driver = "runwell", phase' = "command", ~strayed'
               PROVE  AllSame(wire') /\ ~Contains(pending', Aside)
    BY <1>10 DEF RunwellStream
  <2>1. wire' = rest
    BY DEF Moved
  <2>2. ~Contains(pending, Aside)
    OBVIOUS
  <2> DEFINE S == DOMAIN Program[driver] \cup {Aside}
  <2>3. pending \in Seq(S) /\ at' \in S /\ at' # Aside
    BY <1>2, <1>3 DEF TypeOK, Aside
  <2> HIDE DEF S
  <2>4. ~Contains(Append(pending, at'), Aside)
    <3> DEFINE q == Append(pending, at')
    <3>1. /\ Len(q) = Len(pending) + 1 /\ q[Len(pending) + 1] = at'
          /\ \A j \in 1..Len(pending) : q[j] = pending[j]
      BY <2>3
    <3> HIDE DEF q
    <3>2. \A j \in 1..Len(q) : j \in 1..Len(pending) \/ j = Len(pending) + 1
      BY <2>3, <3>1
    <3> QED BY <2>2, <2>3, <3>1, <3>2 DEF Contains, q
  <2> QED BY <2>1, <2>2, <2>4 DEF Moved
<1>14. FoundSoFar'
  BY DEF Moved, FoundSoFar
<1> QED BY <1>6, <1>7, <1>8, <1>9, <1>11, <1>12, <1>13, <1>14

-----------------------------------------------------------------------------
(* What a read makes of the bytes.                                         *)

(* The length that is asked for fits in two bytes.                         *)
NeedIs(ask, need) ==
  /\ need \in Int /\ 0 <= need /\ need <= 65535
  /\ ask = <<255, 17>> => need = 17

(* Whatever is asked for.                                                  *)
LEMMA NeedTyped ==
  ASSUME NEW ask \in {<< 3 >>, <<4, 5>>, <<255, 17>>, <<255, 48>>},
         NEW bytes \in Seq(Byte), NEW found \in Nat
  PROVE  NeedIs(ask, ExpectedLen(ask, bytes, found))
<1> DEFINE need == ExpectedLen(ask, bytes, found)
<1>1. Base = 256 /\ Base - 1 = 255 /\ Base * Base = 65536
  <2>1. Base = 256
    BY RealBytes
  <2>2. 256 * 256 = 65536 /\ 256 - 1 = 255
    OBVIOUS
  <2> QED BY <2>1, <2>2
<1>2. ASSUME NEW offset \in Nat
      PROVE  /\ ByteAt(bytes, offset) \in Int /\ 0 <= ByteAt(bytes, offset)
             /\ ByteAt(bytes, offset) <= 255
  <2>1. CASE offset < Len(bytes)
    <3>1. offset + 1 \in 1..Len(bytes)
      BY <2>1
    <3>2. bytes[offset + 1] \in Byte
      BY <3>1
    <3> QED BY <2>1, <3>2, ByteIs DEF ByteAt
  <2>2. CASE ~(offset < Len(bytes))
    BY <2>2 DEF ByteAt
  <2> QED BY <2>1, <2>2
<1>3. CASE ask = <<3>>
  <2>1. 3 + found \in Nat
    OBVIOUS
  <2>2. Len(ask) = 1 /\ ask[1] = 3 /\ ~Fixed(ask) /\ ask # <<255, 17>>
    BY <1>3 DEF Fixed
  <2>3. ExpectedLen(ask, bytes, found) = ByteAt(bytes, 3 + found)
    BY <2>2 DEF ExpectedLen
  <2> HIDE <1>3
  <2>4. /\ ByteAt(bytes, 3 + found) \in Int /\ 0 <= ByteAt(bytes, 3 + found)
        /\ ByteAt(bytes, 3 + found) <= 255
    BY <1>2, <2>1
  <2> DEFINE x == ByteAt(bytes, 3 + found)
  <2>5. x \in Int /\ 0 <= x /\ x <= 255
    BY <2>4
  <2>6. need = x
    BY <2>3
  <2> HIDE DEF x, need
  <2>7. need \in Int /\ 0 <= need /\ need <= 65535
    BY ONLY <2>5, <2>6
  <2> QED BY ONLY <2>2, <2>7 DEF need, NeedIs
<1>4. CASE ask = <<4, 5>>
  <2>1. 4 + found \in Nat /\ 5 + found \in Nat
    OBVIOUS
  <2>2. Len(ask) = 2 /\ ask[1] = 4 /\ ask[2] = 5 /\ ~Fixed(ask) /\ ask # <<255, 17>>
    BY <1>1, <1>4 DEF Fixed
  <2> DEFINE a == ByteAt(bytes, 4 + found)
             b == ByteAt(bytes, 5 + found)
             m == Max({4 + found, 5 + found})
  <2>3. ExpectedLen(ask, bytes, found) = (a + Base * b + m + 1) % (Base * Base)
    BY <2>2 DEF ExpectedLen
  <2>4. a \in Int /\ b \in Int
    BY <1>2, <2>1
  <2>5. m \in Int
    <3>1. m = CHOOSE x \in {4 + found, 5 + found} : \A y \in {4 + found, 5 + found} : x >= y
      BY DEF Max
    <3>2. \E x \in {4 + found, 5 + found} : \A y \in {4 + found, 5 + found} : x >= y
      OBVIOUS
    <3>3. m \in {4 + found, 5 + found}
      BY <3>1, <3>2
    <3> QED BY <3>3
  <2> HIDE DEF a, b, m
  <2>6. a + 256 * b + m + 1 \in Int
    BY ONLY <2>4, <2>5
  <2> DEFINE s == a + 256 * b + m + 1
  <2>7. need = s % 65536
    BY ONLY <1>1, <2>3
  <2>8. s \in Int
    BY <2>6
  <2> HIDE DEF s, need
  <2>9. s % 65536 \in Int /\ 0 <= s % 65536 /\ s % 65536 <= 65535
    BY ONLY <2>8, LengthRange
  <2> QED BY ONLY <2>2, <2>7, <2>9 DEF need, NeedIs
<1>5. CASE ask = <<255, 17>>
  <2>1. Fixed(ask) /\ ask[2] = 17 /\ Len(ask) # 1
    BY <1>1, <1>5 DEF Fixed
  <2>2. ExpectedLen(ask, bytes, found) = 17
    BY <2>1 DEF ExpectedLen
  <2> HIDE DEF need
  <2>3. need = 17
    BY <2>2 DEF need
  <2>4. need \in Int /\ 0 <= need /\ need <= 65535
    BY ONLY <2>3
  <2> QED BY ONLY <2>3, <2>4 DEF need, NeedIs
<1>6. CASE ask = <<255, 48>>
  <2>1. Fixed(ask) /\ ask[2] = 48 /\ Len(ask) # 1 /\ ask # <<255, 17>>
    BY <1>1, <1>6 DEF Fixed
  <2>2. ExpectedLen(ask, bytes, found) = 48
    BY <2>1 DEF ExpectedLen
  <2> HIDE DEF need
  <2>3. need = 48
    BY <2>2 DEF need
  <2>4. need \in Int /\ 0 <= need /\ need <= 65535
    BY ONLY <2>3
  <2> QED BY ONLY <2>1, <2>4 DEF need, NeedIs
<1>7. \/ ask = <<3>> \/ ask = <<4, 5>>
      \/ ask = <<255, 17>> \/ ask = <<255, 48>>
  OBVIOUS
<1> QED BY ONLY <1>3, <1>4, <1>5, <1>6, <1>7

(* The same bytes, one after the other.                                    *)
LEMMA AllSameParts ==
  ASSUME NEW a \in Seq(Byte), NEW b \in Seq(Byte)
  PROVE  AllSame(a \o b) <=> AllSame(a) /\ AllSame(b)
<1>1. /\ Len(a \o b) = Len(a) + Len(b)
      /\ \A j \in 1..Len(a) : (a \o b)[j] = a[j]
      /\ \A j \in 1..Len(b) : (a \o b)[Len(a) + j] = b[j]
  BY Concat
<1>2. Len(a) \in Nat /\ Len(b) \in Nat
  OBVIOUS
<1>3. ASSUME AllSame(a \o b) PROVE AllSame(a) /\ AllSame(b)
  <2>1. \A j \in 1..Len(a) : j \in 1..Len(a \o b)
    BY <1>1, <1>2
  <2>2. \A j \in 1..Len(b) : Len(a) + j \in 1..Len(a \o b)
    BY <1>1, <1>2
  <2> QED BY <1>1, <1>3, <2>1, <2>2 DEF AllSame
<1>4. ASSUME AllSame(a), AllSame(b) PROVE AllSame(a \o b)
  <2> SUFFICES ASSUME NEW j \in 1..Len(a \o b) PROVE (a \o b)[j] = 48
    BY DEF AllSame
  <2>1. CASE j <= Len(a)
    <3>1. j \in 1..Len(a)
      BY <1>2, <2>1
    <3> QED BY <1>1, <1>4, <3>1 DEF AllSame
  <2>2. CASE ~(j <= Len(a))
    <3>1. j - Len(a) \in 1..Len(b) /\ Len(a) + (j - Len(a)) = j
      BY <1>1, <1>2, <2>2
    <3>2. (a \o b)[Len(a) + (j - Len(a))] = b[j - Len(a)]
      BY <1>1, <3>1
    <3> QED BY <1>4, <3>1, <3>2 DEF AllSame
  <2> QED BY <2>1, <2>2
<1> QED BY <1>3, <1>4

(* What has been read, with the next n bytes, and what is left.            *)
Now(n) == response \o SubSeq(wire, 1, n)
Rest(n) == SubSeq(wire, n + 1, Len(wire))

(* They keep what they had together.                                       *)
LEMMA Taken ==
  ASSUME StreamInv, NEW n \in 1..Len(wire)
  PROVE  /\ Now(n) \in Seq(Byte) /\ Now(n) # <<>> /\ Rest(n) \in Seq(Byte)
         /\ Now(n) \o Rest(n) = response \o wire
         /\ driver \in Marked =>
              Genuine(Rest(n), Mark(driver), Identification(driver))
         /\ driver = "runwell" /\ phase = "command" /\ ~strayed =>
              AllSame(Now(n)) /\ AllSame(Rest(n))
<1> DEFINE first == SubSeq(wire, 1, n)
           now == response \o first
           rest == SubSeq(wire, n + 1, Len(wire))
<1>1. response \in Seq(Byte) /\ wire \in Seq(Byte)
  BY DEF StreamInv, TypeOK
<1>2. /\ first \in Seq(Byte) /\ rest \in Seq(Byte) /\ Len(first) = n
      /\ response \o wire = now \o rest
  BY <1>1, Regrouped
<1>a. first \in Seq(Byte) /\ rest \in Seq(Byte)
  BY <1>2
<1>b. n \in Nat /\ n > 0
  BY <1>1
<1> HIDE DEF first, rest
<1>3. now \in Seq(Byte) /\ Len(now) = Len(response) + Len(first)
  BY <1>1, <1>a, Concat
<1>4. now # <<>>
  <2>1. Len(now) # 0
    BY <1>1, <1>2, <1>3, <1>b
  <2> HIDE DEF now
  <2> QED BY <2>1
<1>c. now \in Seq(Byte)
  BY <1>3
<1> HIDE DEF now
<1>5. ASSUME driver \in Marked
      PROVE  Genuine(rest, Mark(driver), Identification(driver))
  <2>1. Mark(driver) \in Seq(Byte) /\ Identification(driver) \in Seq(Byte)
    BY <1>5, MarksTyped
  <2>2. Genuine(now \o rest, Mark(driver), Identification(driver))
    BY <1>2, <1>5 DEF StreamInv, StreamGenuine
  <2> QED BY <1>a, <1>c, <2>1, <2>2, GenuineTaken
<1>6. ASSUME driver = "runwell", phase = "command", ~strayed
      PROVE  AllSame(now) /\ AllSame(rest)
  <2>1. AllSame(now \o rest)
    BY <1>2, <1>6 DEF StreamInv, RunwellStream
  <2> QED BY <1>a, <1>c, <2>1, AllSameParts
<1> QED BY <1>2, <1>4, <1>5, <1>6, <1>c DEF now, first, rest, Now, Rest

(* Where the answer begins, and how long it is.                            *)
LEMMA Looking ==
  ASSUME StreamInv, phase = "command", NEW n \in 1..Len(wire)
  PROVE  LET look == Looked(Now(n))
         IN  /\ look.response = Now(n) /\ look.refused \in BOOLEAN
             /\ look.found = contains_at(Now(n), Current.expected)
             /\ look.found \in Int /\ -1 <= look.found /\ look.found <= Len(Now(n))
             /\ look.found >= 0 => Occurs(Now(n), Current.expected, look.found)
             /\ look.need \in Int /\ 0 <= look.need /\ look.need <= 65535
             /\ driver = "runwell" /\ at = 1 => look.found = 0 /\ look.need = 17
<1> DEFINE now == Now(n)
           found == contains_at(now, Current.expected)
           look == Looked(now)
<1>1. now \in Seq(Byte)
  BY Taken
<1>2. driver \in AllDrivers /\ at \in DOMAIN Program[driver]
  BY InitialisationAssumption DEF StreamInv, TypeOK
<1>3. /\ CommandTyped(Current)
      /\ Current.expected \in Seq(Byte)
  BY <1>2, CommandsTyped DEF Current, CommandTyped
<1> HIDE DEF now
<1>4. \/ found \in 0..Len(now) /\ Occurs(now, Current.expected, found)
      \/ found = -1 /\ \A i \in 0..Len(now) : ~Occurs(now, Current.expected, i)
  BY <1>1, <1>3, FirstPlaceFound
<1>5. /\ look.response = now /\ look.refused \in BOOLEAN /\ look.found = found
      /\ look.need = IF found >= 0 /\ asked # <<>>
                     THEN ExpectedLen(asked, now, found) ELSE expected_len
  BY DEF Looked
<1>6. /\ found \in Int /\ -1 <= found /\ found <= Len(now)
      /\ found >= 0 => Occurs(now, Current.expected, found)
  <2> HIDE DEF found
  <2>1. Len(now) \in Nat
    BY <1>1
  <2> QED BY <1>4, <2>1
<1>7. asked # <<>> => asked \in {<<3>>, <<4, 5>>, <<255, 17>>, <<255, 48>>}
  <2>1. asked # <<>> => asked = Current.ask
    BY DEF StreamInv, AskedIsAsk
  <2>2. Current.ask \in {<<>>, <<3>>, <<4, 5>>, <<255, 17>>, <<255, 48>>}
    BY <1>3 DEF CommandTyped
  <2> QED BY ONLY <2>1, <2>2
<1>8. ASSUME found >= 0, asked # <<>>
      PROVE  /\ look.need \in Int /\ 0 <= look.need /\ look.need <= 65535
             /\ asked = <<255, 17>> => look.need = 17
  <2>1. found \in Nat
    BY <1>6, <1>8
  <2>2. look.need = ExpectedLen(asked, now, found)
    BY <1>5, <1>8
  <2> DEFINE need == ExpectedLen(asked, now, found)
  <2>3. asked \in {<<3>>, <<4, 5>>, <<255, 17>>, <<255, 48>>}
    BY <1>7, <1>8
  <2> HIDE DEF found
  <2>4. NeedIs(asked, need)
    BY ONLY <1>1, <2>1, <2>3, NeedTyped
  <2>5. /\ need \in Int /\ 0 <= need /\ need <= 65535
        /\ asked = <<255, 17>> => need = 17
    BY <2>4 DEF NeedIs
  <2> QED BY ONLY <2>2, <2>5
<1>9. ASSUME ~(found >= 0 /\ asked # <<>>)
      PROVE  /\ look.need = expected_len
             /\ look.need \in Int /\ 0 <= look.need /\ look.need <= 65535
  <2>1. look.need = expected_len
    BY <1>5, <1>9
  <2>2. expected_len \in Int /\ 0 <= expected_len /\ expected_len <= 65535
    BY ExpectedTyped
  <2> QED BY ONLY <2>1, <2>2
<1>10. ASSUME driver = "runwell", at = 1
       PROVE  found = 0 /\ look.need = 17
  <2>1. Current.expected = <<>>
    BY <1>10, RunwellProgramIs DEF Current
  <2>2. Occurs(now, Current.expected, 0)
    BY <1>1, <2>1 DEF Occurs
  <2>3. 0 \in 0..Len(now)
    BY <1>1
  <2>4. /\ found \in 0..Len(now)
        /\ \A i \in 0..(found - 1) : ~Occurs(now, Current.expected, i)
    BY <1>1, <1>3, <2>2, <2>3, FirstPlaceFound
  <2>5. found = 0
    <3> HIDE DEF found
    <3> QED BY <1>1, <2>2, <2>4
  <2>6. asked = <<255, 17>> \/ (asked = <<>> /\ expected_len = 17)
    BY <1>10 DEF StreamInv, RunwellAsks
  <2>7. <<255, 17>> # <<>>
    OBVIOUS
  <2>8. CASE asked = <<255, 17>>
    <3>1. found >= 0
      BY <2>5
    <3> QED BY ONLY <1>8, <2>5, <2>7, <2>8, <3>1
  <2>9. CASE asked = <<>> /\ expected_len = 17
    BY ONLY <1>9, <2>5, <2>9
  <2> QED BY <2>6, <2>8, <2>9
<1> QED BY <1>5, <1>6, <1>8, <1>9, <1>10 DEF now

(* Reading on.                                                             *)
LEMMA ReadingOn ==
  ASSUME StreamInv, phase = "command", NEW n \in 1..Len(wire),
         ReadsOn(Looked(Now(n)), Rest(n)),
         UNCHANGED <<driver, accepted, attempts, unsolicited, due, requests, strayed>>
  PROVE  StreamInv'
<1> DEFINE look == Looked(Now(n))
<1>1. /\ Now(n) \in Seq(Byte) /\ Now(n) # <<>> /\ Rest(n) \in Seq(Byte)
      /\ Now(n) \o Rest(n) = response \o wire
  BY Taken
<1>2. /\ look.response = Now(n)
      /\ look.found = contains_at(Now(n), Current.expected)
      /\ look.found \in Int /\ -1 <= look.found /\ look.found <= Len(Now(n))
      /\ look.need \in Int /\ 0 <= look.need /\ look.need <= 65535
      /\ driver = "runwell" /\ at = 1 => look.found = 0 /\ look.need = 17
  BY Looking
<1>3. /\ response' = Now(n) /\ response_found' = look.found
      /\ expected_len' = look.need
      /\ asked' = IF look.found >= 0 THEN <<>> ELSE asked
      /\ wire' = Rest(n)
      /\ UNCHANGED <<phase, timed, at, id_, pending, waits>>
      /\ ~Whole(look)
  BY <1>2 DEF ReadsOn
<1>4. Current' = Current
  BY <1>3 DEF Current
<1> HIDE DEF look
<1>5. TypeOK'
  <2>1. asked' \in Seq(Byte)
    <3>1. asked \in Seq(Byte) /\ <<>> \in Seq(Byte)
      BY DEF StreamInv, TypeOK
    <3> QED BY <1>3, <3>1
  <2>2. response' \in Seq(Byte) /\ wire' \in Seq(Byte) /\ id_' \in Seq(Byte)
    BY <1>1, <1>3 DEF StreamInv, TypeOK
  <2>3. response_found' \in -1..Len(response')
    BY <1>1, <1>2, <1>3
  <2>4. expected_len' \in 0..(Base * Base - 1)
    <3>1. Base * Base - 1 = 65535
      <4>1. Base = 256
        BY RealBytes
      <4>2. 256 * 256 - 1 = 65535
        OBVIOUS
      <4> QED BY ONLY <4>1, <4>2
    <3> DEFINE e == expected_len'
    <3>2. e \in Int /\ 0 <= e /\ e <= 65535
      BY <1>2, <1>3
    <3> HIDE DEF e
    <3>3. e \in 0..(Base * Base - 1)
      BY ONLY <3>1, <3>2
    <3> QED BY <3>3 DEF e
  <2>5. response_found' >= 0 => Len(response') < expected_len'
    <3>1. look.found >= 0 => ~(Len(look.response) >= look.need)
      BY <1>3 DEF Whole
    <3>2. Len(Now(n)) \in Nat
      BY <1>1
    <3> QED BY <1>2, <1>3, <3>1, <3>2
  <2> QED BY <1>3, <2>1, <2>2, <2>3, <2>4, <2>5 DEF StreamInv, TypeOK
<1>6. AskedIsAsk'
  BY <1>3, <1>4 DEF StreamInv, AskedIsAsk
<1>7. RequestsBounded' /\ IdleIsEmpty'
  BY <1>3 DEF StreamInv, RequestsBounded, IdleIsEmpty
<1>8. StreamGenuine' /\ RunwellStream'
  <2>1. response' \o wire' = response \o wire
    BY <1>1, <1>3
  <2>2. StreamGenuine'
    BY <2>1 DEF StreamInv, StreamGenuine
  <2>3. RunwellStream'
    BY <1>3, <2>1 DEF StreamInv, RunwellStream
  <2> QED BY <2>2, <2>3
<1>9. RunwellAsks'
  BY <1>2, <1>3 DEF StreamInv, RunwellAsks
<1>10. FoundSoFar'
  BY <1>1, <1>2, <1>3, <1>4 DEF FoundSoFar
<1> QED BY <1>5, <1>6, <1>7, <1>8, <1>9, <1>10 DEF StreamInv

-----------------------------------------------------------------------------
(* What is made of an answer.                                              *)

RightId(type) ==
  IF type \in UbloxDrivers THEN UbloxSerial
  ELSE IF type \in XsensDrivers THEN XsensSerial
  ELSE RunwellProgram[1].accept

IdInv == strayed \/ id_ \in {NoId, UnknownId, RightId(driver)}

(* That is what is promised.                                               *)
LEMMA IdInvIs ==
  ASSUME driver \in AllDrivers
  PROVE  IdInv <=> IdNeverWrong
<1> DEFINE right == CASE driver \in UbloxDrivers -> {UbloxSerial}
                      [] driver \in XsensDrivers -> {XsensSerial}
                      [] driver = "runwell"      -> {RunwellProgram[1].accept}
<1>1. right = {RightId(driver)}
  <2>1. CASE driver \in UbloxDrivers
    BY <2>1, DriversApart DEF RightId
  <2>2. CASE driver \in XsensDrivers
    BY <2>2, DriversApart DEF RightId
  <2>3. CASE driver = "runwell"
    BY <2>3, DriversApart DEF RightId
  <2> QED BY <2>1, <2>2, <2>3 DEF AllDrivers
<1>2. IdNeverWrong <=> strayed \/ id_ \in {NoId, UnknownId} \cup right
  BY DEF IdNeverWrong
<1> HIDE DEF right
<1> QED BY <1>1, <1>2 DEF IdInv

(* A part of some bytes.                                                   *)
LEMMA PartIs ==
  ASSUME NEW s \in Seq(Byte), NEW first \in Nat, 1 <= first,
         NEW last \in Nat, last <= Len(s), first <= last + 1
  PROVE  /\ SubSeq(s, first, last) \in Seq(Byte)
         /\ Len(SubSeq(s, first, last)) = (last - first) + 1
         /\ \A i \in 1..((last - first) + 1) :
              SubSeq(s, first, last)[i] = s[(first + i) - 1]
<1>1. Len(s) \in Nat
  OBVIOUS
<1>2. \A i \in first..last : i \in 1..Len(s)
  BY <1>1
<1>3. \A i \in first..last : s[i] \in Byte
  BY <1>2
<1> QED BY <1>1, <1>3, SubSeqProperties

(* An answer: what has been read from where it begins.                     *)
From(now, found) == SubSeq(now, found + 1, Len(now))

(* It has these bytes.                                                     *)
LEMMA FromIs ==
  ASSUME NEW now \in Seq(Byte), NEW found \in Nat, found <= Len(now)
  PROVE  /\ From(now, found) \in Seq(Byte)
         /\ Len(From(now, found)) \in Nat
         /\ found + Len(From(now, found)) = Len(now)
         /\ \A j \in 1..Len(From(now, found)) : From(now, found)[j] = now[found + j]
<1> DEFINE answer == From(now, found)
<1>1. Len(now) \in Nat
  OBVIOUS
<1>2. /\ answer \in Seq(Byte) /\ Len(answer) = (Len(now) - (found + 1)) + 1
      /\ \A i \in 1..((Len(now) - (found + 1)) + 1) :
           answer[i] = now[((found + 1) + i) - 1]
  BY <1>1, PartIs DEF From
<1> HIDE DEF answer
<1>3. Len(answer) \in Nat /\ found + Len(answer) = Len(now)
  BY <1>1, <1>2
<1>4. ASSUME NEW j \in 1..Len(answer) PROVE answer[j] = now[found + j]
  <2>1. j \in 1..((Len(now) - (found + 1)) + 1) /\ ((found + 1) + j) - 1 = found + j
    BY <1>1, <1>2
  <2>2. answer[j] = now[((found + 1) + j) - 1]
    BY <1>2, <2>1
  <2> QED BY <2>1, <2>2
<1> QED BY <1>2, <1>3, <1>4 DEF answer

(* Where the mark of an identification is found, the answer is the         *)
(* identification, as far as it has been read.                             *)
LEMMA AnswerIsIdentification ==
  ASSUME StreamInv, driver \in Marked, NEW n \in 1..Len(wire),
         NEW found \in Nat, Occurs(Now(n), Mark(driver), found)
  PROVE  LET answer == From(Now(n), found)
         IN  /\ answer \in Seq(Byte)
             /\ \A j \in 1..Len(answer) : j <= Len(Identification(driver)) =>
                  answer[j] = Identification(driver)[j]
<1> DEFINE now == Now(n)
           rest == Rest(n)
           answer == From(now, found)
           mark == Mark(driver)
           right == Identification(driver)
           stream == response \o wire
<1>1. now \in Seq(Byte) /\ rest \in Seq(Byte) /\ now \o rest = stream
  BY Taken
<1>2. mark \in Seq(Byte) /\ right \in Seq(Byte) /\ Len(mark) > 0
  BY MarksTyped
<1>3. Genuine(stream, mark, right)
  BY DEF StreamInv, StreamGenuine
<1>4. Occurs(now, mark, found)
  OBVIOUS
<1>a. now \in Seq(Byte) /\ rest \in Seq(Byte)
  BY <1>1
<1>b. mark \in Seq(Byte)
  BY <1>2
<1> HIDE DEF now, rest, mark, right, stream
<1>5. found + Len(mark) <= Len(now)
  BY <1>4 DEF Occurs
<1>6. Occurs(now \o rest, mark, found)
  BY <1>4, <1>5, <1>a, <1>b, OccursLonger
<1>7. /\ Len(now \o rest) = Len(now) + Len(rest)
      /\ \A j \in 1..Len(now) : (now \o rest)[j] = now[j]
  BY <1>a, Concat
<1>8. /\ Len(now) \in Nat /\ Len(rest) \in Nat /\ Len(mark) \in Nat
      /\ Len(right) \in Nat
  BY <1>1, <1>2
<1>9. found \in 0..Len(stream) /\ found <= Len(now)
  BY <1>1, <1>5, <1>7, <1>8
<1>10. Occurs(stream, right, found)
  BY <1>1, <1>3, <1>6, <1>9 DEF Genuine
<1>11. /\ answer \in Seq(Byte) /\ Len(answer) \in Nat
       /\ found + Len(answer) = Len(now)
       /\ \A j \in 1..Len(answer) : answer[j] = now[found + j]
  BY <1>a, <1>9, FromIs
<1> HIDE DEF answer
<1>12. ASSUME NEW j \in 1..Len(answer), j <= Len(right)
       PROVE  answer[j] = right[j]
  <2>1. j \in 1..Len(right) /\ found + j \in 1..Len(now)
    BY <1>8, <1>11, <1>12
  <2>2. stream[found + j] = right[j]
    BY <1>10, <2>1 DEF Occurs
  <2>3. stream[found + j] = now[found + j]
    BY <1>1, <1>7, <2>1
  <2> QED BY <1>11, <2>2, <2>3
<1> QED BY <1>11, <1>12 DEF answer, right, now

(* The identification of an Xsens, of which enough has been read or not.   *)
LEMMA XsensIdFrom ==
  ASSUME StreamInv, driver \in XsensDrivers, Current.name = "identifier",
         NEW n \in 1..Len(wire), NEW found \in Nat,
         Occurs(Now(n), Mark(driver), found)
  PROVE  IdFrom(From(Now(n), found)) \in {id_, UnknownId, XsensSerial}
<1> DEFINE answer == From(Now(n), found)
           right == Identification(driver)
<1>1. /\ answer \in Seq(Byte)
      /\ \A j \in 1..Len(answer) : j <= Len(right) => answer[j] = right[j]
  BY AnswerIsIdentification DEF Marked
<1>2. /\ Len(right) = 9 /\ right[4] = 4
      /\ \A j \in 1..4 : right[4 + j] = XsensSerial[j]
  <2>1. 1 \in Byte
    BY SmallBytes
  <2>2. XsensSerial \in Seq(Byte) /\ Len(XsensSerial) = 4 /\ 4 \in Byte
    BY SerialPayload, OfferedBytes DEF XsensPayload
  <2> DEFINE s == XsensSerial
             p == XsensPacket(1, s)
  <2> HIDE DEF s
  <2>3. s \in Seq(Byte) /\ Len(s) = 4 /\ Len(s) \in Byte
    BY <2>2 DEF s
  <2>4. /\ Len(p) = 5 + Len(s) /\ p[4] = Len(s)
        /\ \A j \in 1..Len(s) : p[4 + j] = s[j]
    <3>1. s \in Seq(Byte) /\ Len(s) \in Byte
      BY <2>3
    <3> QED BY ONLY <2>1, <3>1, XsensPacketIs
  <2>5. right = p
    BY DEF Identification, s
  <2> HIDE DEF p, right
  <2> QED BY <2>3, <2>4, <2>5 DEF s
<1> HIDE DEF answer, right
<1>3. CASE Len(answer) > 3
  <2>1. 4 \in 1..Len(answer) /\ 4 <= Len(right)
    BY <1>1, <1>2, <1>3
  <2>2. answer[4] = 4
    BY <1>1, <1>2, <2>1
  <2>3. IdFrom(answer) = IF Len(answer) > 3 + 4 THEN SubSeq(answer, 5, 4 + 4)
                         ELSE UnknownId
    BY <1>3, <2>2 DEF IdFrom
  <2>4. ASSUME Len(answer) > 7 PROVE SubSeq(answer, 5, 8) = XsensSerial
    <3> DEFINE part == SubSeq(answer, 5, 8)
               s == XsensSerial
    <3>1. /\ part \in Seq(Byte) /\ Len(part) = (8 - 5) + 1
          /\ \A i \in 1..((8 - 5) + 1) : part[i] = answer[(5 + i) - 1]
      <4>1. 8 \in Nat /\ 8 <= Len(answer) /\ 5 \in Nat /\ 1 <= 5 /\ 5 <= 8 + 1
        BY <1>1, <2>4
      <4> QED BY ONLY <1>1, <4>1, PartIs
    <3>2. s \in Seq(Byte) /\ Len(s) = 4
      BY SerialPayload DEF XsensPayload
    <3> HIDE DEF part, s
    <3>3. ASSUME NEW i \in 1..4 PROVE part[i] = s[i]
      <4>1. i \in 1..((8 - 5) + 1) /\ (5 + i) - 1 = 4 + i
        OBVIOUS
      <4>2. part[i] = answer[4 + i]
        BY <3>1, <4>1
      <4>3. 4 + i \in 1..Len(answer) /\ 4 + i <= Len(right)
        BY <1>1, <1>2, <2>4
      <4> QED BY <1>1, <1>2, <4>2, <4>3 DEF s
    <3>4. Len(part) = 4
      BY <3>1
    <3>5. part = s
      <4>1. \A i \in 1..Len(part) : part[i] = s[i]
        BY <3>3, <3>4
      <4> QED BY <3>1, <3>2, <3>4, <4>1, SeqEqual
    <3> QED BY <3>5 DEF part, s
  <2>5. 3 + 4 = 7 /\ 4 + 4 = 8
    OBVIOUS
  <2> QED BY <2>3, <2>4, <2>5 DEF answer
<1>4. CASE ~(Len(answer) > 3)
  <2>1. IdFrom(answer) = id_
    BY <1>4 DEF IdFrom
  <2> QED BY <2>1 DEF answer
<1> QED BY <1>3, <1>4

(* The identification of a Ublox, likewise.                                *)
LEMMA UbloxIdFrom ==
  ASSUME StreamInv, driver \in UbloxDrivers, Current.name = "sec_uniqid",
         NEW n \in 1..Len(wire), NEW found \in Nat,
         Occurs(Now(n), Mark(driver), found)
  PROVE  IdFrom(From(Now(n), found)) \in {id_, UnknownId, UbloxSerial}
<1> DEFINE answer == From(Now(n), found)
           right == Identification(driver)
<1>1. /\ answer \in Seq(Byte)
      /\ \A j \in 1..Len(answer) : j <= Len(right) => answer[j] = right[j]
  BY AnswerIsIdentification DEF Marked
<1>2. /\ Len(right) = 17
      /\ \A j \in 1..5 : right[10 + j] = UbloxSerial[j]
  <2>1. 39 \in Byte /\ 3 \in Byte
    BY SmallBytes
  <2> DEFINE s == UbloxIdentity
             p == UbloxPacket(39, 3, s)
  <2>2. right = p
    BY DriversApart DEF Identification, UbloxIdentity
  <2> HIDE DEF s
  <2>3. s \in Seq(Byte) /\ Len(s) \in Byte
    BY UbloxIdentityIs, ByteIs DEF s, UbloxPayload
  <2>4. Len(s) = 9 /\ \A j \in 1..5 : s[4 + j] = UbloxSerial[j]
    BY UbloxIdentityIs DEF s
  <2>5. /\ Len(p) = 8 + Len(s)
        /\ \A j \in 1..Len(s) : p[6 + j] = s[j]
    BY ONLY <2>1, <2>3, UbloxPacketIs
  <2> HIDE DEF p, right
  <2>6. ASSUME NEW j \in 1..5 PROVE p[10 + j] = UbloxSerial[j]
    <3>1. 4 + j \in 1..Len(s) /\ 10 + j = 6 + (4 + j)
      BY <2>4
    <3>2. p[6 + (4 + j)] = s[4 + j]
      BY <2>5, <3>1
    <3> QED BY <2>4, <3>1, <3>2
  <2> QED BY <2>2, <2>4, <2>5, <2>6
<1> HIDE DEF answer, right
<1>3. CASE Len(answer) >= 6 + 9
  <2>1. IdFrom(answer) = SubSeq(answer, 11, 15)
    BY <1>3 DEF IdFrom
  <2> DEFINE part == SubSeq(answer, 11, 15)
             s == UbloxSerial
  <2>2. /\ part \in Seq(Byte) /\ Len(part) = (15 - 11) + 1
        /\ \A i \in 1..((15 - 11) + 1) : part[i] = answer[(11 + i) - 1]
    <3>1. 15 \in Nat /\ 15 <= Len(answer) /\ 11 \in Nat /\ 1 <= 11 /\ 11 <= 15 + 1
      BY <1>1, <1>3
    <3> QED BY ONLY <1>1, <3>1, PartIs
  <2>3. s \in Seq(Byte) /\ Len(s) = 5
    BY UbloxIdentityIs
  <2> HIDE DEF part, s
  <2>4. ASSUME NEW i \in 1..5 PROVE part[i] = s[i]
    <3>1. i \in 1..((15 - 11) + 1) /\ (11 + i) - 1 = 10 + i
      OBVIOUS
    <3>2. part[i] = answer[10 + i]
      BY <2>2, <3>1
    <3>3. 10 + i \in 1..Len(answer) /\ 10 + i <= Len(right)
      BY <1>1, <1>2, <1>3
    <3> QED BY <1>1, <1>2, <3>2, <3>3 DEF s
  <2>5. Len(part) = 5
    BY <2>2
  <2>6. part = s
    <3>1. \A i \in 1..Len(part) : part[i] = s[i]
      BY <2>4, <2>5
    <3> QED BY <2>2, <2>3, <2>5, <3>1, SeqEqual
  <2> QED BY <2>1, <2>6 DEF part, s, answer
<1>4. CASE ~(Len(answer) >= 6 + 9)
  <2>1. IdFrom(answer) = id_
    BY <1>4 DEF IdFrom
  <2> QED BY <2>1 DEF answer
<1> QED BY <1>3, <1>4

(* The identification of a Runwell is the first bytes that have been read. *)
LEMMA RunwellIdFrom ==
  ASSUME StreamInv, driver = "runwell", phase = "command", at = 1,
         NEW n \in 1..Len(wire), Len(Now(n)) >= 17
  PROVE  LET id == IdFrom(From(Now(n), 0))
         IN  id \in Seq(Byte) /\ (strayed \/ id = RunwellProgram[1].accept)
<1> DEFINE now == Now(n)
           answer == From(now, 0)
           id == SubSeq(answer, 1, 17)
           right == RunwellProgram[1].accept
<1>1. /\ now \in Seq(Byte)
      /\ ~strayed => AllSame(now)
  BY Taken
<1>2. Current.name = "request_id"
  BY RunwellProgramIs DEF Current
<1>3. IdFrom(answer) = id
  BY <1>2 DEF IdFrom
<1>4. Len(now) >= 17
  OBVIOUS
<1> HIDE DEF now
<1>a. now \in Seq(Byte)
  BY <1>1
<1>5. /\ answer \in Seq(Byte) /\ Len(answer) \in Nat /\ 0 + Len(answer) = Len(now)
      /\ \A j \in 1..Len(answer) : answer[j] = now[0 + j]
  <2>1. 0 \in Nat /\ 0 <= Len(now)
    BY <1>a
  <2> QED BY ONLY <1>a, <2>1, FromIs
<1> HIDE DEF answer
<1>6. Len(answer) = Len(now) /\ \A j \in 1..Len(answer) : answer[j] = now[j]
  BY <1>5
<1>7. /\ id \in Seq(Byte) /\ Len(id) = (17 - 1) + 1
      /\ \A i \in 1..((17 - 1) + 1) : id[i] = answer[(1 + i) - 1]
  <2>1. 17 \in Nat /\ 17 <= Len(answer) /\ 1 \in Nat /\ 1 <= 1 /\ 1 <= 17 + 1
    BY <1>4, <1>6
  <2> QED BY ONLY <1>5, <2>1, PartIs
<1> HIDE DEF id
<1>8. right = [i \in 1..17 |-> 48]
  BY RunwellProgramIs, ProgramIs
<1>9. ASSUME ~strayed PROVE id = right
  <2>1. ASSUME NEW i \in 1..17 PROVE id[i] = 48
    <3>1. i \in 1..((17 - 1) + 1) /\ (1 + i) - 1 = i
      OBVIOUS
    <3>2. id[i] = answer[i]
      BY <1>7, <3>1
    <3>3. i \in 1..Len(answer) /\ i \in 1..Len(now)
      BY <1>4, <1>6
    <3> QED BY <1>1, <1>6, <1>9, <3>2, <3>3 DEF AllSame
  <2>2. Len(id) = 17
    BY <1>7
  <2>3. DOMAIN id = 1..17 /\ id = [i \in DOMAIN id |-> id[i]]
    BY <1>7, <2>2
  <2> HIDE DEF right
  <2> QED BY <1>8, <2>1, <2>3
<1> QED BY <1>3, <1>7, <1>9 DEF answer, now

(* What is made of an answer is right or nothing.                          *)
LEMMA Identified ==
  ASSUME StreamInv, IdInv, phase = "command", NEW n \in 1..Len(wire),
         Whole(Looked(Now(n)))
  PROVE  LET id == IdFrom(From(Now(n), Looked(Now(n)).found))
         IN  id \in Seq(Byte) /\ (strayed \/ id \in {NoId, UnknownId, RightId(driver)})
<1> DEFINE look == Looked(Now(n))
           found == look.found
           id == IdFrom(From(Now(n), found))
<1>1. /\ Now(n) \in Seq(Byte) /\ Len(Now(n)) \in Nat
  BY Taken
<1>2. /\ look.response = Now(n) /\ found \in Nat
      /\ Occurs(Now(n), Current.expected, found)
      /\ look.need \in Int
      /\ driver = "runwell" /\ at = 1 => found = 0 /\ look.need = 17
  BY Looking DEF Whole
<1>3. Len(Now(n)) >= look.need
  BY <1>2 DEF Whole
<1> HIDE DEF look
<1>4. driver \in Marked \cup {"runwell"} /\ at \in DOMAIN Program[driver]
  BY InitialisationAssumption DEF StreamInv, TypeOK, AllDrivers, Marked
<1>5. id_ \in Seq(Byte)
  BY DEF StreamInv, TypeOK
<1>6. /\ UnknownId \in Seq(Byte) /\ NoId \in Seq(Byte)
      /\ XsensSerial \in Seq(Byte) /\ UbloxSerial \in Seq(Byte)
  <2>1. 0 \in Byte
    BY ByteIs
  <2>2. UnknownId \in Seq(Byte) /\ NoId \in Seq(Byte)
    BY ONLY <2>1 DEF UnknownId, NoId
  <2> QED BY <2>2, SerialPayload, UbloxIdentityIs DEF XsensPayload
<1>7. CASE Current.name \notin {"identifier", "sec_uniqid", "request_id"}
  <2>1. id = id_
    BY <1>7 DEF IdFrom
  <2> QED BY <1>5, <2>1 DEF IdInv, look
<1>8. CASE driver \in Marked /\ Current.name \in {"identifier", "sec_uniqid"}
  <2>1. /\ Current.expected = Mark(driver)
        /\ Current.name = "identifier" => driver \in XsensDrivers
        /\ Current.name = "sec_uniqid" => driver \in UbloxDrivers
    BY <1>4, <1>8, MarkedCommands DEF Current, CommandOf
  <2>2. Occurs(Now(n), Mark(driver), found)
    BY <1>2, <2>1
  <2>3. id \in {id_, UnknownId, RightId(driver)}
    <3>1. CASE Current.name = "identifier"
      BY <1>2, <2>1, <2>2, <3>1, XsensIdFrom, DriversApart DEF RightId
    <3>2. CASE Current.name = "sec_uniqid"
      BY <1>2, <2>1, <2>2, <3>2, UbloxIdFrom DEF RightId
    <3> QED BY <1>8, <3>1, <3>2
  <2>4. RightId(driver) \in Seq(Byte)
    BY <1>6, <1>8 DEF RightId, Marked
  <2> HIDE DEF id
  <2>5. id \in Seq(Byte) /\ (strayed \/ id \in {NoId, UnknownId, RightId(driver)})
    BY <1>5, <1>6, <2>3, <2>4 DEF IdInv
  <2> QED BY <2>5 DEF id, look
<1>9. CASE driver = "runwell" /\ at = 1
  <2>1. found = 0 /\ Len(Now(n)) >= 17
    BY <1>2, <1>3, <1>9
  <2>2. id \in Seq(Byte) /\ (strayed \/ id = RunwellProgram[1].accept)
    BY <1>9, <2>1, RunwellIdFrom
  <2>3. RightId(driver) = RunwellProgram[1].accept
    BY <1>9, DriversApart DEF RightId
  <2> HIDE DEF id
  <2>4. id \in Seq(Byte) /\ (strayed \/ id \in {NoId, UnknownId, RightId(driver)})
    BY <2>2, <2>3
  <2> QED BY <2>4 DEF id, look
<1>10. \/ Current.name \notin {"identifier", "sec_uniqid", "request_id"}
       \/ driver \in Marked /\ Current.name \in {"identifier", "sec_uniqid"}
       \/ driver = "runwell" /\ at = 1
  <2>1. CASE driver \in Marked
    <3>1. Current.name # "request_id"
      BY <1>4, <2>1, MarkedCommands DEF Current
    <3> QED BY <2>1, <3>1
  <2>2. CASE driver = "runwell" /\ at # 1
    <3>1. at = 2
      <4>1. DOMAIN Program["runwell"] = 1..Len(Program["runwell"])
        BY ProgramLength DEF AllDrivers
      <4>a. Len(Program["runwell"]) = 2
        BY RunwellProgramIs
      <4> QED BY <1>4, <2>2, <4>1, <4>a
    <3>2. Current.name = "request_version"
      BY <2>2, <3>1, RunwellProgramIs DEF Current
    <3> QED BY <3>2
  <2> QED BY <1>4, <2>1, <2>2
<1> QED BY <1>7, <1>8, <1>9, <1>10

-----------------------------------------------------------------------------
(* The steps.                                                              *)

(* What the steps of the other components of the state may do.             *)
LEMMA CurrentTyped ==
  ASSUME StreamInv
  PROVE  /\ driver \in AllDrivers /\ at \in DOMAIN Program[driver]
         /\ response \in Seq(Byte) /\ wire \in Seq(Byte) /\ id_ \in Seq(Byte)
         /\ pending \in Seq(DOMAIN Program[driver] \cup {Aside})
         /\ attempts \in 0..MaxAttempts /\ unsolicited \in 0..MaxUnsolicited
         /\ strayed \in BOOLEAN
  BY InitialisationAssumption DEF StreamInv, TypeOK

(* Reading.                                                                *)
LEMMA ReadKeeps ==
  ASSUME StreamInv, IdInv, Read
  PROVE  StreamInv' /\ IdInv'
<1>1. PICK n \in 1..Len(wire) :
        \/ Refused(Looked(Now(n)), Rest(n)) \/ Answered(Looked(Now(n)), Rest(n))
        \/ ReadsOn(Looked(Now(n)), Rest(n))
  BY DEF Read, Now, Rest
<1>2. /\ phase = "command"
      /\ UNCHANGED <<driver, accepted, attempts, unsolicited, due, requests, strayed>>
  BY DEF Read
<1>3. timed = FALSE
  BY <1>2 DEF StreamInv, TypeOK
<1>4. /\ driver \in AllDrivers /\ at \in DOMAIN Program[driver] /\ id_ \in Seq(Byte)
      /\ attempts' \in 0..MaxAttempts /\ unsolicited' \in 0..MaxUnsolicited
      /\ strayed' \in BOOLEAN
  BY <1>2, CurrentTyped
<1>5. /\ Rest(n) \in Seq(Byte)
      /\ driver \in Marked => Genuine(Rest(n), Mark(driver), Identification(driver))
      /\ driver = "runwell" /\ ~strayed' => AllSame(Rest(n)) /\ ~Contains(pending, Aside)
  BY <1>2, Taken DEF StreamInv, RunwellStream
<1>6. ASSUME NEW ok \in BOOLEAN, GoesOn(ok, Rest(n)), id_' \in Seq(Byte)
      PROVE  StreamInv'
  <2>1. Moved(Rest(n))
    BY <1>4, <1>6, GoesOnMoves
  <2>2. ~timed'
    BY <1>3, <2>1 DEF Moved
  <2> QED BY <1>2, <1>4, <1>5, <1>6, <2>1, <2>2, MovedKeeps
<1>7. CASE Refused(Looked(Now(n)), Rest(n))
  <2>1. GoesOn(FALSE, Rest(n)) /\ id_' = id_
    BY <1>7 DEF Refused
  <2>2. IdInv'
    BY <1>2, <2>1 DEF IdInv
  <2> QED BY <1>4, <1>6, <2>1, <2>2
<1>8. CASE Answered(Looked(Now(n)), Rest(n))
  <2> DEFINE answer == From(Now(n), Looked(Now(n)).found)
  <2>1. /\ Whole(Looked(Now(n))) /\ id_' = IdFrom(answer)
        /\ GoesOn(Usable(answer), Rest(n))
    BY <1>8, Looking, <1>2 DEF Answered, From
  <2>2. id_' \in Seq(Byte) /\ (strayed \/ id_' \in {NoId, UnknownId, RightId(driver)})
    BY <1>2, <2>1, Identified
  <2>3. Usable(answer) \in BOOLEAN
    BY DEF Usable
  <2>4. IdInv'
    BY <1>2, <2>2 DEF IdInv
  <2> HIDE DEF answer
  <2> QED BY <1>6, <2>1, <2>2, <2>3, <2>4
<1>9. CASE ReadsOn(Looked(Now(n)), Rest(n))
  <2>1. StreamInv'
    BY <1>2, <1>9, ReadingOn
  <2>2. IdInv'
    BY <1>2, <1>9 DEF IdInv, ReadsOn
  <2> QED BY <2>1, <2>2
<1> QED BY <1>1, <1>7, <1>8, <1>9

(* The timeout of a command.                                               *)
LEMMA TimeoutKeeps ==
  ASSUME StreamInv, IdInv, Timeout
  PROVE  StreamInv' /\ IdInv'
<1>1. /\ phase = "command" /\ GoesOn(FALSE, wire)
      /\ UNCHANGED <<driver, id_, accepted, attempts, unsolicited, due, requests, strayed>>
  BY DEF Timeout
<1>2. timed = FALSE
  BY <1>1 DEF StreamInv, TypeOK
<1>3. Moved(wire)
  BY <1>1, CurrentTyped, GoesOnMoves
<1>4. wire \in Seq(Byte) /\ response \in Seq(Byte)
  BY CurrentTyped
<1>5. ASSUME driver \in Marked
      PROVE  Genuine(wire, Mark(driver), Identification(driver))
  <2>1. Mark(driver) \in Seq(Byte) /\ Identification(driver) \in Seq(Byte)
    BY <1>5, MarksTyped
  <2>2. Genuine(response \o wire, Mark(driver), Identification(driver))
    BY <1>5 DEF StreamInv, StreamGenuine
  <2> QED BY <1>4, <2>1, <2>2, GenuineTaken
<1>6. ASSUME driver = "runwell", ~strayed'
      PROVE  AllSame(wire) /\ ~Contains(pending, Aside)
  <2>1. AllSame(response \o wire) /\ ~Contains(pending, Aside)
    BY <1>1, <1>6 DEF StreamInv, RunwellStream
  <2> QED BY <1>4, <2>1, AllSameParts
<1>7. ~timed' /\ id_' \in Seq(Byte) /\ attempts' \in 0..MaxAttempts
      /\ unsolicited' \in 0..MaxUnsolicited /\ strayed' \in BOOLEAN
  BY <1>1, <1>2, <1>3, CurrentTyped DEF Moved
<1>8. StreamInv'
  BY <1>1, <1>3, <1>4, <1>5, <1>6, <1>7, MovedKeeps
<1> QED BY <1>1, <1>8 DEF IdInv

(* What has been sent is genuine with what is sent now.                    *)
LEMMA SentKeeps ==
  ASSUME NEW a \in Seq(Byte), NEW b \in Seq(Byte), NEW bytes \in Seq(Byte),
         driver \in Marked, Clean(driver, bytes),
         Genuine(a \o b, Mark(driver), Identification(driver))
  PROVE  Genuine(a \o (b \o bytes), Mark(driver), Identification(driver))
<1> DEFINE mark == Mark(driver)
           right == Identification(driver)
           ab == a \o b
<1>1. mark \in Seq(Byte) /\ right \in Seq(Byte) /\ Len(mark) > 0
  BY MarksTyped
<1>2. Genuine(bytes, mark, right) /\ \A j \in 2..Len(mark) : mark[j] # bytes[1]
  BY DEF Clean
<1>3. ab \in Seq(Byte) /\ Genuine(ab, mark, right)
  BY Concat
<1>4. a \o (b \o bytes) = ab \o bytes
  BY Associative
<1> HIDE DEF mark, right, ab
<1>5. Genuine(ab \o bytes, mark, right)
  BY <1>1, <1>2, <1>3, GenuineAppended
<1> QED BY <1>4, <1>5 DEF mark, right

(* The first one of a queue is taken.                                      *)
LEMMA TailIs ==
  ASSUME NEW S, NEW q \in Seq(S), q # <<>>
  PROVE  /\ Head(q) \in S /\ Tail(q) \in Seq(S)
         /\ ~Contains(q, Aside) => Head(q) # Aside /\ ~Contains(Tail(q), Aside)
<1>1. Len(q) \in Nat /\ Len(q) > 0 /\ Head(q) = q[1] /\ q[1] \in S
  OBVIOUS
<1>2. /\ Tail(q) \in Seq(S) /\ Len(Tail(q)) = Len(q) - 1
      /\ \A i \in 1..Len(Tail(q)) : Tail(q)[i] = q[i + 1]
  OBVIOUS
<1> DEFINE t == Tail(q)
<1> HIDE DEF t
<1>3. \A i \in 1..Len(t) : i + 1 \in 1..Len(q) /\ t[i] = q[i + 1]
  BY <1>1, <1>2 DEF t
<1>4. 1 \in 1..Len(q)
  BY <1>1
<1> QED BY <1>1, <1>2, <1>3, <1>4 DEF Contains, t

(* One more is appended.                                                   *)
LEMMA AppendTyped ==
  ASSUME NEW S, NEW q \in Seq(S), NEW e \in S
  PROVE  Append(q, e) \in Seq(S)
  OBVIOUS

(* What an MTi-G-710 sends when it wakes up is clean.                      *)
LEMMA WakeupClean == \A type \in XsensDrivers : Clean(type, Wakeup)
<1>1. 62 \in Int /\ 2 <= 62 /\ 62 <= 249
  OBVIOUS
<1> QED BY <1>1, XsensClean, SomePayloads DEF Wakeup

(* So is its configuration, for each driver.                               *)
LEMMA AsideClean == \A type \in Marked : Clean(type, AsideReply(type))
<1> SUFFICES ASSUME NEW type \in Marked PROVE Clean(type, AsideReply(type))
  OBVIOUS
<1> DEFINE p == XsensPacket(13, <<0>>)
<1>1. AsideReply(type) = p
  BY DriversApart DEF AsideReply, Marked
<1>2. CASE type \in XsensDrivers
  <2>1. 13 \in Int /\ 2 <= 13 /\ 13 <= 249
    OBVIOUS
  <2> QED BY <1>1, <1>2, <2>1, XsensClean, SomePayloads
<1>3. CASE type \in UbloxDrivers
  <2> DEFINE h == UbloxHead(39, 3)
             s == <<0>>
  <2>1. 39 \in Byte /\ 3 \in Byte /\ 13 \in Byte /\ 0 \in Byte /\ 1 \in Byte
    BY ByteIs
  <2>2. Mark(type) = h
    BY <1>3, DriversApart DEF Mark, UbloxHead
  <2>3. /\ h \in Seq(Byte) /\ Len(h) = 4
        /\ h[1] = 181 /\ h[2] = 98 /\ h[3] = 39 /\ h[4] = 3
    BY <2>1, UbloxHeadIs
  <2>4. s \in Seq(Byte) /\ Len(s) = 1
    BY <2>1
  <2> HIDE DEF h, s
  <2>5. /\ XsensPacket(13, s) \in Seq(Byte)
        /\ Len(XsensPacket(13, s)) = 5 + Len(s)
        /\ XsensPacket(13, s)[1] = 250 /\ XsensPacket(13, s)[2] = 255
        /\ XsensPacket(13, s)[3] = 13
    <3>1. s \in Seq(Byte) /\ Len(s) \in Byte /\ 13 \in Byte
      BY <2>1, <2>4
    <3> QED BY ONLY <3>1, XsensPacketIs
  <2>6. /\ p \in Seq(Byte) /\ Len(p) = 5 + Len(s)
        /\ p[1] = 250 /\ p[2] = 255 /\ p[3] = 13
    BY <2>5 DEF s
  <2> HIDE DEF p
  <2>7. Len(p) = 6
    BY <2>4, <2>6
  <2>8. \A j \in 2..Len(h) : h[j] # p[1]
    <3>1. \A j \in 2..Len(h) : j = 2 \/ j = 3 \/ j = 4
      BY <2>3
    <3> QED BY <2>3, <2>6, <3>1
  <2>9. \A i \in 0..Len(p) : ~Occurs(p, h, i)
    <3> SUFFICES ASSUME NEW i \in 0..Len(p), Occurs(p, h, i) PROVE FALSE
      OBVIOUS
    <3>1. i + 4 <= 6 /\ 1 \in 1..Len(h)
      BY <2>3, <2>7 DEF Occurs
    <3>2. p[i + 1] = 181
      BY <2>3, <3>1 DEF Occurs
    <3>3. i = 0 \/ i = 1 \/ i = 2
      BY <2>7, <3>1
    <3> QED BY <2>6, <3>2, <3>3
  <2> QED BY <1>1, <2>2, <2>6, <2>7, <2>8, <2>9 DEF Clean, Genuine
<1> QED BY <1>2, <1>3 DEF Marked

(* The measurements carry no first byte of a packet.                       *)
LEMMA MeasurementPayload ==
  ASSUME NEW payload \in Measurements
  PROVE  XsensPayload(payload) /\ UbloxPayload(payload)
<1>1. /\ payload \in Seq(Byte) /\ Len(payload) <= 180
      /\ \A i \in DOMAIN payload : payload[i] \notin {XsensPreamble[1], UbloxPreamble[1]}
      /\ XsensPreamble[1] = 250 /\ UbloxPreamble[1] = 181
  BY InitialisationAssumption
<1>2. Len(payload) \in Int /\ 0 <= Len(payload) /\ DOMAIN payload = 1..Len(payload)
  BY <1>1
<1>3. \A i \in 1..Len(payload) : payload[i] # 250 /\ payload[i] # 181
  BY <1>1, <1>2
<1> QED BY <1>1, <1>2, <1>3 DEF XsensPayload, UbloxPayload

(* So they are clean as well.                                              *)
LEMMA MeasurementClean ==
  ASSUME driver \in Marked, NEW payload \in Measurements
  PROVE  Clean(driver, Measurement(payload))
<1>1. CASE driver \in XsensDrivers
  <2>1. 54 \in Int /\ 2 <= 54 /\ 54 <= 249
    OBVIOUS
  <2> QED BY <1>1, <2>1, XsensClean, MeasurementPayload DEF Measurement
<1>2. CASE driver \in UbloxDrivers
  <2>1. 1 \in Int /\ 0 <= 1 /\ 1 <= 100 /\ 7 \in Int /\ 0 <= 7 /\ 7 <= 100 /\ 1 # 39
    OBVIOUS
  <2>2. Measurement(payload) = UbloxPacket(1, 7, payload)
    BY <1>2, DriversApart DEF Measurement
  <2> QED BY <1>2, <2>1, <2>2, UbloxClean, MeasurementPayload
<1> QED BY <1>1, <1>2 DEF Marked

(* The first command begins.                                               *)
LEMMA FirstKeeps ==
  ASSUME StreamInv, NEW rest \in Seq(Byte), Begin(1), wire' = rest,
         UNCHANGED <<driver, id_, unsolicited, due, requests>>,
         attempts' \in 0..MaxAttempts, strayed' \in BOOLEAN,
         driver \in Marked => Genuine(rest, Mark(driver), Identification(driver)),
         driver = "runwell" /\ ~strayed' => AllSame(rest) /\ ~Contains(pending, Aside)
  PROVE  StreamInv'
<1>1. 1 \in DOMAIN Program[driver]
  <2>1. driver \in AllDrivers
    BY CurrentTyped
  <2> QED BY <2>1, ProgramLength
<1>2. Moved(rest) /\ ~timed'
  BY <1>1, BeginMoves
<1> QED BY <1>2, CurrentTyped, MovedKeeps

(* What there is to read of a device whose command is not under way, or    *)
(* whatever has been read of it.                                           *)
LEMMA WireGenuine ==
  ASSUME StreamInv, driver \in Marked
  PROVE  Genuine(wire, Mark(driver), Identification(driver))
<1>1. Mark(driver) \in Seq(Byte) /\ Identification(driver) \in Seq(Byte)
  BY MarksTyped
<1>2. Genuine(response \o wire, Mark(driver), Identification(driver))
  BY DEF StreamInv, StreamGenuine
<1> QED BY <1>1, <1>2, CurrentTyped, GenuineTaken

(* Nothing has been read.                                                  *)
LEMMA NothingRead ==
  ASSUME StreamInv, phase' # "command", response' = <<>>, wire' \in Seq(Byte),
         driver' = driver,
         driver \in Marked => Genuine(wire', Mark(driver), Identification(driver))
  PROVE  StreamGenuine' /\ RunwellStream' /\ FoundSoFar'
<1>1. response' \o wire' = wire'
  BY ConcatEmptySeq
<1>2. StreamGenuine'
  BY <1>1 DEF StreamGenuine
<1> QED BY <1>2 DEF RunwellStream, FoundSoFar

(* The beginning of an initialisation.                                     *)
LEMMA ConnectKeeps ==
  ASSUME StreamInv, IdInv, Connect
  PROVE  StreamInv' /\ IdInv'
<1>1. /\ phase = "closed" /\ wire = <<>> /\ response = <<>>
      /\ attempts' \in 0..MaxAttempts /\ attempts < MaxAttempts
      /\ UNCHANGED <<driver, id_, unsolicited, due, requests>>
  <2>1. attempts \in 0..MaxAttempts /\ attempts' = attempts + 1 /\ attempts < MaxAttempts
    BY CurrentTyped DEF Connect
  <2>2. attempts' \in 0..MaxAttempts
    BY ONLY <2>1, InitialisationAssumption
  <2> QED BY <2>1, <2>2 DEF Connect, StreamInv, IdleIsEmpty
<1>2. /\ strayed' = (strayed \/ (driver = "runwell" /\ Contains(pending, Aside)))
      /\ strayed' \in BOOLEAN
  BY DEF Connect
<1>3. IdInv'
  BY <1>1, <1>2 DEF IdInv
<1>4. CASE driver = "mti_g_710"
  <2>1. /\ phase' = "wakeup" /\ timed' /\ wire' \in {<<>>, Wakeup}
        /\ UNCHANGED <<pending, waits, at, response, response_found, expected_len, asked>>
    BY <1>4 DEF Connect, command_vars
  <2>2. driver \in XsensDrivers
    BY <1>4 DEF XsensDrivers
  <2>3. Clean(driver, Wakeup)
    BY <2>2, WakeupClean
  <2>4. /\ wire' \in Seq(Byte)
        /\ Genuine(wire', Mark(driver), Identification(driver))
    BY <1>1, <2>1, <2>2, <2>3, CurrentTyped, WireGenuine DEF Clean, Marked
  <2>5. TypeOK'
    BY <1>1, <1>2, <2>1, <2>4 DEF StreamInv, TypeOK
  <2>6. AskedIsAsk' /\ RequestsBounded' /\ IdleIsEmpty' /\ RunwellAsks'
    BY <1>1, <1>4, <2>1 DEF StreamInv, AskedIsAsk, RequestsBounded, IdleIsEmpty,
                            RunwellAsks, Current
  <2>7. StreamGenuine' /\ RunwellStream' /\ FoundSoFar'
    BY <1>1, <2>1, <2>4, NothingRead
  <2> QED BY <1>3, <2>5, <2>6, <2>7 DEF StreamInv
<1>5. CASE driver # "mti_g_710"
  <2>1. Begin(1) /\ wire' = wire
    BY <1>5 DEF Connect
  <2>2. AllSame(wire)
    BY <1>1 DEF AllSame
  <2>3. StreamInv'
    BY <1>1, <1>2, <2>1, <2>2, CurrentTyped, WireGenuine, FirstKeeps
  <2> QED BY <1>3, <2>3
<1> QED BY <1>4, <1>5

(* The first read of an MTi-G-710.                                         *)
LEMMA ReadWakeupKeeps ==
  ASSUME StreamInv, IdInv, ReadWakeup
  PROVE  StreamInv' /\ IdInv'
<1>1. PICK n \in 1..Len(wire) :
        \/ /\ phase' = "configuration" /\ timed' \in BOOLEAN
           /\ wire' = Rest(n)
           /\ pending' = Append(pending, Aside)
           /\ UNCHANGED <<waits, command_vars>>
        \/ Begin(1) /\ wire' = Rest(n)
  BY DEF ReadWakeup, Rest
<1>2. /\ phase = "wakeup" /\ response = <<>> /\ driver # "runwell"
      /\ UNCHANGED <<driver, id_, accepted, attempts, unsolicited, due, requests, strayed>>
  BY DEF ReadWakeup, StreamInv, IdleIsEmpty, RunwellAsks
<1>3. /\ Rest(n) \in Seq(Byte)
      /\ driver \in Marked => Genuine(Rest(n), Mark(driver), Identification(driver))
  BY Taken
<1>4. IdInv'
  BY <1>2 DEF IdInv
<1>5. CASE Begin(1) /\ wire' = Rest(n)
  <2>1. StreamInv'
    BY <1>2, <1>3, <1>5, CurrentTyped, FirstKeeps
  <2> QED BY <1>4, <2>1
<1>6. CASE /\ phase' = "configuration" /\ timed' \in BOOLEAN
           /\ wire' = Rest(n)
           /\ pending' = Append(pending, Aside)
           /\ UNCHANGED <<waits, command_vars>>
  <2>1. UNCHANGED <<waits, at, response, response_found, expected_len, asked>>
    BY <1>6 DEF command_vars
  <2>2. pending' \in Seq(DOMAIN Program[driver] \cup {Aside})
    BY <1>6, CurrentTyped, AppendTyped
  <2>3. TypeOK'
    BY <1>2, <1>3, <1>6, <2>1, <2>2 DEF StreamInv, TypeOK
  <2>4. AskedIsAsk' /\ RequestsBounded' /\ IdleIsEmpty' /\ RunwellAsks'
    BY <1>2, <1>6, <2>1 DEF StreamInv, AskedIsAsk, RequestsBounded, IdleIsEmpty,
                            RunwellAsks, Current
  <2>5. StreamGenuine' /\ RunwellStream' /\ FoundSoFar'
    BY <1>2, <1>3, <1>6, <2>1, NothingRead
  <2> QED BY <1>4, <2>3, <2>4, <2>5 DEF StreamInv
<1> QED BY <1>1, <1>5, <1>6

(* A timeout while the acknowledgement is written.                         *)
LEMMA WakeupAckCancelledKeeps ==
  ASSUME StreamInv, IdInv, WakeupAckCancelled
  PROVE  StreamInv' /\ IdInv'
<1>1. /\ phase = "wakeup" /\ response = <<>> /\ driver # "runwell"
      /\ phase' = "closed" /\ timed' = FALSE /\ wire' = <<>>
      /\ pending' \in {pending, Append(pending, Aside)}
      /\ UNCHANGED <<driver, id_, attempts, unsolicited, at, response,
                     response_found, expected_len, asked, waits, due, requests, strayed>>
  BY DEF WakeupAckCancelled, StreamInv, IdleIsEmpty, RunwellAsks, command_vars,
         request_vars
<1>2. pending' \in Seq(DOMAIN Program[driver] \cup {Aside})
  BY <1>1, CurrentTyped, AppendTyped
<1>3. /\ wire' \in Seq(Byte)
      /\ driver \in Marked => Genuine(wire', Mark(driver), Identification(driver))
  <2>1. wire' \in Seq(Byte)
    BY <1>1
  <2>2. ASSUME driver \in Marked
        PROVE  Genuine(<<>>, Mark(driver), Identification(driver))
    <3> DEFINE mark == Mark(driver)
    <3>1. Len(mark) \in Nat /\ Len(mark) > 0
      BY <2>2, MarksTyped
    <3> HIDE DEF mark
    <3>2. \A i \in 0..Len(<<>>) : ~(i + Len(mark) <= Len(<<>>))
      BY <3>1
    <3> QED BY <3>2 DEF Genuine, Occurs, mark
  <2> QED BY <1>1, <2>1, <2>2
<1>4. TypeOK'
  BY <1>1, <1>2, <1>3 DEF StreamInv, TypeOK
<1>5. AskedIsAsk' /\ RequestsBounded' /\ IdleIsEmpty' /\ RunwellAsks'
  BY <1>1 DEF StreamInv, AskedIsAsk, RequestsBounded, IdleIsEmpty, RunwellAsks, Current
<1>6. StreamGenuine' /\ RunwellStream' /\ FoundSoFar'
  BY <1>1, <1>3, NothingRead
<1>7. IdInv'
  BY <1>1 DEF IdInv
<1> QED BY <1>4, <1>5, <1>6, <1>7 DEF StreamInv

(* The second read, and a timeout of either.                               *)
LEMMA LookedForWakeupKeeps ==
  ASSUME StreamInv, IdInv, ReadConfiguration \/ WakeupTimeout
  PROVE  StreamInv' /\ IdInv'
<1>1. /\ driver # "runwell"
      /\ UNCHANGED <<driver, id_, attempts, unsolicited, due, requests, strayed>>
  BY DEF ReadConfiguration, WakeupTimeout, StreamInv, RunwellAsks
<1>2. ASSUME ReadConfiguration PROVE StreamInv'
  <2>1. PICK n \in 1..Len(wire) : Begin(1) /\ wire' = Rest(n)
    BY <1>2 DEF ReadConfiguration, Rest
  <2>2. /\ Rest(n) \in Seq(Byte)
        /\ driver \in Marked => Genuine(Rest(n), Mark(driver), Identification(driver))
    BY Taken
  <2> QED BY <1>1, <2>1, <2>2, CurrentTyped, FirstKeeps
<1>3. ASSUME WakeupTimeout PROVE StreamInv'
  <2>1. Begin(1) /\ wire' = wire
    BY <1>3 DEF WakeupTimeout
  <2> QED BY <1>1, <2>1, CurrentTyped, WireGenuine, FirstKeeps
<1>4. StreamInv'
  BY <1>2, <1>3
<1>5. IdInv'
  BY <1>1 DEF IdInv
<1> QED BY <1>4, <1>5

(* The end of a connection, and the timer of the requests.                 *)
LEMMA IdleKeeps ==
  ASSUME StreamInv, IdInv, Disconnect \/ RequestDue
  PROVE  StreamInv' /\ IdInv'
<1>1. UNCHANGED <<driver, timed, id_, wire, pending, attempts, unsolicited, requests,
                  strayed, at, response, response_found, expected_len, asked>>
  BY DEF Disconnect, RequestDue, command_vars
<1>2. IdInv'
  BY <1>1 DEF IdInv
<1>3. TypeOK'
  <2>1. CASE Disconnect
    BY <1>1, <2>1 DEF Disconnect, StreamInv, TypeOK
  <2>2. CASE RequestDue
    BY <1>1, <2>2 DEF RequestDue, StreamInv, TypeOK
  <2> QED BY <2>1, <2>2
<1>4. RequestsBounded'
  <2>1. /\ requests \in Nat /\ due \in Nat /\ MaxRequests \in Nat
        /\ requests + due <= MaxRequests
    BY RequestsTyped
  <2>2. due' = due \/ (due' = due + 1 /\ requests + due < MaxRequests)
    BY DEF Disconnect, RequestDue
  <2>3. requests' = requests
    BY <1>1
  <2>4. requests' + due' <= MaxRequests
    BY ONLY <2>1, <2>2, <2>3
  <2> QED BY <2>4 DEF RequestsBounded
<1>5. phase' = phase \/ (phase = "initialised" /\ phase' = "closed")
  BY DEF Disconnect, RequestDue
<1>6. AskedIsAsk' /\ IdleIsEmpty' /\ RunwellAsks'
  BY <1>1, <1>5 DEF StreamInv, AskedIsAsk, IdleIsEmpty, RunwellAsks, Current
<1>7. StreamGenuine' /\ RunwellStream' /\ FoundSoFar'
  BY <1>1, <1>5 DEF StreamInv, StreamGenuine, RunwellStream, FoundSoFar, Current
<1> QED BY <1>2, <1>3, <1>4, <1>6, <1>7 DEF StreamInv

(* A request for data, in the middle of an initialisation or not.          *)
LEMMA RequestDataKeeps ==
  ASSUME StreamInv, IdInv, RequestData
  PROVE  StreamInv' /\ IdInv'
<1>1. /\ due > 0 /\ due' = due - 1 /\ requests' = requests + 1 /\ waits' \in {0, 1}
      /\ pending' \in {pending, Append(pending, Aside)}
      /\ strayed' = (strayed \/ phase = "command")
      /\ UNCHANGED <<driver, phase, timed, id_, wire, attempts, unsolicited,
                     at, response, response_found, expected_len, asked>>
  BY DEF RequestData, SetRequest, command_vars
<1>2. pending' \in Seq(DOMAIN Program[driver] \cup {Aside})
  BY <1>1, CurrentTyped, AppendTyped
<1>3. requests' \in 0..MaxRequests /\ due' \in Nat /\ RequestsBounded'
  <2>1. /\ requests \in Nat /\ due \in Nat /\ MaxRequests \in Nat
        /\ requests + due <= MaxRequests
    BY RequestsTyped
  <2>2. due > 0 /\ due' = due - 1 /\ requests' = requests + 1
    BY <1>1
  <2>3. requests' \in 0..MaxRequests /\ due' \in Nat /\ requests' + due' <= MaxRequests
    BY ONLY <2>1, <2>2
  <2> QED BY <2>3 DEF RequestsBounded
<1>4. strayed' \in BOOLEAN /\ IdInv'
  BY <1>1 DEF IdInv
<1>5. TypeOK'
  BY <1>1, <1>2, <1>3, <1>4 DEF StreamInv, TypeOK
<1>6. AskedIsAsk' /\ IdleIsEmpty' /\ RunwellAsks'
  BY <1>1 DEF StreamInv, AskedIsAsk, IdleIsEmpty, RunwellAsks, Current
<1>7. StreamGenuine' /\ RunwellStream' /\ FoundSoFar'
  BY <1>1 DEF StreamInv, StreamGenuine, RunwellStream, FoundSoFar, Current
<1> QED BY <1>3, <1>4, <1>5, <1>6, <1>7 DEF StreamInv

(* Whatever the device sends.                                              *)
LEMMA SendsKeeps ==
  ASSUME StreamInv, NEW bytes \in Seq(Byte), Sends(bytes) \/ wire' = wire,
         driver \in Marked => Clean(driver, bytes),
         driver = "runwell" /\ phase = "command" /\ ~strayed =>
           AllSame(bytes) /\ ~Contains(pending', Aside),
         pending' \in Seq(DOMAIN Program[driver] \cup {Aside}),
         unsolicited' \in 0..MaxUnsolicited,
         UNCHANGED <<driver, phase, timed, id_, attempts, command_vars, request_vars>>
  PROVE  StreamInv'
<1>1. /\ wire' = wire \/ wire' = wire \o bytes
      /\ phase \in {"closed", "initialised"} => wire' = wire
  BY DEF Sends
<1>2. UNCHANGED <<at, response, response_found, expected_len, asked, waits, due,
                  requests, strayed>>
  BY DEF command_vars, request_vars
<1>3. response \in Seq(Byte) /\ wire \in Seq(Byte)
  BY CurrentTyped
<1>4. wire \o bytes \in Seq(Byte)
  BY <1>3, Concat
<1>5. TypeOK'
  <2>1. wire' \in Seq(Byte)
    BY <1>1, <1>3, <1>4
  <2> QED BY <1>2, <2>1 DEF StreamInv, TypeOK
<1>6. AskedIsAsk' /\ RequestsBounded' /\ RunwellAsks' /\ FoundSoFar'
  BY <1>2 DEF StreamInv, AskedIsAsk, RequestsBounded, RunwellAsks, FoundSoFar, Current
<1>7. IdleIsEmpty'
  BY <1>1, <1>2 DEF StreamInv, IdleIsEmpty
<1>8. StreamGenuine'
  <2> SUFFICES ASSUME driver \in Marked
               PROVE  Genuine(response \o wire', Mark(driver), Identification(driver))
    BY <1>2 DEF StreamGenuine
  <2>1. Genuine(response \o wire, Mark(driver), Identification(driver))
    BY DEF StreamInv, StreamGenuine
  <2>2. Genuine(response \o (wire \o bytes), Mark(driver), Identification(driver))
    BY <1>3, <2>1, SentKeeps
  <2> QED BY <1>1, <2>1, <2>2
<1>9. RunwellStream'
  <2> SUFFICES ASSUME driver = "runwell", phase = "command", ~strayed
               PROVE  AllSame(response \o wire') /\ ~Contains(pending', Aside)
    BY <1>2 DEF RunwellStream
  <2>1. AllSame(response \o wire)
    BY DEF StreamInv, RunwellStream
  <2>2. AllSame(response) /\ AllSame(wire) /\ AllSame(bytes)
    BY <1>3, <2>1, AllSameParts
  <2>3. AllSame(wire \o bytes)
    BY <1>3, <2>2, AllSameParts
  <2>4. AllSame(response \o (wire \o bytes))
    BY <1>3, <1>4, <2>2, <2>3, AllSameParts
  <2> QED BY <1>1, <2>1, <2>4
<1> QED BY <1>5, <1>6, <1>7, <1>8, <1>9 DEF StreamInv

(* A command is dealt with, or what is sent aside.                         *)
LEMMA AnswerKeeps ==
  ASSUME StreamInv, IdInv, Answer
  PROVE  StreamInv' /\ IdInv'
<1> DEFINE S == DOMAIN Program[driver] \cup {Aside}
<1>1. /\ pending \in Seq(S) /\ pending # <<>> /\ pending' = Tail(pending)
      /\ UNCHANGED <<driver, phase, timed, id_, attempts, unsolicited, command_vars,
                     request_vars>>
  BY CurrentTyped DEF Answer
<1>2. unsolicited' \in 0..MaxUnsolicited /\ IdInv'
  BY <1>1, CurrentTyped DEF IdInv, request_vars
<1> HIDE DEF S
<1>3. /\ Head(pending) \in S /\ pending' \in Seq(S)
      /\ ~Contains(pending, Aside) => Head(pending) # Aside /\ ~Contains(pending', Aside)
  BY <1>1, TailIs
<1> USE DEF S
<1>4. driver = "runwell" /\ phase = "command" /\ ~strayed =>
        Head(pending) # Aside /\ ~Contains(pending', Aside)
  BY <1>3 DEF StreamInv, RunwellStream
<1>5. ASSUME NEW bytes \in Seq(Byte), Sends(bytes) \/ wire' = wire,
             driver \in Marked => Clean(driver, bytes),
             driver = "runwell" /\ phase = "command" /\ ~strayed => AllSame(bytes)
      PROVE  StreamInv'
  BY <1>1, <1>2, <1>3, <1>4, <1>5, SendsKeeps
<1>6. CASE wire' = wire
  <2> DEFINE some == IF driver \in Marked THEN AsideReply(driver) ELSE <<>>
  <2>2. some \in Seq(Byte) /\ (driver \in Marked => Clean(driver, some))
    BY AsideClean DEF Clean
  <2>3. driver = "runwell" => AllSame(some)
    BY DriversApart DEF AllSame, Marked
  <2> HIDE DEF some
  <2>4. StreamInv'
    BY <1>5, <1>6, <2>2, <2>3
  <2> QED BY <1>2, <2>4
<1>7. CASE Head(pending) = Aside /\ Sends(AsideReply(driver))
  <2>1. AsideReply(driver) \in Seq(Byte)
    <3>1. CASE driver \in Marked
      BY <3>1, AsideClean DEF Clean
    <3>2. CASE driver = "runwell"
      <4>1. 49 \in Byte
        BY ByteIs
      <4> DEFINE line == [i \in 1..18 |-> 49]
      <4>2. line \in [1..18 -> Byte]
        BY <4>1
      <4>3. line \in Seq(Byte)
        BY <4>2
      <4> QED BY <3>2, <4>3 DEF AsideReply
    <3> QED BY <3>1, <3>2, CurrentTyped DEF AllDrivers, Marked
  <2>2. driver \in Marked => Clean(driver, AsideReply(driver))
    BY AsideClean
  <2>3. StreamInv'
    BY <1>4, <1>5, <1>7, <2>1, <2>2
  <2> QED BY <1>2, <2>3
<1>8. CASE Head(pending) # Aside
  <2> DEFINE command == Program[driver][Head(pending)]
  <2>1. Head(pending) \in DOMAIN Program[driver]
    BY <1>3, <1>8
  <2>2. CommandTyped(command)
    BY <2>1, CurrentTyped, CommandsTyped
  <2>3. driver \in Marked => CommandOf(driver, command)
    BY <2>1, MarkedCommands
  <2>4. ASSUME driver = "runwell"
        PROVE  AllSame(command.accept) /\ command.refuse = {}
    <3>1. Head(pending) = 1 \/ Head(pending) = 2
      <4>1. DOMAIN Program["runwell"] = 1..Len(Program["runwell"])
        BY ProgramLength DEF AllDrivers
      <4>2. Len(Program["runwell"]) = 2
        BY RunwellProgramIs
      <4> QED BY <2>1, <2>4, <4>1, <4>2
    <3> DEFINE p == Program["runwell"]
    <3>2. AllSame(p[1].accept) /\ AllSame(p[2].accept)
      <4>1. AllSame([i \in 1..17 |-> 48]) /\ AllSame([i \in 1..48 |-> 48])
        BY DEF AllSame
      <4>2. p[1].accept = [i \in 1..17 |-> 48] /\ p[2].accept = [i \in 1..48 |-> 48]
        BY RunwellProgramIs
      <4> HIDE DEF p
      <4> QED BY ONLY <4>1, <4>2, Zenon
    <3>3. p[1].refuse = {} /\ p[2].refuse = {}
      BY RunwellProgramIs
    <3>4. command = p[Head(pending)]
      BY <2>4
    <3> HIDE DEF p, command
    <3> QED BY ONLY <3>1, <3>2, <3>3, <3>4
  <2>5. \/ Sends(command.accept)
        \/ \E bytes \in command.refuse : Sends(bytes)
        \/ wire' = wire
    BY <1>8 DEF Answer
  <2> HIDE DEF command
  <2>6. CASE Sends(command.accept)
    <3>1. command.accept \in Seq(Byte)
      BY <2>2 DEF CommandTyped
    <3>2. driver \in Marked => Clean(driver, command.accept)
      BY <2>3 DEF CommandOf
    <3>3. StreamInv'
      BY <1>5, <2>4, <2>6, <3>1, <3>2
    <3> QED BY <1>2, <3>3
  <2>7. ASSUME NEW bytes \in command.refuse, Sends(bytes)
        PROVE  StreamInv'
    <3>1. bytes \in Seq(Byte)
      BY <2>2 DEF CommandTyped
    <3>2. driver \in Marked => Clean(driver, bytes)
      BY <2>3 DEF CommandOf
    <3>3. driver # "runwell"
      BY <2>4
    <3> QED BY <1>5, <2>7, <3>1, <3>2, <3>3
  <2> QED BY <1>2, <1>6, <2>5, <2>6, <2>7
<1> QED BY <1>6, <1>7, <1>8 DEF Answer

(* A packet that nobody asked for.                                         *)
LEMMA UnsolicitedKeeps ==
  ASSUME StreamInv, IdInv, Unsolicited
  PROVE  StreamInv' /\ IdInv'
<1>0. PICK payload \in Measurements : Sends(Measurement(payload))
  BY DEF Unsolicited
<1> DEFINE packet == Measurement(payload)
<1>1. /\ driver # "runwell" /\ Sends(packet) /\ unsolicited < MaxUnsolicited
      /\ unsolicited' = unsolicited + 1
      /\ UNCHANGED <<driver, phase, timed, id_, pending, attempts, command_vars,
                     request_vars>>
  BY <1>0 DEF Unsolicited
<1>2. driver \in Marked
  BY <1>1, CurrentTyped DEF AllDrivers, Marked
<1>3. Clean(driver, packet) /\ packet \in Seq(Byte)
  BY <1>2, MeasurementClean DEF Clean
<1> HIDE DEF packet
<1>4. unsolicited' \in 0..MaxUnsolicited
  <2>1. unsolicited \in 0..MaxUnsolicited /\ MaxUnsolicited \in Nat
    BY CurrentTyped, InitialisationAssumption
  <2> QED BY ONLY <1>1, <2>1
<1>5. pending' \in Seq(DOMAIN Program[driver] \cup {Aside})
  BY <1>1, CurrentTyped
<1>6. StreamInv'
  BY <1>1, <1>3, <1>4, <1>5, SendsKeeps
<1>7. IdInv'
  BY <1>1 DEF IdInv, request_vars
<1> QED BY <1>6, <1>7

-----------------------------------------------------------------------------
(* The theorems.                                                           *)

(* At the beginning.                                                       *)
LEMMA InitHolds ==
  ASSUME Init PROVE StreamInv /\ IdInv
<1>1. driver \in AllDrivers
  BY InitialisationAssumption DEF Init
<1>2. 1 \in DOMAIN Program[driver]
  BY <1>1, ProgramLength
<1>3. /\ driver \in Drivers /\ phase = "closed" /\ timed = FALSE
      /\ at = 1 /\ response = <<>> /\ response_found = -1
      /\ expected_len = 0 /\ asked = <<>> /\ id_ = NoId
      /\ wire = <<>> /\ pending = <<>> /\ attempts = 0 /\ unsolicited = 0
      /\ waits = 0 /\ due = 0 /\ requests = 0 /\ strayed = FALSE
  BY DEF Init
<1>4. MaxAttempts \in Nat /\ MaxUnsolicited \in Nat /\ MaxRequests \in Nat
  BY InitialisationAssumption
<1>5. TypeOK
  <2>1. {response, asked, id_, wire} \subseteq Seq(Byte)
    BY <1>3 DEF NoId
  <2>2. expected_len \in 0..(Base * Base - 1)
    <3>1. Base * Base - 1 = 65535
      <4>1. Base = 256
        BY RealBytes
      <4>2. 256 * 256 - 1 = 65535
        OBVIOUS
      <4> QED BY ONLY <4>1, <4>2
    <3> QED BY ONLY <1>3, <3>1
  <2>3. pending \in Seq(DOMAIN Program[driver] \cup {Aside})
    BY <1>3
  <2>4. response_found \in -1..Len(response)
    <3>1. response_found = -1 /\ Len(response) \in Nat
      BY <1>3
    <3> QED BY ONLY <3>1
  <2>5. attempts \in 0..MaxAttempts /\ unsolicited \in 0..MaxUnsolicited
    BY <1>3, <1>4
  <2>6. waits \in 0..1 /\ due \in Nat /\ strayed \in BOOLEAN /\ requests \in 0..MaxRequests
    <3>1. waits = 0 /\ due = 0 /\ requests = 0 /\ strayed = FALSE
      BY <1>3
    <3>2. waits \in 0..1 /\ due \in Nat /\ requests \in 0..MaxRequests
      BY ONLY <1>4, <3>1
    <3> QED BY ONLY <3>1, <3>2, Zenon
  <2>7. at \in DOMAIN Program[driver]
    BY <1>2, <1>3
  <2> QED BY <1>3, <2>1, <2>2, <2>3, <2>4, <2>5, <2>6, <2>7 DEF TypeOK
<1>6. AskedIsAsk /\ RequestsBounded /\ IdleIsEmpty /\ RunwellAsks /\ RunwellStream /\ FoundSoFar
  BY <1>3, <1>4 DEF AskedIsAsk, RequestsBounded, IdleIsEmpty, RunwellAsks,
                    RunwellStream, FoundSoFar
<1>7. StreamGenuine
  <2> SUFFICES ASSUME driver \in Marked
               PROVE  Genuine(response \o wire, Mark(driver), Identification(driver))
    BY DEF StreamGenuine
  <2>1. response \o wire = <<>>
    BY <1>3
  <2> DEFINE mark == Mark(driver)
  <2>2. Len(mark) \in Nat /\ Len(mark) > 0
    BY MarksTyped
  <2> HIDE DEF mark
  <2>3. \A i \in 0..Len(<<>>) : ~(i + Len(mark) <= Len(<<>>))
    BY <2>2
  <2> QED BY <2>1, <2>3 DEF Genuine, Occurs, mark
<1>8. IdInv
  BY <1>3 DEF IdInv
<1> QED BY <1>5, <1>6, <1>7, <1>8 DEF StreamInv

(* Every step keeps the invariant.                                         *)
LEMMA StepKeeps ==
  ASSUME StreamInv, IdInv, [Next]_vars PROVE StreamInv' /\ IdInv'
<1>1. CASE Connect
  BY <1>1, ConnectKeeps
<1>2. CASE ReadWakeup
  BY <1>2, ReadWakeupKeeps
<1>3. CASE WakeupAckCancelled
  BY <1>3, WakeupAckCancelledKeeps
<1>4. CASE ReadConfiguration \/ WakeupTimeout
  BY <1>4, LookedForWakeupKeeps
<1>5. CASE Read
  BY <1>5, ReadKeeps
<1>6. CASE Timeout
  BY <1>6, TimeoutKeeps
<1>7. CASE Disconnect \/ RequestDue
  BY <1>7, IdleKeeps
<1>8. CASE RequestData
  BY <1>8, RequestDataKeeps
<1>9. CASE Answer
  BY <1>9, AnswerKeeps
<1>10. CASE Unsolicited
  BY <1>10, UnsolicitedKeeps
<1>11. CASE UNCHANGED vars
  <2>1. UNCHANGED <<driver, phase, timed, at, response, response_found, expected_len,
                    asked, id_, wire, pending, attempts, unsolicited, waits, due,
                    requests, strayed>>
    BY <1>11 DEF vars, request_vars
  <2>2. TypeOK' /\ AskedIsAsk' /\ RequestsBounded' /\ IdleIsEmpty'
    BY <2>1 DEF StreamInv, TypeOK, AskedIsAsk, RequestsBounded, IdleIsEmpty, Current
  <2>3. StreamGenuine' /\ RunwellAsks' /\ RunwellStream' /\ FoundSoFar'
    BY <2>1 DEF StreamInv, StreamGenuine, RunwellAsks, RunwellStream, FoundSoFar, Current
  <2>4. IdInv'
    BY <2>1 DEF IdInv
  <2> QED BY <2>2, <2>3, <2>4 DEF StreamInv
<1> QED BY <1>1, <1>2, <1>3, <1>4, <1>5, <1>6, <1>7, <1>8, <1>9, <1>10, <1>11 DEF Next

(* The invariant always holds.                                             *)
LEMMA AlwaysStreamInv == Spec => [](StreamInv /\ IdInv)
<1>1. Init => StreamInv /\ IdInv
  BY InitHolds
<1>2. (StreamInv /\ IdInv) /\ [Next]_vars => (StreamInv /\ IdInv)'
  BY StepKeeps
<1> QED BY <1>1, <1>2, PTL DEF Spec

(* The state of an initialisation, of the response that is being read and  *)
(* of the requests of a Runwell is always in order (xsens.h:230-320,       *)
(* ublox.h:440-490, runwell.h:60-142): in particular, an exec_command that *)
(* has found its answer and waits for the rest has less than it waits for  *)
(* (device.h:462-480).                                                     *)
THEOREM TypeCorrect == Spec => []TypeOK
<1>1. StreamInv /\ IdInv => TypeOK
  BY DEF StreamInv
<1> QED BY <1>1, AlwaysStreamInv, PTL

(* Occurring, as a part of the bytes.                                      *)
LEMMA OccursIsPart ==
  ASSUME NEW bytes \in Seq(Byte), NEW items \in Seq(Byte), NEW i \in Nat
  PROVE  Occurs(bytes, items, i)
           <=> /\ i + Len(items) <= Len(bytes)
               /\ SubSeq(bytes, i + 1, i + Len(items)) = items
<1> DEFINE n == Len(items)
           part == SubSeq(bytes, i + 1, i + n)
<1>1. n \in Nat /\ Len(bytes) \in Nat
  OBVIOUS
<1> SUFFICES ASSUME i + n <= Len(bytes)
             PROVE  (\A j \in 1..n : bytes[i + j] = items[j]) <=> part = items
  BY DEF Occurs
<1>2. /\ part \in Seq(Byte) /\ Len(part) = ((i + n) - (i + 1)) + 1
      /\ \A j \in 1..(((i + n) - (i + 1)) + 1) : part[j] = bytes[((i + 1) + j) - 1]
  <2>1. i + 1 \in Nat /\ 1 <= i + 1 /\ i + n \in Nat /\ i + 1 <= (i + n) + 1
    BY <1>1
  <2> QED BY <2>1, PartIs
<1> HIDE DEF part, n
<1>3. Len(part) = n /\ \A j \in 1..n : part[j] = bytes[i + j]
  <2>1. ((i + n) - (i + 1)) + 1 = n
    BY <1>1
  <2>2. ASSUME NEW j \in 1..n PROVE part[j] = bytes[i + j]
    <3>1. ((i + 1) + j) - 1 = i + j
      BY <1>1
    <3> QED BY <1>2, <2>1, <3>1
  <2> QED BY <1>2, <2>1, <2>2
<1>4. ASSUME \A j \in 1..n : bytes[i + j] = items[j] PROVE part = items
  <2>1. \A j \in 1..Len(part) : part[j] = items[j]
    BY <1>3, <1>4
  <2> QED BY <1>2, <1>3, <2>1, SeqEqual DEF n
<1>5. ASSUME part = items PROVE \A j \in 1..n : bytes[i + j] = items[j]
  BY <1>3, <1>5
<1> QED BY <1>4, <1>5

(* Where an answer begins is the first place where it is, whatever has     *)
(* been read in whatever pieces, and nothing only if it is nowhere         *)
(* (tools.h:73-105).                                                       *)
LEMMA FirstIsFound ==
  ASSUME StreamInv PROVE FoundIsFirst
<1> DEFINE expected == Current.expected
           Part(i) == /\ i + Len(expected) <= Len(response)
                      /\ SubSeq(response, i + 1, i + Len(expected)) = expected
<1> SUFFICES ASSUME phase = "command"
             PROVE  IF response_found = -1
                    THEN response # <<>> => \A i \in 0..Len(response) : ~Part(i)
                    ELSE Part(response_found) /\ \A i \in 0..(response_found - 1) : ~Part(i)
  BY DEF FoundIsFirst
<1>1. response \in Seq(Byte)
  BY CurrentTyped
<1>2. expected \in Seq(Byte)
  BY CurrentTyped, CommandsTyped DEF CommandTyped, Current
<1>3. response_found = IF response = <<>> THEN -1 ELSE contains_at(response, expected)
  BY DEF StreamInv, FoundSoFar
<1> HIDE DEF expected
<1>4. \A i \in Nat : Part(i) <=> Occurs(response, expected, i)
  BY <1>1, <1>2, OccursIsPart
<1> HIDE DEF Part
<1> DEFINE found == contains_at(response, expected)
<1>5. \/ /\ found \in 0..Len(response) /\ Occurs(response, expected, found)
         /\ \A i \in 0..(found - 1) : ~Occurs(response, expected, i)
      \/ found = -1 /\ \A i \in 0..Len(response) : ~Occurs(response, expected, i)
  BY <1>1, <1>2, FirstPlaceFound
<1> HIDE DEF found
<1>6. CASE response = <<>>
  BY <1>3, <1>6
<1>7. CASE response # <<>>
  <2>1. response_found = found /\ Len(response) \in Nat
    BY <1>1, <1>3, <1>7 DEF found
  <2> QED BY <1>4, <1>5, <2>1
<1> QED BY <1>6, <1>7

(* Whatever the pieces, the timeouts, the refusals and the connections:    *)
(* the answer is searched from its first place on (tools.h:73-105).  And   *)
(* no device is known by a wrong identification (xsens.h:244-264),         *)
(* although an answer is taken before it is whole, if what a device sends  *)
(* by itself are packets of measurements in which no byte of the payload   *)
(* is one that packets begin with: for exec_command a payload that spells  *)
(* the beginning of the identification would be the identification.  A     *)
(* Runwell is left out once a request for data has strayed.                *)
THEOREM AnswersAreRight == Spec => []AnswersRight
<1>1. StreamInv /\ IdInv => AnswersRight
  BY FirstIsFound, IdInvIs, CurrentTyped DEF AnswersRight
<1> QED BY <1>1, AlwaysStreamInv, PTL

-----------------------------------------------------------------------------
(* Replies: what a command may take for its answer.                        *)

(* How packets begin, and what comes next in packets that no command waits *)
(* for (or if one packet is cut by another).                               *)
First(type) == IF type \in XsensDrivers THEN 250 ELSE 181
Second(type) == IF type \in XsensDrivers THEN 255 ELSE 98
Others(type) == IF type \in XsensDrivers THEN {13, 54, 62, 181, 250} ELSE {1, 181, 250}

ReplyAt(type, bytes, i) ==
  /\ i + 3 <= Len(bytes)
  /\ bytes[i + 1] = First(type) /\ bytes[i + 2] = Second(type)
  /\ bytes[i + 3] \notin Others(type)

NoReply(type, bytes) == \A i \in Nat : ~ReplyAt(type, bytes, i)

(* A packet is at most one reply, and only from its beginning on.          *)
AtMostOne(type, packet) ==
  /\ packet \in Seq(Byte) /\ Len(packet) > 0 /\ packet[1] \in {181, 250}
  /\ \A i \in Nat : ReplyAt(type, packet, i) => i = 0

(* What a command waits for is a reply.                                    *)
Replying(type, items) ==
  /\ items \in Seq(Byte) /\ Len(items) >= 3
  /\ items[1] = First(type) /\ items[2] = Second(type)
  /\ items[3] \notin Others(type)

(* Where it occurs, there is a reply.                                      *)
LEMMA OccursReplies ==
  ASSUME NEW type, NEW items, Replying(type, items), NEW bytes \in Seq(Byte),
         NEW i \in Nat, Occurs(bytes, items, i)
  PROVE  ReplyAt(type, bytes, i) /\ i + 3 <= i + Len(items)
<1>1. /\ Len(items) \in Nat /\ Len(items) >= 3 /\ Len(bytes) \in Nat
      /\ i + Len(items) <= Len(bytes)
      /\ \A j \in 1..Len(items) : bytes[i + j] = items[j]
  BY DEF Occurs, Replying
<1>2. 1 \in 1..Len(items) /\ 2 \in 1..Len(items) /\ 3 \in 1..Len(items)
  BY <1>1
<1>3. bytes[i + 1] = items[1] /\ bytes[i + 2] = items[2] /\ bytes[i + 3] = items[3]
  BY <1>1, <1>2
<1>4. i + 3 <= Len(bytes) /\ i + 3 <= i + Len(items)
  BY <1>1
<1> QED BY <1>3, <1>4 DEF Replying, ReplyAt

(* What was a reply before still is one when more follows, and another one *)
(* is in what follows.                                                     *)
LEMMA RepliesAppended ==
  ASSUME NEW type, NEW a \in Seq(Byte), NEW b \in Seq(Byte), Len(b) > 0,
         b[1] \in {181, 250}, NEW i \in Nat, ReplyAt(type, a \o b, i)
  PROVE  \/ ReplyAt(type, a, i)
         \/ \E k \in Nat : i = Len(a) + k /\ ReplyAt(type, b, k)
<1> DEFINE ab == a \o b
           la == Len(a)
           lb == Len(b)
<1>1. la \in Nat /\ lb \in Nat /\ lb > 0
  OBVIOUS
<1>2. /\ Len(ab) = la + lb
      /\ \A j \in 1..la : ab[j] = a[j]
      /\ \A j \in 1..lb : ab[la + j] = b[j]
  BY Concat
<1>3. /\ i + 3 <= Len(ab)
      /\ ab[i + 1] = First(type) /\ ab[i + 2] = Second(type)
      /\ ab[i + 3] \notin Others(type)
  BY DEF ReplyAt
<1> HIDE DEF ab
<1>4. CASE i + 3 <= la
  <2>1. i + 1 \in 1..la /\ i + 2 \in 1..la /\ i + 3 \in 1..la
    BY <1>1, <1>4
  <2>2. ReplyAt(type, a, i)
    BY <1>2, <1>3, <1>4, <2>1 DEF ReplyAt
  <2> QED BY <2>2
<1>5. CASE i >= la
  <2> DEFINE k == i - la
  <2>1. k \in Nat /\ i = la + k /\ k + 3 <= lb
    BY <1>1, <1>2, <1>3, <1>5
  <2>2. /\ k + 1 \in 1..lb /\ k + 2 \in 1..lb /\ k + 3 \in 1..lb
        /\ i + 1 = la + (k + 1) /\ i + 2 = la + (k + 2) /\ i + 3 = la + (k + 3)
    BY <1>1, <2>1
  <2> HIDE DEF k
  <2>a. /\ ab[la + (k + 1)] = b[k + 1] /\ ab[la + (k + 2)] = b[k + 2]
        /\ ab[la + (k + 3)] = b[k + 3]
    BY <1>2, <2>2
  <2>3. ab[i + 1] = b[k + 1] /\ ab[i + 2] = b[k + 2] /\ ab[i + 3] = b[k + 3]
    BY ONLY <2>2, <2>a
  <2>4. ReplyAt(type, b, k)
    BY <1>3, <2>1, <2>3 DEF ReplyAt
  <2> QED BY <2>1, <2>4
<1>6. CASE i < la /\ la < i + 3
  <2>1. 1 \in 1..lb
    BY <1>1
  <2>2. ab[la + 1] \in {181, 250}
    BY <1>2, <2>1
  <2>3. la + 1 = i + 2 \/ la + 1 = i + 3
    BY <1>1, <1>6
  <2>4. ab[i + 2] \in {181, 250} \/ ab[i + 3] \in {181, 250}
    BY <2>2, <2>3
  <2>5. ab[i + 2] \notin {181, 250}
    <3>1. Second(type) = 255 \/ Second(type) = 98
      BY DEF Second
    <3>2. Second(type) \notin {181, 250}
      BY ONLY <3>1
    <3> QED BY <1>3, <3>2
  <2>6. ab[i + 3] \notin {181, 250}
    <3>1. {181, 250} \subseteq Others(type)
      BY DEF Others
    <3> QED BY <1>3, <3>1
  <2> QED BY <2>4, <2>5, <2>6
<1>7. (i + 3 <= la) \/ i >= la \/ (i < la /\ la < i + 3)
  BY <1>1
<1> HIDE DEF la, lb
<1> QED BY <1>4, <1>5, <1>6, <1>7

(* What is left of bytes has replies only where they had them.             *)
LEMMA RepliesLater ==
  ASSUME NEW type, NEW a \in Seq(Byte), NEW b \in Seq(Byte),
         NEW k \in Nat, ReplyAt(type, b, k)
  PROVE  ReplyAt(type, a \o b, Len(a) + k)
<1> DEFINE ab == a \o b
           la == Len(a)
           lb == Len(b)
<1>1. la \in Nat /\ lb \in Nat
  OBVIOUS
<1>2. /\ Len(ab) = la + lb
      /\ \A j \in 1..lb : ab[la + j] = b[j]
  BY Concat
<1>3. /\ k + 3 <= lb
      /\ b[k + 1] = First(type) /\ b[k + 2] = Second(type)
      /\ b[k + 3] \notin Others(type)
  BY DEF ReplyAt
<1> HIDE DEF ab
<1>4. /\ k + 1 \in 1..lb /\ k + 2 \in 1..lb /\ k + 3 \in 1..lb
      /\ (la + k) + 1 = la + (k + 1) /\ (la + k) + 2 = la + (k + 2)
      /\ (la + k) + 3 = la + (k + 3) /\ (la + k) + 3 <= la + lb
  BY <1>1, <1>3
<1>a. /\ ab[la + (k + 1)] = b[k + 1] /\ ab[la + (k + 2)] = b[k + 2]
      /\ ab[la + (k + 3)] = b[k + 3]
  BY <1>2, <1>4
<1>5. /\ ab[(la + k) + 1] = b[k + 1] /\ ab[(la + k) + 2] = b[k + 2]
      /\ ab[(la + k) + 3] = b[k + 3]
  BY ONLY <1>4, <1>a
<1>6. ReplyAt(type, ab, la + k)
  BY <1>2, <1>3, <1>4, <1>5 DEF ReplyAt
<1> QED BY <1>6 DEF ab, la

(* An Xsens packet.                                                        *)
LEMMA XsensReplies ==
  ASSUME NEW type \in XsensDrivers, NEW mid \in Int, 0 <= mid, mid <= 249,
         NEW payload, XsensPayload(payload)
  PROVE  LET p == XsensPacket(mid, payload)
         IN  /\ AtMostOne(type, p)
             /\ mid \in {13, 54, 62} => NoReply(type, p)
             /\ mid \notin {13, 54, 62, 181} => Replying(type, p)
<1> DEFINE p == XsensPacket(mid, payload)
           l == Len(payload)
<1>1. mid \in Byte /\ mid # 250
  <2>1. mid \in Int /\ 0 <= mid /\ mid <= 255 /\ mid # 250
    BY ONLY mid \in Int, 0 <= mid, mid <= 249
  <2> QED BY ONLY <2>1, ByteIs
<1>2. payload \in Seq(Byte) /\ l \in Int /\ 0 <= l /\ l <= 180
      /\ \A j \in 1..l : payload[j] # 250
  BY DEF XsensPayload
<1>3. l \in Byte /\ l # 250
  <2> HIDE DEF l
  <2>1. l \in Int /\ 0 <= l /\ l <= 255 /\ l # 250
    BY ONLY <1>2
  <2> QED BY ONLY <2>1, ByteIs
<1>a. payload \in Seq(Byte)
  BY <1>2
<1>4. /\ p \in Seq(Byte) /\ Len(p) = 5 + l
      /\ p[1] = 250 /\ p[2] = 255 /\ p[3] = mid /\ p[4] = l
      /\ \A j \in 1..l : p[4 + j] = payload[j]
  BY ONLY <1>1, <1>3, <1>a, XsensPacketIs
<1>5. First(type) = 250 /\ Second(type) = 255 /\ Others(type) = {13, 54, 62, 181, 250}
  BY DEF First, Second, Others
<1> HIDE DEF p, l
<1>6. ASSUME NEW i \in Nat, ReplyAt(type, p, i)
      PROVE  i = 0 /\ mid \notin {13, 54, 62}
  <2>1. i + 3 <= Len(p) /\ p[i + 1] = 250 /\ p[i + 3] \notin {13, 54, 62, 181, 250}
    BY <1>5, <1>6 DEF ReplyAt
  <2>2. i + 3 <= 5 + l
    BY ONLY <1>4, <2>1
  <2>3. CASE i = 0
    <3>1. p[0 + 3] = mid
      BY <1>4
    <3> QED BY <2>1, <2>3, <3>1
  <2>4. CASE i = 1
    <3>1. p[1 + 1] = 255
      BY <1>4
    <3> QED BY <2>1, <2>4, <3>1
  <2>5. CASE i = 2
    <3>1. p[2 + 1] = mid
      BY <1>4
    <3> QED BY <1>1, <2>1, <2>5, <3>1
  <2>6. CASE i = 3
    <3>1. p[3 + 1] = l
      BY <1>4
    <3> QED BY <1>3, <2>1, <2>6, <3>1
  <2>7. CASE i >= 4
    <3> DEFINE j == i - 3
    <3>1. j \in 1..l /\ i + 1 = 4 + j
      BY <1>2, <2>2, <2>7
    <3> HIDE DEF j
    <3>2. payload[j] = 250
      BY <1>4, <2>1, <3>1
    <3> QED BY <1>2, <3>1, <3>2
  <2>8. i = 0 \/ i = 1 \/ i = 2 \/ i = 3 \/ i >= 4
    BY ONLY i \in Nat
  <2> QED BY <2>3, <2>4, <2>5, <2>6, <2>7, <2>8
<1>7. Len(p) > 0 /\ Len(p) >= 3
  BY ONLY <1>2, <1>4
<1>8. AtMostOne(type, p)
  BY <1>4, <1>6, <1>7 DEF AtMostOne
<1>9. mid \in {13, 54, 62} => NoReply(type, p)
  BY <1>6 DEF NoReply
<1>10. mid \notin {13, 54, 62, 181} => Replying(type, p)
  <2>1. p[3] = mid /\ p[1] = 250 /\ p[2] = 255 /\ p \in Seq(Byte)
    BY <1>4
  <2> QED BY <1>1, <1>5, <1>7, <2>1 DEF Replying
<1> QED BY <1>8, <1>9, <1>10 DEF p

(* A Ublox packet.                                                         *)
LEMMA UbloxReplies ==
  ASSUME NEW type \in UbloxDrivers, NEW cls \in Int, 0 <= cls, cls <= 100,
         NEW id \in Int, 0 <= id, id <= 100, NEW payload, UbloxPayload(payload)
  PROVE  LET p == UbloxPacket(cls, id, payload)
         IN  /\ AtMostOne(type, p)
             /\ cls = 1 => NoReply(type, p)
             /\ cls # 1 => Replying(type, p)
<1> DEFINE p == UbloxPacket(cls, id, payload)
           l == Len(payload)
<1>1. /\ cls \in Byte /\ id \in Byte /\ cls # 181 /\ id # 181 /\ cls # 250
      /\ cls \in Int /\ 0 <= cls /\ cls <= 100
  BY ONLY cls \in Int, 0 <= cls, cls <= 100, id \in Int, 0 <= id, id <= 100, ByteIs
<1>2. payload \in Seq(Byte) /\ l \in Int /\ 0 <= l /\ l <= 180
      /\ \A j \in 1..l : payload[j] # 181
  BY DEF UbloxPayload
<1>3. l \in Byte /\ l # 181
  <2> HIDE DEF l
  <2>1. l \in Int /\ 0 <= l /\ l <= 255 /\ l # 181
    BY ONLY <1>2
  <2> QED BY ONLY <2>1, ByteIs
<1>a. payload \in Seq(Byte)
  BY <1>2
<1>4. /\ p \in Seq(Byte) /\ Len(p) = 8 + l
      /\ p[1] = 181 /\ p[2] = 98 /\ p[3] = cls /\ p[4] = id
      /\ p[5] = l /\ p[6] = 0
      /\ \A j \in 1..l : p[6 + j] = payload[j]
  BY ONLY <1>1, <1>3, <1>a, UbloxPacketIs
<1>5. First(type) = 181 /\ Second(type) = 98 /\ Others(type) = {1, 181, 250}
  BY DriversApart DEF First, Second, Others
<1> HIDE DEF p, l
<1>6. ASSUME NEW i \in Nat, ReplyAt(type, p, i)
      PROVE  i = 0 /\ cls # 1
  <2>1. i + 3 <= Len(p) /\ p[i + 1] = 181 /\ p[i + 3] \notin {1, 181, 250}
    BY <1>5, <1>6 DEF ReplyAt
  <2>2. i + 3 <= 8 + l
    BY ONLY <1>4, <2>1
  <2>3. CASE i = 0
    <3>1. p[0 + 3] = cls
      BY <1>4
    <3> QED BY <2>1, <2>3, <3>1
  <2>4. CASE i = 1
    <3>1. p[1 + 1] = 98
      BY <1>4
    <3> QED BY <2>1, <2>4, <3>1
  <2>5. CASE i = 2
    <3>1. p[2 + 1] = cls
      BY <1>4
    <3> QED BY <1>1, <2>1, <2>5, <3>1
  <2>6. CASE i = 3
    <3>1. p[3 + 1] = id
      BY <1>4
    <3> QED BY <1>1, <2>1, <2>6, <3>1
  <2>7. CASE i = 4
    <3>1. p[4 + 1] = l
      BY <1>4
    <3> QED BY <1>3, <2>1, <2>7, <3>1
  <2>8. CASE i = 5
    <3>1. p[5 + 1] = 0
      BY <1>4
    <3> QED BY <2>1, <2>8, <3>1
  <2>9. CASE i >= 6
    <3> DEFINE j == i - 5
    <3>1. j \in 1..l /\ i + 1 = 6 + j
      BY <1>2, <2>2, <2>9
    <3> HIDE DEF j
    <3>2. payload[j] = 181
      BY <1>4, <2>1, <3>1
    <3> QED BY <1>2, <3>1, <3>2
  <2>10. i = 0 \/ i = 1 \/ i = 2 \/ i = 3 \/ i = 4 \/ i = 5 \/ i >= 6
    BY ONLY i \in Nat
  <2> QED BY <2>3, <2>4, <2>5, <2>6, <2>7, <2>8, <2>9, <2>10
<1>7. Len(p) > 0 /\ Len(p) >= 3
  BY ONLY <1>2, <1>4
<1>8. AtMostOne(type, p)
  BY <1>4, <1>6, <1>7 DEF AtMostOne
<1>9. cls = 1 => NoReply(type, p)
  BY <1>6 DEF NoReply
<1>10. cls # 1 => Replying(type, p)
  <2>1. p[3] = cls /\ p[1] = 181 /\ p[2] = 98 /\ p \in Seq(Byte)
    BY <1>4
  <2> QED BY <1>1, <1>5, <1>7, <2>1 DEF Replying
<1> QED BY <1>8, <1>9, <1>10 DEF p

(* A packet without a reply in it, which does not make one either.         *)
Silent(type, packet) == AtMostOne(type, packet) /\ NoReply(type, packet)

(* The wakeup is silent.                                                   *)
LEMMA WakeupSilent == \A type \in XsensDrivers : Silent(type, Wakeup)
<1> SUFFICES ASSUME NEW type \in XsensDrivers PROVE Silent(type, Wakeup)
  OBVIOUS
<1>1. 62 \in Int /\ 0 <= 62 /\ 62 <= 249 /\ 62 \in {13, 54, 62}
  OBVIOUS
<1> QED BY ONLY <1>1, type \in XsensDrivers, XsensReplies, SomePayloads
        DEF Wakeup, Silent

(* So is what a device tells without being asked.                          *)
LEMMA MeasurementSilent ==
  ASSUME driver \in Marked, NEW payload \in Measurements
  PROVE  Silent(driver, Measurement(payload))
<1>0. XsensPayload(payload) /\ UbloxPayload(payload)
  BY MeasurementPayload
<1>1. CASE driver \in XsensDrivers
  <2>1. 54 \in Int /\ 0 <= 54 /\ 54 <= 249 /\ 54 \in {13, 54, 62}
    OBVIOUS
  <2>2. Silent(driver, XsensPacket(54, payload))
    BY ONLY <1>1, <2>1, XsensReplies, <1>0 DEF Silent
  <2> QED BY <1>1, <2>2 DEF Measurement
<1>2. CASE driver \in UbloxDrivers
  <2>1. 1 \in Int /\ 0 <= 1 /\ 1 <= 100 /\ 7 \in Int /\ 0 <= 7 /\ 7 <= 100
    OBVIOUS
  <2>2. Silent(driver, UbloxPacket(1, 7, payload))
    BY ONLY <1>2, <2>1, UbloxReplies, <1>0 DEF Silent
  <2> QED BY <1>2, <2>2, DriversApart DEF Measurement
<1> QED BY <1>1, <1>2 DEF Marked

(* And what comes back for what is sent besides the commands.              *)
LEMMA AsideSilent == \A type \in Marked : Silent(type, AsideReply(type))
<1> SUFFICES ASSUME NEW type \in Marked PROVE Silent(type, AsideReply(type))
  OBVIOUS
<1> DEFINE p == XsensPacket(13, <<0>>)
<1>1. AsideReply(type) = p
  BY DriversApart DEF AsideReply, Marked
<1>2. CASE type \in XsensDrivers
  <2>1. 13 \in Int /\ 0 <= 13 /\ 13 <= 249 /\ 13 \in {13, 54, 62}
    OBVIOUS
  <2>2. Silent(type, p)
    BY ONLY <1>2, <2>1, XsensReplies, SomePayloads DEF Silent
  <2> QED BY <1>1, <2>2
<1>3. CASE type \in UbloxDrivers
  <2> DEFINE zero == <<0>>
  <2>1. zero \in Seq(Byte) /\ Len(zero) = 1
    BY ByteIs
  <2>2. 13 \in Byte /\ 1 \in Byte
    BY ByteIs
  <2> HIDE DEF zero
  <2>3. zero \in Seq(Byte) /\ Len(zero) \in Byte
    BY <2>1, <2>2
  <2> DEFINE q == XsensPacket(13, zero)
  <2>4. p = q
    BY DEF zero
  <2> HIDE DEF p
  <2>a. /\ q \in Seq(Byte) /\ Len(q) = 5 + Len(zero)
        /\ q[1] = 250 /\ q[2] = 255 /\ q[3] = 13 /\ q[4] = Len(zero)
    BY ONLY <2>2, <2>3, XsensPacketIs
  <2> HIDE DEF q
  <2>5. /\ p \in Seq(Byte) /\ Len(p) = 5 + Len(zero)
        /\ p[1] = 250 /\ p[2] = 255 /\ p[3] = 13 /\ p[4] = Len(zero)
    BY ONLY <2>4, <2>a
  <2>6. First(type) = 181
    BY <1>3, DriversApart DEF First
  <2>7. ASSUME NEW i \in Nat, ReplyAt(type, p, i) PROVE FALSE
    <3>1. i + 3 <= Len(p) /\ p[i + 1] = 181
      BY <2>6, <2>7 DEF ReplyAt
    <3>2. Len(p) = 6
      BY ONLY <2>1, <2>5
    <3>3. i = 0 \/ i = 1 \/ i = 2 \/ i = 3
      BY ONLY <3>1, <3>2, i \in Nat
    <3>4. p[0 + 1] = 250 /\ p[1 + 1] = 255 /\ p[2 + 1] = 13 /\ p[3 + 1] = 1
      BY <2>1, <2>5
    <3> QED BY ONLY <3>1, <3>3, <3>4
  <2>8. Len(p) > 0
    BY ONLY <2>1, <2>5
  <2>9. p \in Seq(Byte) /\ p[1] \in {181, 250}
    BY <2>5
  <2>10. Silent(type, p)
    BY <2>7, <2>8, <2>9 DEF Silent, AtMostOne, NoReply
  <2> QED BY <1>1, <2>10
<1> QED BY <1>2, <1>3 DEF Marked

-----------------------------------------------------------------------------
(* Commands and replies.                                                   *)

(* A command waits for replies only, an answer brings one at most, and a   *)
(* refusal is never taken for what is expected, not even in part.          *)
ReplyOf(type, c) ==
  /\ Replying(type, c.expected) /\ Replying(type, c.error)
  /\ AtMostOne(type, c.accept)
  /\ \A bytes \in c.refuse : AtMostOne(type, bytes) /\ ~Agree(bytes, c.expected, 0)

(* Sequences that differ somewhere do not agree.                           *)
LEMMA Differ ==
  ASSUME NEW bytes \in Seq(Byte), NEW items \in Seq(Byte),
         NEW j \in Nat, 1 <= j, j <= Len(bytes), j <= Len(items), bytes[j] # items[j]
  PROVE  ~Agree(bytes, items, 0)
<1>1. j \in 1..Len(items) /\ 0 + j <= Len(bytes) /\ 0 + j = j
  OBVIOUS
<1> QED BY <1>1 DEF Agree

(* How an Xsens says that it refuses.                                      *)
LEMMA XsensErrorIs ==
  ASSUME NEW type \in XsensDrivers
  PROVE  Replying(type, XsensError)
<1> DEFINE start == <<250, 255>>
           end == <<66, 1>>
           e == start \o end
<1>1. start \in Seq(Byte) /\ end \in Seq(Byte)
  BY ByteIs
<1>2. XsensError = e
  BY RealBytes DEF XsensError
<1>3. Len(start) = 2 /\ Len(end) = 2 /\ start[1] = 250 /\ start[2] = 255 /\ end[1] = 66
  OBVIOUS
<1> HIDE DEF start, end
<1>4. /\ e \in Seq(Byte) /\ Len(e) = Len(start) + Len(end)
      /\ \A j \in 1..Len(start) : e[j] = start[j]
      /\ \A j \in 1..Len(end) : e[Len(start) + j] = end[j]
  BY ONLY <1>1, Concat
<1> HIDE DEF e
<1>5. 1 \in 1..Len(start) /\ 2 \in 1..Len(start) /\ 1 \in 1..Len(end) /\ Len(start) + 1 = 3
  BY ONLY <1>3
<1>6. e[1] = 250 /\ e[2] = 255
  BY ONLY <1>3, <1>4, <1>5
<1>7. e[3] = 66
  <2>1. e[Len(start) + 1] = end[1]
    BY ONLY <1>4, <1>5
  <2> QED BY ONLY <1>3, <1>5, <2>1
<1>8. Len(e) >= 3
  BY ONLY <1>3, <1>4
<1>9. First(type) = 250 /\ Second(type) = 255 /\ Others(type) = {13, 54, 62, 181, 250}
  BY DEF First, Second, Others
<1>10. 66 \notin {13, 54, 62, 181, 250}
  OBVIOUS
<1>11. e \in Seq(Byte)
  BY <1>4
<1>12. Replying(type, e)
  BY ONLY <1>6, <1>7, <1>8, <1>9, <1>10, <1>11 DEF Replying
<1> QED BY <1>2, <1>12

(* What the identifier after a packet's beginning makes of it.             *)
LEMMA XsensHeadReplies ==
  ASSUME NEW type \in XsensDrivers, NEW mid \in Byte,
         mid \notin {13, 54, 62, 181, 250}
  PROVE  Replying(type, XsensHead(mid))
<1> DEFINE h == XsensHead(mid)
<1>1. h \in Seq(Byte) /\ Len(h) = 3 /\ h[1] = 250 /\ h[2] = 255 /\ h[3] = mid
  BY XsensHeadIs
<1>2. First(type) = 250 /\ Second(type) = 255 /\ Others(type) = {13, 54, 62, 181, 250}
  BY DEF First, Second, Others
<1> HIDE DEF h
<1>3. Len(h) >= 3
  BY ONLY <1>1
<1>4. Replying(type, h)
  BY <1>1, <1>2, <1>3 DEF Replying
<1> QED BY <1>4 DEF h

(* What tells the packets of an Xsens apart.                               *)
LEMMA XsensFields ==
  ASSUME NEW mid \in Int, 0 <= mid, mid <= 249, NEW payload, XsensPayload(payload)
  PROVE  LET p == XsensPacket(mid, payload)
         IN  /\ p \in Seq(Byte) /\ Len(p) = 5 + Len(payload) /\ p[3] = mid
             /\ \A j \in 1..Len(payload) : p[4 + j] = payload[j]
<1> DEFINE l == Len(payload)
<1>1. mid \in Byte
  BY ONLY mid \in Int, 0 <= mid, mid <= 249, ByteIs
<1>2. payload \in Seq(Byte) /\ l \in Int /\ 0 <= l /\ l <= 180
  BY DEF XsensPayload
<1>3. l \in Byte
  <2> HIDE DEF l
  <2> QED BY ONLY <1>2, ByteIs
<1>4. payload \in Seq(Byte)
  BY <1>2
<1> QED BY ONLY <1>1, <1>3, <1>4, XsensPacketIs

(* A refusal is no answer, as its identifier is another one.               *)
LEMMA XsensRefuses ==
  ASSUME NEW type \in XsensDrivers, NEW items \in Seq(Byte), Len(items) >= 3,
         items[3] # 66
  PROVE  AtMostOne(type, XsensRefusal) /\ ~Agree(XsensRefusal, items, 0)
<1> DEFINE four == <<4>>
           p == XsensPacket(66, four)
<1>1. XsensPayload(four) /\ Len(four) = 1
  BY SomePayloads
<1>5. XsensRefusal = p
  BY DEF XsensRefusal
<1> HIDE DEF four
<1>2. 66 \in Int /\ 0 <= 66 /\ 66 <= 249
  OBVIOUS
<1>3. AtMostOne(type, p)
  BY ONLY <1>1, <1>2, XsensReplies, type \in XsensDrivers
<1>a. XsensPayload(four)
  BY <1>1
<1>4. p \in Seq(Byte) /\ Len(p) = 5 + Len(four) /\ p[3] = 66
  BY ONLY <1>2, <1>a, XsensFields
<1> HIDE DEF p
<1>6. 3 <= Len(p) /\ 3 \in Nat /\ 1 <= 3
  BY ONLY <1>1, <1>4
<1>7. p \in Seq(Byte) /\ items \in Seq(Byte) /\ 3 <= Len(items) /\ p[3] # items[3]
  BY <1>4
<1>8. ~Agree(p, items, 0)
  BY ONLY <1>6, <1>7, Differ
<1> QED BY <1>3, <1>5, <1>8

(* The kinds of commands that an Xsens accepts or refuses.                 *)
LEMMA XsensReplyKinds ==
  ASSUME NEW type \in XsensDrivers, NEW name, NEW mid \in 0..248,
         mid + 1 \notin {13, 54, 62, 66, 181}, NEW ask,
         NEW payload, XsensPayload(payload)
  PROVE  /\ ReplyOf(type, do_command(name, mid))
         /\ ReplyOf(type, do_set(name, mid))
         /\ ReplyOf(type, do_request(name, mid, ask, payload))
<1> DEFINE next == mid + 1
<1>1. /\ next \in Int /\ 0 <= next /\ next <= 249
      /\ next \notin {13, 54, 62, 181} /\ next \notin {13, 54, 62, 181, 250} /\ next # 66
  OBVIOUS
<1> HIDE DEF next
<1>2. next \in Byte
  BY ONLY <1>1, ByteIs
<1>3. XsensPayload(<<>>)
  BY SomePayloads
<1>4. /\ Replying(type, XsensHead(next)) /\ Len(XsensHead(next)) = 3
      /\ XsensHead(next)[3] = next
  BY ONLY <1>1, <1>2, XsensHeadReplies, XsensHeadIs, type \in XsensDrivers
<1>5. ASSUME NEW bytes, XsensPayload(bytes)
      PROVE  /\ AtMostOne(type, XsensPacket(next, bytes))
             /\ Replying(type, XsensPacket(next, bytes))
             /\ XsensPacket(next, bytes)[3] = next
  BY ONLY <1>1, <1>5, XsensReplies, XsensFields, type \in XsensDrivers
<1>6. ASSUME NEW items, Replying(type, items), items[3] = next
      PROVE  AtMostOne(type, XsensRefusal) /\ ~Agree(XsensRefusal, items, 0)
  <2>1. items \in Seq(Byte) /\ Len(items) >= 3
    BY <1>6 DEF Replying
  <2>2. items[3] # 66
    BY <1>1, <1>6
  <2> QED BY ONLY <2>1, <2>2, XsensRefuses, type \in XsensDrivers
<1>7. Replying(type, XsensError)
  BY XsensErrorIs
<1>8. ReplyOf(type, do_command(name, mid))
  BY <1>3, <1>5, <1>6, <1>7 DEF ReplyOf, do_command, Command, next
<1>9. ReplyOf(type, do_set(name, mid))
  BY <1>3, <1>4, <1>5, <1>6, <1>7 DEF ReplyOf, do_set, Command, next
<1>10. ReplyOf(type, do_request(name, mid, ask, payload))
  BY <1>4, <1>5, <1>6, <1>7 DEF ReplyOf, do_request, Command, next
<1> QED BY <1>8, <1>9, <1>10

(* A check brings the settings, which differ if they are others.           *)
LEMMA XsensReplyCheck ==
  ASSUME NEW type \in XsensDrivers, NEW name, NEW mid \in 0..248,
         mid + 1 \notin {13, 54, 62, 181},
         NEW setting, XsensPayload(setting), NEW other, XsensPayload(other),
         NEW k \in Nat, 1 <= k, k <= Len(setting), k <= Len(other), setting[k] # other[k]
  PROVE  ReplyOf(type, do_check(name, mid, setting, other))
<1> DEFINE next == mid + 1
<1>1. next \in Int /\ 0 <= next /\ next <= 249 /\ next \notin {13, 54, 62, 181}
  OBVIOUS
<1> HIDE DEF next
<1> DEFINE p == XsensPacket(next, setting)
           q == XsensPacket(next, other)
<1>2. /\ AtMostOne(type, p) /\ Replying(type, p) /\ AtMostOne(type, q)
  BY ONLY <1>1, XsensReplies, type \in XsensDrivers, XsensPayload(setting),
          XsensPayload(other)
<1>3. /\ p \in Seq(Byte) /\ Len(p) = 5 + Len(setting)
      /\ \A j \in 1..Len(setting) : p[4 + j] = setting[j]
  BY ONLY <1>1, XsensFields, XsensPayload(setting)
<1>4. /\ q \in Seq(Byte) /\ Len(q) = 5 + Len(other)
      /\ \A j \in 1..Len(other) : q[4 + j] = other[j]
  BY ONLY <1>1, XsensFields, XsensPayload(other)
<1> HIDE DEF p, q
<1>5. k \in 1..Len(setting) /\ k \in 1..Len(other)
  BY DEF XsensPayload
<1>6. q[4 + k] # p[4 + k]
  BY <1>3, <1>4, <1>5
<1>7. /\ 4 + k \in Nat /\ 1 <= 4 + k /\ 4 + k <= Len(q) /\ 4 + k <= Len(p)
  BY <1>3, <1>4 DEF XsensPayload
<1>8. ~Agree(q, p, 0)
  BY <1>3, <1>4, <1>6, <1>7, Differ
<1>9. Replying(type, XsensError)
  BY XsensErrorIs
<1> QED BY <1>2, <1>8, <1>9 DEF ReplyOf, do_check, Command, next, p, q

(* Each command of an Xsens.                                               *)
LEMMA XsensRepliesAre ==
  ASSUME NEW type \in XsensDrivers, NEW c \in XsensCommands(type)
  PROVE  ReplyOf(type, c)
<1>1. /\ XsensPayload(<<>>) /\ XsensPayload(<<77>>) /\ XsensPayload(<<1>>)
      /\ XsensPayload(output_configuration(type)) /\ XsensPayload(OtherOutput)
      /\ XsensPayload(XsensSerial)
  BY SomePayloads, SerialPayload DEF output_configuration, OtherOutput
<1>2. \A name, mid : mid \in 0..248 /\ mid + 1 \notin {13, 54, 62, 66, 181} =>
        ReplyOf(type, do_command(name, mid)) /\ ReplyOf(type, do_set(name, mid))
  BY ONLY <1>1, XsensReplyKinds, type \in XsensDrivers
<1>3. \A name, mid, ask, payload :
        mid \in 0..248 /\ mid + 1 \notin {13, 54, 62, 66, 181} /\ XsensPayload(payload)
        => ReplyOf(type, do_request(name, mid, ask, payload))
  BY ONLY XsensReplyKinds, type \in XsensDrivers
<1>4. \A mid \in {0, 48, 28, 18, 72, 142, 100, 192, 2, 16, 64} :
        mid \in 0..248 /\ mid + 1 \notin {13, 54, 62, 66, 181}
  OBVIOUS
<1>5. ReplyOf(type, do_check("check_output", 192, output_configuration(type), OtherOutput))
  <2> DEFINE s == output_configuration(type)
  <2>1. Len(OtherOutput) = 2 /\ OtherOutput[1] = 64 /\ OtherOutput[2] = 48
    BY DEF OtherOutput
  <2>2. Len(s) = 2 /\ (s[1] = 16 \/ s[2] = 32)
    BY DEF output_configuration
  <2>3. XsensPayload(s) /\ XsensPayload(OtherOutput)
    BY <1>1
  <2> HIDE DEF s
  <2>4. \E k \in Nat : 1 <= k /\ k <= Len(s) /\ k <= Len(OtherOutput) /\ s[k] # OtherOutput[k]
    <3>1. 1 <= Len(s) /\ 2 <= Len(s) /\ 1 <= Len(OtherOutput) /\ 2 <= Len(OtherOutput)
      BY ONLY <2>1, <2>2
    <3>2. CASE s[1] = 16
      <4>1. s[1] # OtherOutput[1]
        BY ONLY <2>1, <3>2
      <4> QED BY ONLY <3>1, <4>1
    <3>3. CASE s[2] = 32
      <4>1. s[2] # OtherOutput[2]
        BY ONLY <2>1, <3>3
      <4> QED BY ONLY <3>1, <4>1
    <3> QED BY ONLY <2>2, <3>2, <3>3
  <2>5. 192 \in 0..248 /\ 192 + 1 \notin {13, 54, 62, 181}
    OBVIOUS
  <2> QED BY ONLY <2>3, <2>4, <2>5, XsensReplyCheck, type \in XsensDrivers DEF s
<1>6. /\ ReplyOf(type, do_command("goto_config", 48))
      /\ ReplyOf(type, do_set("option_flags", 72))
      /\ ReplyOf(type, do_set("string_output_type", 142))
      /\ ReplyOf(type, do_set("filter_profile", 100))
      /\ ReplyOf(type, do_set("set_output", 192))
      /\ ReplyOf(type, do_command("goto_measurement", 16))
      /\ ReplyOf(type, do_command("reset", 64))
  BY ONLY <1>2, <1>4
<1>7. /\ ReplyOf(type, do_request("identifier", 0, <<3>>, XsensSerial))
      /\ ReplyOf(type, do_request("product_code", 28, <<3>>, <<77>>))
      /\ ReplyOf(type, do_request("firmware", 18, <<3>>, <<1>>))
      /\ ReplyOf(type, do_request("init_mt", 2, <<>>, <<>>))
  BY ONLY <1>1, <1>3, <1>4
<1> QED BY <1>5, <1>6, <1>7 DEF XsensCommands

(* How the acknowledgements of a Ublox begin, and what tells them apart.   *)
LEMMA UbloxAnswersReply ==
  ASSUME NEW type \in UbloxDrivers
  PROVE  /\ Replying(type, UbloxAck) /\ Replying(type, UbloxNak)
         /\ UbloxAck \in Seq(Byte) /\ Len(UbloxAck) >= 4 /\ UbloxAck[4] = 1
<1> DEFINE start == <<181, 98>>
           ack == <<5, 1, 2, 0, 6>>
           nak == <<5, 0, 2, 0, 6>>
           a == start \o ack
           n == start \o nak
<1>1. start \in Seq(Byte) /\ ack \in Seq(Byte) /\ nak \in Seq(Byte)
  BY ByteIs
<1>2. UbloxAck = a /\ UbloxNak = n
  BY RealBytes DEF UbloxAck, UbloxNak
<1>3. /\ Len(start) = 2 /\ Len(ack) = 5 /\ Len(nak) = 5
      /\ start[1] = 181 /\ start[2] = 98 /\ ack[1] = 5 /\ ack[2] = 1 /\ nak[1] = 5
  OBVIOUS
<1> HIDE DEF start, ack, nak
<1>4. /\ a \in Seq(Byte) /\ Len(a) = Len(start) + Len(ack)
      /\ \A j \in 1..Len(start) : a[j] = start[j]
      /\ \A j \in 1..Len(ack) : a[Len(start) + j] = ack[j]
  BY ONLY <1>1, Concat
<1>5. /\ n \in Seq(Byte) /\ Len(n) = Len(start) + Len(nak)
      /\ \A j \in 1..Len(start) : n[j] = start[j]
      /\ \A j \in 1..Len(nak) : n[Len(start) + j] = nak[j]
  BY ONLY <1>1, Concat
<1> HIDE DEF a, n
<1>6. /\ 1 \in 1..Len(start) /\ 2 \in 1..Len(start)
      /\ 1 \in 1..Len(ack) /\ 2 \in 1..Len(ack) /\ 1 \in 1..Len(nak)
      /\ Len(start) + 1 = 3 /\ Len(start) + 2 = 4
  BY ONLY <1>3
<1>7. a[1] = 181 /\ a[2] = 98 /\ n[1] = 181 /\ n[2] = 98
  BY ONLY <1>3, <1>4, <1>5, <1>6
<1>8. a[3] = 5 /\ a[4] = 1 /\ n[3] = 5
  <2>1. /\ a[Len(start) + 1] = ack[1] /\ a[Len(start) + 2] = ack[2]
        /\ n[Len(start) + 1] = nak[1]
    BY ONLY <1>4, <1>5, <1>6
  <2> QED BY ONLY <1>3, <1>6, <2>1
<1>9. Len(a) >= 3 /\ Len(a) >= 4 /\ Len(n) >= 3
  BY ONLY <1>3, <1>4, <1>5
<1>10. First(type) = 181 /\ Second(type) = 98 /\ Others(type) = {1, 181, 250}
  BY DriversApart DEF First, Second, Others
<1>11. 5 \notin {1, 181, 250}
  OBVIOUS
<1>12. a \in Seq(Byte) /\ n \in Seq(Byte)
  BY <1>4, <1>5
<1>13. Replying(type, a) /\ Replying(type, n)
  BY ONLY <1>7, <1>8, <1>9, <1>10, <1>11, <1>12 DEF Replying
<1> QED BY <1>2, <1>8, <1>9, <1>12, <1>13

(* What comes with a setting that is refused is no acknowledgement.        *)
LEMMA UbloxReplySet ==
  ASSUME NEW type \in UbloxDrivers, NEW name, NEW id \in 0..150
  PROVE  ReplyOf(type, UbloxSet(name, id))
<1> DEFINE payload == <<6, id>>
           p == UbloxPacket(5, 1, payload)
           q == UbloxPacket(5, 0, payload)
<1>1. UbloxPayload(payload)
  BY UbloxPayloads
<1>2. UbloxSet(name, id) = Command(name, UbloxAck, UbloxNak, <<>>, p, {q})
  BY DEF UbloxSet
<1> HIDE DEF payload
<1>3. 0 <= 5 /\ 5 <= 100 /\ 0 <= 1 /\ 1 <= 100 /\ 0 <= 0 /\ 0 <= 100
      /\ 0 \in Int /\ 1 \in Int /\ 5 \in Int
  OBVIOUS
<1>4. AtMostOne(type, p) /\ AtMostOne(type, q)
  BY ONLY <1>1, <1>3, UbloxReplies, type \in UbloxDrivers
<1>5. q \in Seq(Byte) /\ Len(q) = 8 + Len(payload) /\ q[4] = 0
  <2>1. 5 \in Byte /\ 0 \in Byte
    BY ByteIs
  <2> DEFINE l == Len(payload)
  <2>2. payload \in Seq(Byte) /\ l \in Int /\ 0 <= l /\ l <= 180
    BY <1>1 DEF UbloxPayload
  <2>3. l \in Byte
    <3> HIDE DEF l
    <3> QED BY ONLY <2>2, ByteIs
  <2>4. payload \in Seq(Byte)
    BY <2>2
  <2> QED BY ONLY <2>1, <2>3, <2>4, UbloxPacketIs
<1> HIDE DEF p, q
<1>6. 4 \in Nat /\ 1 <= 4 /\ 4 <= Len(q) /\ 4 <= Len(UbloxAck) /\ q[4] # UbloxAck[4]
  <2>1. Len(payload) \in Int /\ 0 <= Len(payload)
    BY <1>1 DEF UbloxPayload
  <2> QED BY <1>5, <2>1, UbloxAnswersReply
<1>7. q \in Seq(Byte) /\ UbloxAck \in Seq(Byte)
  BY <1>5, UbloxAnswersReply
<1>8. ~Agree(q, UbloxAck, 0)
  BY ONLY <1>6, <1>7, Differ
<1> QED BY <1>2, <1>4, <1>8, UbloxAnswersReply DEF ReplyOf, Command

(* Nothing is refused that is asked for.                                   *)
LEMMA UbloxReplyRequest ==
  ASSUME NEW type \in UbloxDrivers, NEW name,
         NEW cls \in Int, 0 <= cls, cls <= 100, cls # 1,
         NEW id \in Int, 0 <= id, id <= 100, NEW payload, UbloxPayload(payload)
  PROVE  ReplyOf(type, UbloxRequest(name, cls, id, payload))
<1> DEFINE h == UbloxHead(cls, id)
<1>1. cls \in Byte /\ id \in Byte
  BY ByteIs
<1>2. /\ h \in Seq(Byte) /\ Len(h) = 4
      /\ h[1] = 181 /\ h[2] = 98 /\ h[3] = cls
  BY ONLY <1>1, UbloxHeadIs
<1>3. UbloxRequest(name, cls, id, payload)
        = Command(name, h, UbloxNak, <<4, 5>>, UbloxPacket(cls, id, payload), {})
  BY DEF UbloxRequest, h, UbloxHead
<1> HIDE DEF h
<1>4. First(type) = 181 /\ Second(type) = 98 /\ Others(type) = {1, 181, 250}
  BY DriversApart DEF First, Second, Others
<1>5. cls \notin {1, 181, 250} /\ Len(h) >= 3
  BY <1>2
<1>6. Replying(type, h)
  BY <1>2, <1>4, <1>5 DEF Replying
<1>7. AtMostOne(type, UbloxPacket(cls, id, payload))
  BY UbloxReplies
<1> QED BY <1>3, <1>6, <1>7, UbloxAnswersReply DEF ReplyOf, Command

(* Each command of a Ublox.                                                *)
LEMMA UbloxRepliesAre ==
  ASSUME NEW type \in UbloxDrivers, NEW c \in UbloxCommands
  PROVE  ReplyOf(type, c)
<1>1. CASE c \in UbloxSets
  <2>1. {0, 134, 36, 62, 8, 92, 1} \subseteq 0..150
    OBVIOUS
  <2>2. \A name, id : id \in 0..150 => ReplyOf(type, UbloxSet(name, id))
    BY UbloxReplySet
  <2> QED BY <1>1, <2>1, <2>2 DEF UbloxSets
<1>2. CASE c = UbloxRequest("mon_ver", 10, 4, <<0>>)
  <2>1. 10 \in Int /\ 0 <= 10 /\ 10 <= 100 /\ 10 # 1 /\ 4 \in Int /\ 0 <= 4 /\ 4 <= 100
    OBVIOUS
  <2>2. UbloxPayload(<<0>>)
    BY UbloxPayloads
  <2> QED BY ONLY <1>2, <2>1, <2>2, UbloxReplyRequest, type \in UbloxDrivers
<1>3. CASE c = UbloxRequest("sec_uniqid", 39, 3, UbloxIdentity)
  <2>1. 39 \in Int /\ 0 <= 39 /\ 39 <= 100 /\ 39 # 1 /\ 3 \in Int /\ 0 <= 3 /\ 3 <= 100
    OBVIOUS
  <2>2. UbloxPayload(UbloxIdentity)
    BY UbloxIdentityIs
  <2> QED BY ONLY <1>3, <2>1, <2>2, UbloxReplyRequest, type \in UbloxDrivers
<1> QED BY <1>1, <1>2, <1>3 DEF UbloxCommands

(* Each command of both.                                                   *)
LEMMA MarkedReplies ==
  ASSUME NEW type \in Marked, NEW i \in DOMAIN Program[type]
  PROVE  ReplyOf(type, Program[type][i])
<1>1. CASE type \in XsensDrivers
  <2>1. Program[type] = XsensProgram(type) /\ XsensProgram(type) \in Seq(XsensCommands(type))
    BY <1>1, ProgramIs, XsensProgramIs
  <2>2. Program[type][i] \in XsensCommands(type)
    BY <2>1
  <2> QED BY <1>1, <2>2, XsensRepliesAre
<1>2. CASE type \in UbloxDrivers
  <2>1. Program[type] = UbloxProgram /\ UbloxProgram \in Seq(UbloxCommands)
    BY <1>2, ProgramIs, UbloxProgramIs
  <2>2. Program[type][i] \in UbloxCommands
    BY <2>1
  <2> QED BY <1>2, <2>2, UbloxRepliesAre
<1> QED BY <1>1, <1>2 DEF Marked

-----------------------------------------------------------------------------
(* What has been read and what is still to be read.                        *)

(* There is one reply at most.                                             *)
OneReplyIn(type, bytes) ==
  \A i, k \in Nat : ReplyAt(type, bytes, i) /\ ReplyAt(type, bytes, k) => i = k

(* No reply brings what is expected, not even a part of it.                *)
NoneExpected(type, bytes, items) ==
  \A i \in Nat : ReplyAt(type, bytes, i) => ~Agree(bytes, items, i)

(* A reply remains one when more follows.                                  *)
LEMMA RepliesKept ==
  ASSUME NEW type, NEW a \in Seq(Byte), NEW b \in Seq(Byte), NEW i \in Nat,
         ReplyAt(type, a, i)
  PROVE  ReplyAt(type, a \o b, i)
<1> DEFINE ab == a \o b
           la == Len(a)
<1>1. la \in Nat /\ Len(b) \in Nat
  OBVIOUS
<1>2. Len(ab) = la + Len(b) /\ \A j \in 1..la : ab[j] = a[j]
  BY Concat
<1> HIDE DEF ab
<1>3. /\ i + 3 <= la
      /\ a[i + 1] = First(type) /\ a[i + 2] = Second(type)
      /\ a[i + 3] \notin Others(type)
  BY DEF ReplyAt
<1>4. /\ i + 1 \in 1..la /\ i + 2 \in 1..la /\ i + 3 \in 1..la
      /\ i + 3 <= la + Len(b)
  BY <1>1, <1>3
<1>5. ReplyAt(type, ab, i)
  BY <1>2, <1>3, <1>4 DEF ReplyAt
<1> QED BY <1>5 DEF ab

(* What does not agree with the beginning does not agree with the whole.   *)
LEMMA AgreeBefore ==
  ASSUME NEW a \in Seq(Byte), NEW b \in Seq(Byte), NEW items \in Seq(Byte),
         NEW i \in Nat, Agree(a \o b, items, i)
  PROVE  Agree(a, items, i)
<1> DEFINE ab == a \o b
           la == Len(a)
<1>1. la \in Nat /\ Len(b) \in Nat
  OBVIOUS
<1>2. Len(ab) = la + Len(b) /\ \A j \in 1..la : ab[j] = a[j]
  BY Concat
<1>3. \A j \in 1..Len(items) : i + j <= Len(ab) => ab[i + j] = items[j]
  BY DEF Agree
<1> HIDE DEF ab
<1>4. ASSUME NEW j \in 1..Len(items), i + j <= la PROVE a[i + j] = items[j]
  <2>1. i + j \in 1..la /\ i + j <= la + Len(b)
    BY <1>1, <1>4
  <2> QED BY <1>2, <1>3, <2>1
<1> QED BY <1>4 DEF Agree

(* And what does not agree with the rest does not either.                  *)
LEMMA AgreeAfter ==
  ASSUME NEW a \in Seq(Byte), NEW b \in Seq(Byte), NEW items \in Seq(Byte),
         Agree(a \o b, items, Len(a))
  PROVE  Agree(b, items, 0)
<1> DEFINE ab == a \o b
           la == Len(a)
           lb == Len(b)
<1>1. la \in Nat /\ lb \in Nat
  OBVIOUS
<1>2. Len(ab) = la + lb /\ \A j \in 1..lb : ab[la + j] = b[j]
  BY Concat
<1>3. \A j \in 1..Len(items) : la + j <= Len(ab) => ab[la + j] = items[j]
  BY DEF Agree
<1> HIDE DEF ab, la, lb
<1>4. ASSUME NEW j \in 1..Len(items), 0 + j <= lb PROVE b[0 + j] = items[j]
  <2>1. j \in 1..lb /\ la + j <= la + lb /\ 0 + j = j
    BY <1>1, <1>4
  <2>2. ab[la + j] = items[j] /\ ab[la + j] = b[j]
    BY <1>2, <1>3, <2>1
  <2> QED BY ONLY <2>1, <2>2
<1> QED BY <1>4 DEF Agree, lb

(* A silent packet brings no reply.                                        *)
LEMMA SilentAppended ==
  ASSUME NEW type, NEW a \in Seq(Byte), NEW b, Silent(type, b),
         NEW i \in Nat, ReplyAt(type, a \o b, i)
  PROVE  ReplyAt(type, a, i)
<1>1. /\ b \in Seq(Byte) /\ Len(b) > 0 /\ b[1] \in {181, 250}
      /\ \A k \in Nat : ~ReplyAt(type, b, k)
  BY DEF Silent, AtMostOne, NoReply
<1> QED BY <1>1, RepliesAppended

(* A packet with a reply, after bytes that have none, is the only reply.   *)
LEMMA ReplyAppended ==
  ASSUME NEW type, NEW a \in Seq(Byte), NEW b, AtMostOne(type, b),
         NoReply(type, a), NEW i \in Nat, ReplyAt(type, a \o b, i)
  PROVE  i = Len(a)
<1>1. /\ b \in Seq(Byte) /\ Len(b) > 0 /\ b[1] \in {181, 250}
      /\ \A k \in Nat : ReplyAt(type, b, k) => k = 0
  BY DEF AtMostOne
<1>2. \E k \in Nat : i = Len(a) + k /\ ReplyAt(type, b, k)
  BY <1>1, RepliesAppended DEF NoReply
<1>3. i = Len(a) + 0
  BY <1>1, <1>2
<1> QED BY <1>3

(* No bytes, no reply.                                                     *)
LEMMA NothingReplies == \A type : NoReply(type, <<>>)
  BY DEF NoReply, ReplyAt

(* So a silent packet changes nothing.                                     *)
LEMMA SilentKeeps ==
  ASSUME NEW type, NEW a \in Seq(Byte), NEW b, Silent(type, b),
         NEW items \in Seq(Byte)
  PROVE  /\ NoReply(type, a) => NoReply(type, a \o b)
         /\ OneReplyIn(type, a) => OneReplyIn(type, a \o b)
         /\ NoneExpected(type, a, items) => NoneExpected(type, a \o b, items)
<1>0. b \in Seq(Byte)
  BY DEF Silent, AtMostOne
<1>1. NoReply(type, a) => NoReply(type, a \o b)
  BY SilentAppended DEF NoReply
<1>2. OneReplyIn(type, a) => OneReplyIn(type, a \o b)
  BY SilentAppended DEF OneReplyIn
<1>3. ASSUME NoneExpected(type, a, items) PROVE NoneExpected(type, a \o b, items)
  <2> SUFFICES ASSUME NEW i \in Nat, ReplyAt(type, a \o b, i)
               PROVE  ~Agree(a \o b, items, i)
    BY DEF NoneExpected
  <2>1. ReplyAt(type, a, i)
    BY SilentAppended
  <2>2. ~Agree(a, items, i)
    BY <1>3, <2>1 DEF NoneExpected
  <2> QED BY <1>0, <2>2, AgreeBefore
<1> QED BY <1>1, <1>2, <1>3

(* An answer or a refusal is the only reply after bytes that have none; a  *)
(* refusal is not what is expected.                                        *)
LEMMA ReplySent ==
  ASSUME NEW type, NEW a \in Seq(Byte), NEW b, AtMostOne(type, b),
         NoReply(type, a), NEW items \in Seq(Byte)
  PROVE  /\ OneReplyIn(type, a \o b)
         /\ ~Agree(b, items, 0) => NoneExpected(type, a \o b, items)
<1>0. b \in Seq(Byte)
  BY DEF AtMostOne
<1>1. \A i \in Nat : ReplyAt(type, a \o b, i) => i = Len(a)
  BY ReplyAppended
<1>2. OneReplyIn(type, a \o b)
  BY <1>1 DEF OneReplyIn
<1>3. ASSUME ~Agree(b, items, 0) PROVE NoneExpected(type, a \o b, items)
  BY <1>0, <1>1, <1>3, AgreeAfter DEF NoneExpected
<1> QED BY <1>2, <1>3

(* Where what is expected is found, it is the one reply, and none is left. *)
LEMMA ReplyFound ==
  ASSUME NEW type, NEW now \in Seq(Byte), NEW rest \in Seq(Byte),
         OneReplyIn(type, now \o rest),
         NEW items, Replying(type, items), NEW found \in Nat, Occurs(now, items, found)
  PROVE  /\ ReplyAt(type, now \o rest, found) /\ Agree(now \o rest, items, found)
         /\ NoReply(type, rest)
<1>1. ReplyAt(type, now, found) /\ found + 3 <= Len(now)
  BY OccursReplies DEF ReplyAt
<1>2. ReplyAt(type, now \o rest, found)
  BY <1>1, RepliesKept
<1>3. ASSUME NEW k \in Nat, ReplyAt(type, rest, k) PROVE FALSE
  <2>a. ReplyAt(type, now \o rest, Len(now) + k)
    BY ONLY <1>3, now \in Seq(Byte), rest \in Seq(Byte), RepliesLater
  <2>1. ReplyAt(type, now \o rest, Len(now) + k) /\ Len(now) \in Nat
    BY <2>a
  <2>2. found = Len(now) + k
    BY <1>2, <2>1 DEF OneReplyIn
  <2> QED BY <1>1, <2>1, <2>2
<1>4. Agree(now \o rest, items, found)
  <2>1. items \in Seq(Byte)
    BY DEF Replying
  <2>2. found + Len(items) <= Len(now)
    BY DEF Occurs
  <2>3. Occurs(now \o rest, items, found)
    BY <2>1, <2>2, OccursLonger
  <2>4. now \o rest \in Seq(Byte)
    BY Concat
  <2> QED BY <2>1, <2>3, <2>4, OccursAgrees
<1> QED BY <1>2, <1>3, <1>4 DEF NoReply

-----------------------------------------------------------------------------
(* The invariant of the replies.                                           *)

Stream == response \o wire

AllAside(list) == \A j \in 1..Len(list) : list[j] = Aside

(* The device has still to deal with the command that is under way, or not *)
(* any more, but with no earlier one.                                      *)
OnePending ==
  driver \in Marked \/ ~strayed =>
    /\ \A j \in 1..Len(pending) :
         pending[j] = Aside \/ (phase = "command" /\ pending[j] = at)
    /\ \A j, k \in 1..Len(pending) : pending[j] = at /\ pending[k] = at => j = k

(* There is one reply at most to the command that is under way, none before *)
(* the device has dealt with it, and none that brings what is expected     *)
(* unless it has accepted it.                                              *)
OneReply ==
  driver \in Marked =>
    IF phase = "command"
    THEN /\ OneReplyIn(driver, Stream)
         /\ Contains(pending, at) => NoReply(driver, Stream)
         /\ \/ Current.name \in accepted
            \/ NoneExpected(driver, Stream, Current.expected)
    ELSE NoReply(driver, Stream)

(* A command that has begun is alone.                                      *)
LEMMA BeginsAlone ==
  ASSUME StreamInv, NEW i \in DOMAIN Program[driver], NEW rest \in Seq(Byte),
         Begin(i), wire' = rest, driver' = driver,
         driver \in Marked \/ ~strayed' => AllAside(pending),
         driver \in Marked => NoReply(driver, rest)
  PROVE  OnePending' /\ OneReply' /\ Stream' = rest
<1>1. /\ phase' = "command" /\ at' = i /\ response' = <<>>
      /\ pending' = Append(pending, i)
  BY DEF Begin
<1>2. Stream' = rest
  <2>1. <<>> \o rest = rest
    BY ConcatEmptySeq
  <2> QED BY <1>1, <2>1 DEF Stream
<1>3. i # Aside
  <2>1. DOMAIN Program[driver] = 1..Len(Program[driver])
    BY CurrentTyped, ProgramLength
  <2> QED BY <2>1 DEF Aside
<1>4. OnePending'
  <2> SUFFICES ASSUME driver \in Marked \/ ~strayed'
               PROVE  /\ \A j \in 1..Len(pending') : pending'[j] = Aside \/ pending'[j] = i
                      /\ \A j, k \in 1..Len(pending') :
                           pending'[j] = i /\ pending'[k] = i => j = k
    BY <1>1 DEF OnePending
  <2> DEFINE S == DOMAIN Program[driver] \cup {Aside}
             q == Append(pending, i)
  <2>1. pending \in Seq(S) /\ i \in S
    BY CurrentTyped
  <2> HIDE DEF S
  <2>2. /\ Len(q) = Len(pending) + 1 /\ q[Len(pending) + 1] = i /\ Len(pending) \in Nat
        /\ \A j \in 1..Len(pending) : q[j] = pending[j]
    BY <2>1
  <2> HIDE DEF q
  <2>3. \A j \in 1..Len(q) : j \in 1..Len(pending) \/ j = Len(pending) + 1
    BY <2>2
  <2>4. \A j \in 1..Len(pending) : q[j] = Aside
    BY <2>2 DEF AllAside
  <2>5. pending' = q
    BY <1>1 DEF q
  <2>6. \A j \in 1..Len(q) : (j = Len(pending) + 1 /\ q[j] = i) \/ q[j] = Aside
    BY <2>2, <2>3, <2>4
  <2> QED BY <1>3, <2>5, <2>6
<1>5. OneReply'
  <2> SUFFICES ASSUME driver \in Marked
               PROVE  /\ OneReplyIn(driver, rest) /\ NoReply(driver, rest)
                      /\ NoneExpected(driver, rest, Current.expected')
    BY <1>1, <1>2 DEF OneReply
  <2> QED BY DEF NoReply, OneReplyIn, NoneExpected
<1> QED BY <1>2, <1>4, <1>5

(* The end of an initialisation leaves no reply.                           *)
LEMMA EndsQuiet ==
  ASSUME StreamInv, NEW rest, Fail(rest) \/ Succeed(rest), driver' = driver,
         driver \in Marked \/ ~strayed' => AllAside(pending)
  PROVE  OnePending' /\ OneReply' /\ phase' \in {"closed", "initialised"}
<1>1. /\ phase' \in {"closed", "initialised"} /\ at' = 1 /\ response' = <<>>
      /\ wire' = <<>> /\ pending' = pending
  BY DEF Fail, Succeed, Ended
<1>2. Stream' = <<>>
  <2>1. <<>> \o <<>> = <<>>
    OBVIOUS
  <2> QED BY <1>1, <2>1 DEF Stream
<1>3. OneReply'
  BY <1>1, <1>2, NothingReplies DEF OneReply
<1>4. OnePending'
  <2> SUFFICES ASSUME driver \in Marked \/ ~strayed'
               PROVE  /\ \A j \in 1..Len(pending) : pending[j] = Aside
                      /\ \A j, k \in 1..Len(pending) :
                           pending[j] = 1 /\ pending[k] = 1 => j = k
    BY <1>1 DEF OnePending
  <2>1. \A j \in 1..Len(pending) : pending[j] = Aside /\ pending[j] # 1
    BY DEF AllAside, Aside
  <2> QED BY <2>1
<1> QED BY <1>1, <1>3, <1>4

(* Whatever has become of a command, another one begins or it is the end.  *)
LEMMA GoesOnSteps ==
  ASSUME driver \in AllDrivers, at \in DOMAIN Program[driver],
         NEW ok \in BOOLEAN, NEW rest, GoesOn(ok, rest)
  PROVE  \/ Fail(rest) \/ Succeed(rest)
         \/ \E i \in DOMAIN Program[driver] : Begin(i) /\ wire' = rest
<1>1. CASE driver \in UbloxDrivers
  <2>1. UbloxGoesOn(ok, rest)
    BY <1>1, GoesOnIs
  <2>2. \/ Fail(rest) \/ Succeed(rest)
        \/ Current.name # "esf_raw" /\ Begin(at + 1) /\ wire' = rest
    BY <2>1 DEF UbloxGoesOn
  <2>3. Current.name # "esf_raw" => at + 1 \in DOMAIN Program[driver]
    BY <1>1, NotLast DEF Current
  <2> QED BY <2>2, <2>3
<1>2. CASE driver \in XsensDrivers
  <2>1. XsensGoesOn(ok, rest)
    BY <1>2, GoesOnIs
  <2>2. \/ Fail(rest) \/ Succeed(rest)
        \/ \E name \in {"goto_measurement", "set_output", "reset"} : GoTo(name, rest)
        \/ Current.name # "reset" /\ Begin(at + 1) /\ wire' = rest
    BY <2>1, XsensGoesOnCases
  <2>3. Current.name # "reset" => at + 1 \in DOMAIN Program[driver]
    BY <1>2, NotLast DEF Current
  <2>4. \A name \in {"goto_measurement", "set_output", "reset"} :
          IndexOf(driver, name) \in DOMAIN Program[driver]
    BY <1>2, XsensIndices
  <2> QED BY <2>2, <2>3, <2>4 DEF GoTo
<1>3. CASE driver = "runwell"
  <2>1. RunwellGoesOn(ok, rest)
    BY <1>3, GoesOnIs
  <2>2. \/ Fail(rest) \/ Succeed(rest)
        \/ at # Len(Program[driver]) /\ Begin(at + 1) /\ wire' = rest
    BY <2>1 DEF RunwellGoesOn
  <2>3. at # Len(Program[driver]) => at + 1 \in DOMAIN Program[driver]
    BY ProgramLength
  <2> QED BY <2>2, <2>3
<1> QED BY <1>1, <1>2, <1>3 DEF AllDrivers

(* So the command is alone, or nothing is left.                            *)
LEMMA GoesOnAlone ==
  ASSUME StreamInv, NEW ok \in BOOLEAN, NEW rest \in Seq(Byte), GoesOn(ok, rest),
         driver' = driver,
         driver \in Marked \/ ~strayed' => AllAside(pending),
         driver \in Marked => NoReply(driver, rest)
  PROVE  OnePending' /\ OneReply'
<1>1. CASE Fail(rest) \/ Succeed(rest)
  BY <1>1, EndsQuiet
<1>2. ASSUME NEW i \in DOMAIN Program[driver], Begin(i), wire' = rest
      PROVE  OnePending' /\ OneReply'
  BY <1>2, BeginsAlone
<1> QED BY <1>1, <1>2, CurrentTyped, GoesOnSteps

-----------------------------------------------------------------------------
(* What has been accepted when a command begins.                           *)

(* An earlier command has been accepted, if that matters.                  *)
Settled(i) ==
  LET name == Program[driver][i].name IN name \in Needed(driver) => name \in accepted

OutputDone ==
  \/ "check_output" \in accepted
  \/ {"set_output", "init_mt"} \subseteq accepted

CommandsDone ==
  driver \in Marked /\ phase = "command" /\ Current.name # "reset" =>
    /\ \A i \in 1..(at - 1) : Settled(i)
    /\ driver \in XsensDrivers =>
         /\ Current.name = "init_mt" => "set_output" \in accepted
         /\ Current.name = "goto_measurement" => OutputDone

(* The number of commands of an Xsens before those about its output.       *)
Settings == 6 + Len(set_filter_profile)

(* The place of a command of an Xsens, and whether it is needed.           *)
LEMMA XsensNames ==
  ASSUME NEW type \in XsensDrivers, NEW i \in DOMAIN Program[type]
  PROVE  LET name == Program[type][i].name
         IN  /\ i \in Int /\ 1 <= i /\ i <= Settings + 5 /\ Settings \in {6, 7}
             /\ name = "check_output" <=> i = Settings + 1
             /\ name = "set_output" <=> i = Settings + 2
             /\ name = "init_mt" <=> i = Settings + 3
             /\ name = "goto_measurement" <=> i = Settings + 4
             /\ name = "reset" <=> i = Settings + 5
             /\ i \in {Settings + 1, Settings + 2, Settings + 3} => name \notin Needed(type)
<1> DEFINE p == XsensProgram(type)
           n == Settings
<1>1. /\ p \in Seq(XsensCommands(type)) /\ Len(p) = n + 5 /\ n \in {6, 7}
      /\ p[1].name = "goto_config" /\ p[2].name = "identifier"
      /\ p[3].name = "product_code" /\ p[4].name = "firmware"
      /\ p[5].name = "option_flags" /\ p[6].name = "string_output_type"
      /\ n = 7 => p[7].name = "filter_profile"
      /\ p[n + 1].name = "check_output" /\ p[n + 2].name = "set_output"
      /\ p[n + 3].name = "init_mt" /\ p[n + 4].name = "goto_measurement"
      /\ p[n + 5].name = "reset"
  BY XsensProgramIs DEF Settings
<1>2. Program[type] = p
  BY ProgramIs
<1>3. Needed(type) \subseteq {"goto_config", "identifier", "product_code", "firmware",
        "option_flags", "string_output_type", "goto_measurement", "filter_profile"}
  BY DEF Needed, set_filter_profile, do_set, Command
<1> HIDE DEF p, n
<1>4. i \in Int /\ 1 <= i /\ i <= n + 5
  BY <1>1, <1>2
<1>5. \/ i = 1 \/ i = 2 \/ i = 3 \/ i = 4 \/ i = 5 \/ i = 6 \/ (n = 7 /\ i = 7)
      \/ i = n + 1 \/ i = n + 2 \/ i = n + 3 \/ i = n + 4 \/ i = n + 5
  BY ONLY <1>1, <1>4
<1> DEFINE name == p[i].name
<1>6. CASE i = 1 \/ i = 2 \/ i = 3 \/ i = 4 \/ i = 5 \/ i = 6 \/ (n = 7 /\ i = 7)
  <2>1. name \in {"goto_config", "identifier", "product_code", "firmware",
                  "option_flags", "string_output_type", "filter_profile"}
    BY <1>1, <1>6
  <2>2. /\ name # "check_output" /\ name # "set_output" /\ name # "init_mt"
        /\ name # "goto_measurement" /\ name # "reset"
    BY ONLY <2>1
  <2>3. i <= n
    BY ONLY <1>1, <1>6
  <2>4. i # n + 1 /\ i # n + 2 /\ i # n + 3 /\ i # n + 4 /\ i # n + 5
    BY ONLY <1>1, <1>4, <2>3
  <2> QED BY <1>1, <1>2, <1>4, <2>2, <2>4 DEF n
<1>7. CASE i = n + 1
  <2>1. name = "check_output" /\ name \notin Needed(type)
    BY <1>1, <1>3, <1>7
  <2>2. i # n + 2 /\ i # n + 3 /\ i # n + 4 /\ i # n + 5
    BY ONLY <1>1, <1>7
  <2> QED BY <1>1, <1>2, <1>4, <1>7, <2>1, <2>2 DEF n
<1>8. CASE i = n + 2
  <2>1. name = "set_output" /\ name \notin Needed(type)
    BY <1>1, <1>3, <1>8
  <2>2. i # n + 1 /\ i # n + 3 /\ i # n + 4 /\ i # n + 5
    BY ONLY <1>1, <1>8
  <2> QED BY <1>1, <1>2, <1>4, <1>8, <2>1, <2>2 DEF n
<1>9. CASE i = n + 3
  <2>1. name = "init_mt" /\ name \notin Needed(type)
    BY <1>1, <1>3, <1>9
  <2>2. i # n + 1 /\ i # n + 2 /\ i # n + 4 /\ i # n + 5
    BY ONLY <1>1, <1>9
  <2> QED BY <1>1, <1>2, <1>4, <1>9, <2>1, <2>2 DEF n
<1>10. CASE i = n + 4
  <2>1. name = "goto_measurement"
    BY <1>1, <1>10
  <2>2. i # n + 1 /\ i # n + 2 /\ i # n + 3 /\ i # n + 5
    BY ONLY <1>1, <1>10
  <2> QED BY <1>1, <1>2, <1>4, <1>10, <2>1, <2>2 DEF n
<1>11. CASE i = n + 5
  <2>1. name = "reset"
    BY <1>1, <1>11
  <2>2. i # n + 1 /\ i # n + 2 /\ i # n + 3 /\ i # n + 4
    BY ONLY <1>1, <1>11
  <2> QED BY <1>1, <1>2, <1>4, <1>11, <2>1, <2>2 DEF n
<1> QED BY <1>5, <1>6, <1>7, <1>8, <1>9, <1>10, <1>11

(* What an Xsens needs is a setting, or the command that ends it.          *)
LEMMA XsensNeeded ==
  ASSUME NEW type \in XsensDrivers, NEW name \in Needed(type)
  PROVE  \/ name = "goto_measurement"
         \/ \E i \in DOMAIN Program[type] : i <= Settings /\ Program[type][i].name = name
<1> DEFINE p == XsensProgram(type)
           n == Settings
<1>1. /\ p \in Seq(XsensCommands(type)) /\ Len(p) = n + 5 /\ n \in {6, 7}
      /\ p[1].name = "goto_config" /\ p[2].name = "identifier"
      /\ p[3].name = "product_code" /\ p[4].name = "firmware"
      /\ p[5].name = "option_flags" /\ p[6].name = "string_output_type"
      /\ n = 7 => p[7].name = "filter_profile"
  BY XsensProgramIs DEF Settings
<1>2. Program[type] = p
  BY ProgramIs
<1>3. \/ name \in {"goto_config", "identifier", "product_code", "firmware",
                   "option_flags", "string_output_type", "goto_measurement"}
      \/ name = "filter_profile" /\ n = 7
  BY DEF Needed, set_filter_profile, do_set, Command, Settings
<1> HIDE DEF p, n
<1>4. \A i \in {1, 2, 3, 4, 5, 6} : i \in DOMAIN p /\ i <= n
  BY <1>1
<1>5. n = 7 => 7 \in DOMAIN p /\ 7 <= n
  BY <1>1
<1> QED BY <1>1, <1>2, <1>3, <1>4, <1>5 DEF n

(* An Xsens does not go further before its command has been accepted, but  *)
(* for the check of its output.                                            *)
LEMMA XsensGoesFurther ==
  ASSUME StreamInv, CommandsDone, driver \in XsensDrivers, phase = "command",
         NEW ok \in BOOLEAN, ok => Current.name \in accepted,
         NEW rest, XsensGoesOn(ok, rest), UNCHANGED <<driver, accepted>>
  PROVE  /\ CommandsDone'
         /\ phase' = "initialised" => Needed(driver) \subseteq accepted /\ OutputDone
<1> DEFINE n == Settings
<1>1. at \in DOMAIN Program[driver]
  BY CurrentTyped
<1>2. driver \in Marked
  BY DEF Marked
<1>3. Current.name # "reset" =>
        /\ \A i \in 1..(at - 1) : Settled(i)
        /\ Current.name = "init_mt" => "set_output" \in accepted
        /\ Current.name = "goto_measurement" => OutputDone
  BY <1>2 DEF CommandsDone
<1>4. /\ at \in Int /\ 1 <= at /\ at <= n + 5 /\ n \in {6, 7}
      /\ Current.name = "check_output" <=> at = n + 1
      /\ Current.name = "set_output" <=> at = n + 2
      /\ Current.name = "init_mt" <=> at = n + 3
      /\ Current.name = "goto_measurement" <=> at = n + 4
      /\ Current.name = "reset" <=> at = n + 5
  BY <1>1, XsensNames DEF Current
<1>5. \A i \in DOMAIN Program[driver] : i \in {n + 1, n + 2, n + 3} => Settled(i)
  BY XsensNames DEF Settled
<1>a. DOMAIN Program[driver] = 1..(n + 5)
  <2>1. Program[driver] = XsensProgram(driver) /\ Len(XsensProgram(driver)) = n + 5
        /\ XsensProgram(driver) \in Seq(XsensCommands(driver))
    BY ProgramIs, XsensProgramIs DEF Settings
  <2> QED BY <2>1
<1> HIDE DEF n
<1>6. CASE Fail(rest)
  BY <1>6 DEF Fail, CommandsDone
<1>7. CASE Current.name = "goto_measurement" /\ ok /\ Succeed(rest)
  <2>1. phase' = "initialised"
    BY <1>7 DEF Succeed
  <2>2. at = n + 4 /\ OutputDone /\ \A i \in 1..(at - 1) : Settled(i)
    BY <1>3, <1>4, <1>7
  <2>3. ASSUME NEW name \in Needed(driver) PROVE name \in accepted
    <3>1. CASE name = "goto_measurement"
      BY <1>7, <3>1
    <3>2. ASSUME NEW i \in DOMAIN Program[driver], i <= n, Program[driver][i].name = name
          PROVE  name \in accepted
      <4>1. i \in 1..(at - 1)
        BY <1>4, <1>a, <2>2, <3>2
      <4> QED BY <2>2, <3>2, <4>1 DEF Settled
    <3> QED BY <3>1, <3>2, XsensNeeded DEF n
  <2> QED BY <2>1, <2>2, <2>3 DEF CommandsDone
<1>8. ASSUME NEW i \in DOMAIN Program[driver], Begin(i), \A j \in 1..(i - 1) : Settled(j),
             Program[driver][i].name = "init_mt" => "set_output" \in accepted,
             Program[driver][i].name = "goto_measurement" => OutputDone
      PROVE  CommandsDone' /\ phase' # "initialised"
  <2>1. /\ phase' = "command" /\ at' = i /\ driver' = driver /\ accepted' = accepted
        /\ Current' = Program[driver][i]
    BY <1>8 DEF Begin, Current
  <2>2. \A j : Settled(j)' <=> Settled(j)
    BY <2>1 DEF Settled
  <2>3. OutputDone' <=> OutputDone
    BY <2>1 DEF OutputDone
  <2> QED BY <1>8, <2>1, <2>2, <2>3 DEF CommandsDone
<1>9. CASE Current.name = "check_output" /\ ok /\ GoTo("goto_measurement", rest)
  <2> DEFINE i == IndexOf(driver, "goto_measurement")
  <2>1. i \in DOMAIN Program[driver] /\ Program[driver][i].name = "goto_measurement"
    BY XsensIndices
  <2>2. i = n + 4
    BY <2>1, XsensNames DEF n
  <2>3. Begin(i)
    BY <1>9 DEF GoTo
  <2>4. OutputDone /\ at = n + 1 /\ \A j \in 1..(at - 1) : Settled(j)
    BY <1>3, <1>4, <1>9 DEF OutputDone
  <2> HIDE DEF i
  <2>5. ASSUME NEW j \in 1..(i - 1) PROVE Settled(j)
    <3>1. j \in 1..(at - 1) \/ j \in {n + 1, n + 2, n + 3}
      BY <1>4, <2>2, <2>4
    <3>2. j \in DOMAIN Program[driver]
      BY <1>4, <1>a, <2>2
    <3> QED BY <1>5, <2>4, <3>1, <3>2
  <2> QED BY <1>8, <2>1, <2>3, <2>4, <2>5
<1>10. CASE Current.name = "check_output" /\ ~ok /\ GoTo("set_output", rest)
  <2> DEFINE i == IndexOf(driver, "set_output")
  <2>1. i \in DOMAIN Program[driver] /\ Program[driver][i].name = "set_output"
    BY XsensIndices
  <2>2. i = n + 2
    BY <2>1, XsensNames DEF n
  <2>3. Begin(i)
    BY <1>10 DEF GoTo
  <2>4. at = n + 1 /\ \A j \in 1..(at - 1) : Settled(j)
    BY <1>3, <1>4, <1>10
  <2> HIDE DEF i
  <2>5. ASSUME NEW j \in 1..(i - 1) PROVE Settled(j)
    <3>1. j \in 1..(at - 1) \/ j \in {n + 1, n + 2, n + 3}
      BY <1>4, <2>2, <2>4
    <3>2. j \in DOMAIN Program[driver]
      BY <1>4, <1>a, <2>2
    <3> QED BY <1>5, <2>4, <3>1, <3>2
  <2> QED BY <1>8, <2>1, <2>3, <2>5
<1>11. CASE GoTo("reset", rest)
  <2> DEFINE i == IndexOf(driver, "reset")
  <2>1. Program[driver][i].name = "reset"
    BY XsensIndices
  <2>2. Begin(i)
    BY <1>11 DEF GoTo
  <2> HIDE DEF i
  <2>3. phase' = "command" /\ Current' = Program[driver][i]
    BY <2>2 DEF Begin, Current
  <2> QED BY <2>1, <2>3 DEF CommandsDone
<1>12. CASE /\ Current.name \notin {"check_output", "reset", "goto_measurement"} /\ ok
            /\ Begin(at + 1) /\ wire' = rest
  <2>1. at + 1 \in DOMAIN Program[driver]
    BY <1>1, <1>12, NotLast DEF Current
  <2>2. Current.name \in accepted /\ \A j \in 1..(at - 1) : Settled(j)
    BY <1>3, <1>12
  <2>3. ASSUME NEW j \in 1..((at + 1) - 1) PROVE Settled(j)
    <3>1. j \in 1..(at - 1) \/ j = at
      BY <1>4
    <3> QED BY <2>2, <3>1 DEF Settled, Current
  <2>4. Program[driver][at + 1].name = "init_mt" => "set_output" \in accepted
    <3> SUFFICES ASSUME Program[driver][at + 1].name = "init_mt"
                 PROVE  "set_output" \in accepted
      OBVIOUS
    <3>1. at + 1 = n + 3
      BY <2>1, XsensNames DEF n
    <3>2. at = n + 2
      BY <1>4, <3>1
    <3> QED BY <1>4, <2>2, <3>2
  <2>5. Program[driver][at + 1].name = "goto_measurement" => OutputDone
    <3> SUFFICES ASSUME Program[driver][at + 1].name = "goto_measurement"
                 PROVE  OutputDone
      OBVIOUS
    <3>1. at + 1 = n + 4
      BY <2>1, XsensNames DEF n
    <3>2. at = n + 3
      BY <1>4, <3>1
    <3> QED BY <1>3, <1>4, <2>2, <3>2 DEF OutputDone
  <2> DEFINE i == at + 1
  <2>6. \A j \in 1..(i - 1) : Settled(j)
    BY <2>3
  <2> HIDE DEF i
  <2>7. Begin(i) /\ i \in DOMAIN Program[driver]
    BY <1>12, <2>1 DEF i
  <2>8. /\ Program[driver][i].name = "init_mt" => "set_output" \in accepted
        /\ Program[driver][i].name = "goto_measurement" => OutputDone
    BY <2>4, <2>5 DEF i
  <2> QED BY <1>8, <2>6, <2>7, <2>8
<1> QED BY <1>6, <1>7, <1>9, <1>10, <1>11, <1>12, XsensGoesOnCases

(* Nor does a Ublox, but for nav5 without GLONASS.                         *)
LEMMA UbloxGoesFurther ==
  ASSUME StreamInv, CommandsDone, driver \in UbloxDrivers, phase = "command",
         NEW ok \in BOOLEAN, ok => Current.name \in accepted,
         NEW rest, UbloxGoesOn(ok, rest), UNCHANGED <<driver, accepted>>
  PROVE  /\ CommandsDone'
         /\ phase' = "initialised" => Needed(driver) \subseteq accepted
<1>1. at \in DOMAIN Program[driver] /\ driver \in Marked /\ driver \notin XsensDrivers
  BY CurrentTyped, DriversApart DEF Marked
<1> DEFINE p == UbloxProgram
<1>2. /\ p \in Seq(UbloxCommands) /\ Len(p) = 13
      /\ p[1].name = "prt_usb" /\ p[2].name = "prt_uart" /\ p[3].name = "mon_ver"
      /\ p[4].name = "sec_uniqid" /\ p[5].name = "pms" /\ p[6].name = "nav5"
      /\ p[7].name = "gnss" /\ p[8].name = "rate" /\ p[9].name = "hnr"
      /\ p[10].name = "nav_pvt" /\ p[11].name = "nav_att" /\ p[12].name = "esf_ins"
      /\ p[13].name = "esf_raw"
  BY UbloxProgramIs
<1>3. Program[driver] = p
  BY ProgramIs
<1> HIDE DEF p
<1>4. /\ DOMAIN Program[driver] = 1..13 /\ at \in 1..13
      /\ Current.name = "esf_raw" => at = 13
      /\ Current.name # "reset"
  <2>1. DOMAIN p = 1..13
    BY <1>2
  <2>2. at \in 1..13
    BY <1>1, <1>3, <2>1
  <2>3. \/ at = 1 \/ at = 2 \/ at = 3 \/ at = 4 \/ at = 5 \/ at = 6 \/ at = 7
        \/ at = 8 \/ at = 9 \/ at = 10 \/ at = 11 \/ at = 12 \/ at = 13
    BY ONLY <2>2
  <2>4. (p[at].name = "esf_raw" => at = 13) /\ p[at].name # "reset"
    BY <1>2, <2>3
  <2> QED BY <1>3, <2>1, <2>2, <2>4 DEF Current
<1>5. \A i \in 1..(at - 1) : Settled(i)
  BY <1>1, <1>4 DEF CommandsDone
<1>6. CASE Fail(rest)
  BY <1>6 DEF Fail, CommandsDone
<1>7. CASE Current.name = "esf_raw" /\ ok /\ Succeed(rest)
  <2>1. phase' = "initialised"
    BY <1>7 DEF Succeed
  <2>2. ASSUME NEW name \in Needed(driver) PROVE name \in accepted
    <3>1. PICK i \in 1..13 : Program[driver][i].name = name
      BY <1>1, <1>4 DEF Needed
    <3>2. i \in 1..(at - 1) \/ i = at
      BY <1>4, <1>7
    <3> QED BY <1>5, <1>7, <3>1, <3>2 DEF Settled, Current
  <2> QED BY <2>1, <2>2 DEF CommandsDone
<1>8. CASE /\ Current.name # "esf_raw"
           /\ ok \/ (Current.name = "nav5" /\ driver # "glonass")
           /\ Begin(at + 1) /\ wire' = rest
  <2>1. /\ phase' = "command" /\ at' = at + 1 /\ driver' = driver /\ accepted' = accepted
    BY <1>8 DEF Begin
  <2>2. Settled(at)
    <3>1. CASE ok
      BY <3>1 DEF Settled, Current
    <3>2. CASE Current.name = "nav5" /\ driver # "glonass"
      <4>1. driver \in {"galileo", "beidou"}
        BY <3>2 DEF UbloxDrivers
      <4>2. "nav5" \notin Needed(driver)
        BY <1>1, <4>1 DEF Needed
      <4> QED BY <3>2, <4>2 DEF Settled, Current
    <3> QED BY <1>8, <3>1, <3>2
  <2>3. \A j : Settled(j)' <=> Settled(j)
    BY <2>1 DEF Settled
  <2>4. ASSUME NEW j \in 1..((at + 1) - 1) PROVE Settled(j)
    <3>1. j \in 1..(at - 1) \/ j = at
      BY <1>4
    <3> QED BY <1>5, <2>2, <3>1
  <2> QED BY <1>1, <2>1, <2>3, <2>4 DEF CommandsDone
<1>9. \/ Fail(rest)
      \/ Current.name = "esf_raw" /\ ok /\ Succeed(rest)
      \/ /\ Current.name # "esf_raw"
         /\ ok \/ (Current.name = "nav5" /\ driver # "glonass")
         /\ Begin(at + 1) /\ wire' = rest
  BY GoesOnIs DEF UbloxGoesOn
<1> QED BY <1>6, <1>7, <1>8, <1>9

(* A Runwell only answers when it is asked.                                *)
RunwellDone ==
  driver = "runwell" /\ phase = "command" /\ ~strayed =>
    /\ Stream # <<>> => Current.name \in accepted
    /\ Contains(pending, at) => Stream = <<>>
    /\ at = 1 => Len(Stream) <= 17
    /\ at = 2 => "request_id" \in accepted

(* So it does not go further either.                                       *)
LEMMA RunwellGoesFurther ==
  ASSUME StreamInv, RunwellDone, driver = "runwell", phase = "command",
         NEW ok \in BOOLEAN, ok /\ ~strayed => Current.name \in accepted,
         NEW rest, ok /\ ~strayed /\ at = 1 => rest = <<>>,
         RunwellGoesOn(ok, rest), UNCHANGED <<driver, accepted, strayed>>
  PROVE  /\ RunwellDone'
         /\ phase' = "initialised" => strayed \/ Needed(driver) \subseteq accepted
<1> DEFINE p == Program["runwell"]
<1>1. /\ Len(p) = 2 /\ p \in Seq({p[1], p[2]})
      /\ p[1].name = "request_id" /\ p[2].name = "request_version"
  BY RunwellProgramIs
<1>2. at \in DOMAIN p
  BY CurrentTyped
<1>3. driver \notin XsensDrivers /\ driver \notin {"galileo", "beidou"}
  BY DriversApart
<1> HIDE DEF p
<1>4. DOMAIN p = 1..2 /\ at \in {1, 2}
  BY <1>1, <1>2
<1>5. Needed(driver) = {p[i].name : i \in 1..2}
  BY <1>3, <1>4 DEF Needed, p
<1>6. ~strayed /\ at = 2 => "request_id" \in accepted
  BY DEF RunwellDone
<1>7. CASE Fail(rest)
  BY <1>7 DEF Fail, RunwellDone
<1>8. CASE ok /\ at = 2 /\ Succeed(rest)
  <2>1. phase' = "initialised"
    BY <1>8 DEF Succeed
  <2>2. ~strayed => "request_id" \in accepted /\ "request_version" \in accepted
    BY <1>1, <1>6, <1>8 DEF Current, p
  <2>3. ASSUME ~strayed, NEW name \in Needed(driver) PROVE name \in accepted
    <3>1. name = "request_id" \/ name = "request_version"
      BY <1>1, <1>5
    <3> QED BY <2>2, <2>3, <3>1
  <2> QED BY <2>1, <2>3 DEF RunwellDone
<1>9. CASE ok /\ at # 2 /\ Begin(at + 1) /\ wire' = rest
  <2>1. at = 1 /\ at' = 2 /\ phase' = "command" /\ response' = <<>> /\ wire' = rest
    BY <1>4, <1>9 DEF Begin
  <2>2. ASSUME ~strayed
        PROVE  Stream' = <<>> /\ "request_id" \in accepted
    <3>1. rest = <<>> /\ Current.name = "request_id"
      BY <1>1, <1>9, <2>1, <2>2 DEF Current, p
    <3>2. <<>> \o <<>> = <<>>
      OBVIOUS
    <3> QED BY <1>9, <2>1, <2>2, <3>1, <3>2 DEF Stream
  <2> QED BY <2>1, <2>2 DEF RunwellDone
<1>10. \/ Fail(rest)
       \/ (ok /\ at = 2 /\ Succeed(rest))
       \/ (ok /\ at # 2 /\ Begin(at + 1) /\ wire' = rest)
  <2>1. Len(Program[driver]) = 2
    BY <1>1 DEF p
  <2> QED BY <2>1 DEF RunwellGoesOn
<1> QED BY <1>7, <1>8, <1>9, <1>10

(* A Runwell that is initialised is asked for data.                        *)
RequestsGoOn == phase = "initialised" /\ driver = "runwell" => waits + due > 0

(* Initialised, a device is ready.                                         *)
Ready ==
  phase = "initialised" =>
    /\ strayed \/ Needed(driver) \subseteq accepted
    /\ driver \in XsensDrivers => OutputDone

ReplyInv ==
  OnePending /\ OneReply /\ CommandsDone /\ RunwellDone /\ RequestsGoOn /\ Ready

(* Each driver goes further only with what it needs.                       *)
LEMMA GoesFurther ==
  ASSUME StreamInv, ReplyInv, phase = "command", NEW ok \in BOOLEAN,
         ok => (driver \in Marked \/ ~strayed => Current.name \in accepted),
         NEW rest, ok /\ driver = "runwell" /\ ~strayed /\ at = 1 => rest = <<>>,
         GoesOn(ok, rest), UNCHANGED <<driver, accepted, strayed, due>>
  PROVE  CommandsDone' /\ RunwellDone' /\ RequestsGoOn' /\ Ready'
<1>1. driver \in AllDrivers /\ at \in DOMAIN Program[driver]
  BY CurrentTyped
<1>2. CommandsDone /\ RunwellDone
  BY DEF ReplyInv
<1>3. RequestsGoOn'
  <2>1. phase' = "initialised" => Succeed(rest)
    BY <1>1, GoesOnSteps DEF Fail, Begin
  <2>2. due \in Nat
    BY RequestsTyped
  <2>3. Succeed(rest) /\ driver = "runwell" => waits' = 1
    BY DEF Succeed, SetRequest
  <2>4. waits' = 1 /\ due' = due => waits' + due' > 0
    BY ONLY <2>2
  <2> QED BY <2>1, <2>3, <2>4 DEF RequestsGoOn
<1>4. OutputDone' <=> OutputDone
  BY DEF OutputDone
<1>5. CASE driver \in XsensDrivers
  <2>1. driver \in Marked /\ driver # "runwell"
    BY <1>5, DriversApart DEF Marked
  <2>2. XsensGoesOn(ok, rest)
    BY <1>5, GoesOnIs
  <2>3. /\ CommandsDone'
        /\ phase' = "initialised" => Needed(driver) \subseteq accepted /\ OutputDone
    BY <1>2, <1>5, <2>1, <2>2, XsensGoesFurther
  <2> QED BY <1>3, <1>4, <2>1, <2>3 DEF RunwellDone, Ready
<1>6. CASE driver \in UbloxDrivers
  <2>1. driver \in Marked /\ driver # "runwell" /\ driver \notin XsensDrivers
    BY <1>6, DriversApart DEF Marked
  <2>2. UbloxGoesOn(ok, rest)
    BY <1>6, GoesOnIs
  <2>3. /\ CommandsDone'
        /\ phase' = "initialised" => Needed(driver) \subseteq accepted
    BY <1>2, <1>6, <2>1, <2>2, UbloxGoesFurther
  <2> QED BY <1>3, <2>1, <2>3 DEF RunwellDone, Ready
<1>7. CASE driver = "runwell"
  <2>1. driver \notin Marked /\ driver \notin XsensDrivers
    BY <1>7, DriversApart DEF Marked
  <2>2. RunwellGoesOn(ok, rest)
    BY <1>7, GoesOnIs
  <2>3. /\ RunwellDone'
        /\ phase' = "initialised" => strayed \/ Needed(driver) \subseteq accepted
    BY <1>2, <1>7, <2>2, RunwellGoesFurther
  <2> QED BY <1>3, <2>1, <2>3 DEF CommandsDone, Ready
<1> QED BY <1>1, <1>5, <1>6, <1>7 DEF AllDrivers

-----------------------------------------------------------------------------
(* The steps and the replies.                                              *)

(* What there is to read is the rest of the stream.                        *)
LEMMA StreamTyped ==
  ASSUME StreamInv
  PROVE  /\ Stream \in Seq(Byte)
         /\ \A n \in 1..Len(wire) :
              /\ Now(n) \in Seq(Byte) /\ Now(n) # <<>> /\ Rest(n) \in Seq(Byte)
              /\ Stream = Now(n) \o Rest(n)
<1>1. response \in Seq(Byte) /\ wire \in Seq(Byte)
  BY CurrentTyped
<1>2. Stream \in Seq(Byte)
  BY <1>1, Concat DEF Stream
<1>3. ASSUME NEW n \in 1..Len(wire)
      PROVE  /\ Now(n) \in Seq(Byte) /\ Now(n) # <<>> /\ Rest(n) \in Seq(Byte)
             /\ Stream = Now(n) \o Rest(n)
  BY Taken DEF Stream
<1> QED BY <1>2, <1>3

(* The current command of a Marked driver, and its replies.                *)
LEMMA CurrentReplies ==
  ASSUME StreamInv, driver \in Marked
  PROVE  ReplyOf(driver, Current) /\ Current.expected \in Seq(Byte)
<1>1. at \in DOMAIN Program[driver]
  BY CurrentTyped
<1>2. ReplyOf(driver, Current)
  BY <1>1, MarkedReplies DEF Current
<1> QED BY <1>2 DEF ReplyOf, Replying

(* What the device does not have to deal with is not the command.          *)
LEMMA NotPending ==
  ASSUME StreamInv, OnePending, driver \in Marked \/ ~strayed,
         phase = "command" => ~Contains(pending, at)
  PROVE  AllAside(pending)
  BY DEF OnePending, Contains, AllAside

(* What is found is a reply, the only one, of a device that has dealt with *)
(* the command.                                                            *)
LEMMA ReadFinds ==
  ASSUME StreamInv, ReplyInv, phase = "command", driver \in Marked,
         NEW n \in 1..Len(wire), NEW items, Replying(driver, items),
         contains_at(Now(n), items) >= 0
  PROVE  /\ NoReply(driver, Rest(n)) /\ AllAside(pending)
         /\ items = Current.expected => Current.name \in accepted
<1> DEFINE now == Now(n)
           rest == Rest(n)
           found == contains_at(now, items)
<1>1. now \in Seq(Byte) /\ rest \in Seq(Byte) /\ Stream = now \o rest
  BY StreamTyped
<1>2. items \in Seq(Byte)
  BY DEF Replying
<1>3. found \in 0..Len(now) /\ Occurs(now, items, found)
  <2> HIDE DEF now
  <2>1. \/ found \in 0..Len(now) /\ Occurs(now, items, found)
        \/ found = -1
    BY <1>1, <1>2, FirstPlaceFound
  <2>2. found >= 0
    BY DEF now
  <2> HIDE DEF found
  <2> QED BY <2>1, <2>2
<1>4. /\ OneReplyIn(driver, Stream)
      /\ Contains(pending, at) => NoReply(driver, Stream)
      /\ Current.name \in accepted \/ NoneExpected(driver, Stream, Current.expected)
  BY DEF ReplyInv, OneReply
<1> HIDE DEF now, rest, found
<1>5. found \in Nat
  BY <1>1, <1>3
<1>6. /\ ReplyAt(driver, Stream, found) /\ Agree(Stream, items, found)
      /\ NoReply(driver, rest)
  BY <1>1, <1>3, <1>4, <1>5, ReplyFound
<1>7. ~Contains(pending, at)
  BY <1>4, <1>5, <1>6 DEF NoReply
<1>8. AllAside(pending)
  BY <1>7, NotPending DEF ReplyInv
<1>9. items = Current.expected => Current.name \in accepted
  BY <1>4, <1>5, <1>6 DEF NoneExpected
<1> QED BY <1>6, <1>8, <1>9 DEF rest

(* What is read of a Runwell it has sent because it was asked.             *)
LEMMA RunwellReads ==
  ASSUME StreamInv, ReplyInv, phase = "command", driver = "runwell", ~strayed,
         NEW n \in 1..Len(wire)
  PROVE  /\ AllAside(pending) /\ Current.name \in accepted
         /\ at = 1 /\ Whole(Looked(Now(n))) => Rest(n) = <<>>
<1> DEFINE now == Now(n)
           rest == Rest(n)
           look == Looked(Now(n))
<1>1. now \in Seq(Byte) /\ rest \in Seq(Byte) /\ Stream = now \o rest /\ now # <<>>
  BY StreamTyped
<1>2. /\ Stream # <<>> => Current.name \in accepted
      /\ Contains(pending, at) => Stream = <<>>
      /\ at = 1 => Len(Stream) <= 17
  BY DEF ReplyInv, RunwellDone
<1> HIDE DEF now, rest
<1>3. /\ Len(Stream) = Len(now) + Len(rest) /\ Len(now) \in Nat /\ Len(rest) \in Nat
      /\ Len(now) > 0
  BY <1>1, Concat
<1>4. Stream # <<>>
  <2>1. Len(Stream) # 0
    BY ONLY <1>3
  <2> QED BY <2>1
<1>5. AllAside(pending)
  BY <1>2, <1>4, NotPending DEF ReplyInv
<1>6. ASSUME at = 1, Whole(look) PROVE rest = <<>>
  <2>1. look.response = now /\ look.need = 17
    BY <1>6, Looking DEF now
  <2>2. Len(now) >= 17
    BY <1>6, <2>1 DEF Whole
  <2>3. Len(Stream) <= 17
    BY <1>2, <1>6
  <2>4. Len(rest) = 0
    BY ONLY <1>3, <2>2, <2>3
  <2> QED BY <1>1, <2>4
<1> QED BY <1>2, <1>4, <1>5, <1>6 DEF rest

(* Nothing moves but how the stream is divided.                            *)
LEMMA StreamSame ==
  ASSUME ReplyInv, Stream' = Stream,
         UNCHANGED <<driver, phase, at, pending, accepted, strayed>>, RequestsGoOn'
  PROVE  ReplyInv'
<1>1. Current' = Current /\ (\A i : Settled(i)' <=> Settled(i)) /\ (OutputDone' <=> OutputDone)
  BY DEF Current, Settled, OutputDone
<1>2. OnePending' /\ OneReply'
  BY <1>1 DEF ReplyInv, OnePending, OneReply
<1>3. CommandsDone'
  BY <1>1 DEF ReplyInv, CommandsDone
<1>4. RunwellDone' /\ Ready'
  BY <1>1 DEF ReplyInv, RunwellDone, Ready
<1> QED BY <1>2, <1>3, <1>4 DEF ReplyInv

(* A read goes on with the next command if what it has found was accepted. *)
LEMMA ReadReplies ==
  ASSUME StreamInv, ReplyInv, Read
  PROVE  ReplyInv'
<1>1. PICK n \in 1..Len(wire) :
        \/ Refused(Looked(Now(n)), Rest(n)) \/ Answered(Looked(Now(n)), Rest(n))
        \/ ReadsOn(Looked(Now(n)), Rest(n))
  BY DEF Read, Now, Rest
<1>2. /\ phase = "command"
      /\ UNCHANGED <<driver, accepted, attempts, unsolicited, due, requests, strayed>>
  BY DEF Read
<1>3. Rest(n) \in Seq(Byte)
  BY StreamTyped
<1>4. driver \in AllDrivers /\ driver \in Marked \cup {"runwell"}
  BY CurrentTyped DEF AllDrivers, Marked
<1>5. ASSUME NEW ok \in BOOLEAN, GoesOn(ok, Rest(n)),
             driver \in Marked \/ ~strayed => AllAside(pending),
             driver \in Marked => NoReply(driver, Rest(n)),
             ok => (driver \in Marked \/ ~strayed => Current.name \in accepted),
             ok /\ driver = "runwell" /\ ~strayed /\ at = 1 => Rest(n) = <<>>
      PROVE  ReplyInv'
  <2>1. OnePending' /\ OneReply'
    BY <1>2, <1>3, <1>5, GoesOnAlone
  <2>2. CommandsDone' /\ RunwellDone' /\ RequestsGoOn' /\ Ready'
    BY <1>2, <1>5, GoesFurther
  <2> QED BY <2>1, <2>2 DEF ReplyInv
<1>6. driver = "runwell" /\ ~strayed =>
        /\ AllAside(pending) /\ Current.name \in accepted
        /\ at = 1 /\ Whole(Looked(Now(n))) => Rest(n) = <<>>
  BY <1>2, RunwellReads
<1>7. CASE Refused(Looked(Now(n)), Rest(n))
  <2>1. GoesOn(FALSE, Rest(n)) /\ contains_at(Now(n), Current.error) >= 0
    BY <1>7 DEF Refused, Looked
  <2>2. driver \in Marked => NoReply(driver, Rest(n)) /\ AllAside(pending)
    <3> SUFFICES ASSUME driver \in Marked
                 PROVE  NoReply(driver, Rest(n)) /\ AllAside(pending)
      OBVIOUS
    <3>1. Replying(driver, Current.error)
      BY CurrentReplies DEF ReplyOf
    <3> QED BY <1>2, <2>1, <3>1, ReadFinds
  <2>3. driver \in Marked \/ ~strayed => AllAside(pending)
    BY <1>4, <1>6, <2>2
  <2> QED BY <1>5, <2>1, <2>2, <2>3
<1>8. CASE Answered(Looked(Now(n)), Rest(n))
  <2> DEFINE answer == From(Now(n), Looked(Now(n)).found)
  <2>1. /\ Whole(Looked(Now(n))) /\ GoesOn(Usable(answer), Rest(n))
    BY <1>8, Looking, <1>2 DEF Answered, From
  <2>2. Usable(answer) \in BOOLEAN
    BY DEF Usable
  <2>3. contains_at(Now(n), Current.expected) >= 0
    BY <1>2, <2>1, Looking DEF Whole
  <2>4. driver \in Marked =>
          NoReply(driver, Rest(n)) /\ AllAside(pending) /\ Current.name \in accepted
    <3> SUFFICES ASSUME driver \in Marked
                 PROVE  /\ NoReply(driver, Rest(n)) /\ AllAside(pending)
                        /\ Current.name \in accepted
      OBVIOUS
    <3>1. Replying(driver, Current.expected)
      BY CurrentReplies DEF ReplyOf
    <3> QED BY <1>2, <2>3, <3>1, ReadFinds
  <2> HIDE DEF answer
  <2>5. /\ driver \in Marked \/ ~strayed => AllAside(pending) /\ Current.name \in accepted
        /\ driver = "runwell" /\ ~strayed /\ at = 1 => Rest(n) = <<>>
    BY <1>4, <1>6, <2>1, <2>4
  <2> QED BY <1>5, <2>1, <2>2, <2>4, <2>5
<1>9. CASE ReadsOn(Looked(Now(n)), Rest(n))
  <2>1. /\ response' = Now(n) /\ wire' = Rest(n)
        /\ UNCHANGED <<phase, at, pending, waits>>
    BY <1>2, <1>9, Looking DEF ReadsOn
  <2>2. Stream' = Stream
    BY <2>1, StreamTyped DEF Stream
  <2>3. RequestsGoOn'
    BY <1>2, <2>1 DEF RequestsGoOn
  <2> QED BY <1>2, <2>1, <2>2, <2>3, StreamSame
<1> QED BY <1>1, <1>7, <1>8, <1>9

(* A device that is not Slow has dealt with all that it was sent before a  *)
(* timeout.                                                                *)
LEMMA TimeoutReplies ==
  ASSUME Slow = FALSE, StreamInv, ReplyInv, Timeout
  PROVE  ReplyInv'
<1>1. /\ phase = "command" /\ wire = <<>> /\ pending = <<>> /\ GoesOn(FALSE, wire)
      /\ UNCHANGED <<driver, id_, accepted, attempts, unsolicited, due, requests, strayed>>
  BY DEF Timeout
<1>2. AllAside(pending) /\ (\A type : NoReply(type, wire)) /\ wire \in Seq(Byte)
  <2>1. AllAside(<<>>)
    BY DEF AllAside
  <2> QED BY <1>1, <2>1, NothingReplies
<1>3. OnePending' /\ OneReply'
  BY <1>1, <1>2, GoesOnAlone
<1>4. CommandsDone' /\ RunwellDone' /\ RequestsGoOn' /\ Ready'
  BY <1>1, GoesFurther
<1> QED BY <1>3, <1>4 DEF ReplyInv

(* Between the commands nothing but asides is pending.                     *)
LEMMA QuietSteps ==
  ASSUME StreamInv, ReplyInv, driver' = driver,
         phase' \in {"closed", "wakeup", "configuration"}, at' = at,
         driver \in Marked \/ ~strayed' => AllAside(pending'),
         driver \in Marked => NoReply(driver, Stream')
  PROVE  ReplyInv'
<1>1. at # Aside
  <2>1. at \in DOMAIN Program[driver] /\ DOMAIN Program[driver] = 1..Len(Program[driver])
    BY CurrentTyped, ProgramLength
  <2> QED BY <2>1 DEF Aside
<1>2. OnePending'
  BY <1>1 DEF OnePending, AllAside
<1>3. OneReply' /\ CommandsDone' /\ RunwellDone' /\ RequestsGoOn' /\ Ready'
  BY DEF OneReply, CommandsDone, RunwellDone, RequestsGoOn, Ready
<1> QED BY <1>2, <1>3 DEF ReplyInv

(* The first command needs nothing.                                        *)
LEMMA BeginsFirst ==
  ASSUME StreamInv, ReplyInv, Begin(1), NEW rest \in Seq(Byte), wire' = rest,
         driver' = driver,
         driver \in Marked => NoReply(driver, rest), driver = "runwell" => rest = <<>>,
         driver \in Marked \/ ~strayed' => AllAside(pending)
  PROVE  ReplyInv'
<1>1. 1 \in DOMAIN Program[driver] /\ driver \in AllDrivers
  BY CurrentTyped, ProgramLength
<1>2. OnePending' /\ OneReply' /\ Stream' = rest
  BY <1>1, BeginsAlone
<1>3. phase' = "command" /\ at' = 1 /\ Current' = Program[driver][1]
  BY DEF Begin, Current
<1>4. CommandsDone'
  <2>1. ASSUME driver \in XsensDrivers
        PROVE  Current'.name # "init_mt" /\ Current'.name # "goto_measurement"
    <3> DEFINE n == Settings
    <3>1. /\ n \in {6, 7}
          /\ Current'.name = "init_mt" <=> 1 = n + 3
          /\ Current'.name = "goto_measurement" <=> 1 = n + 4
      BY <1>1, <1>3, <2>1, XsensNames
    <3> HIDE DEF n
    <3> QED BY <3>1
  <2>2. 1..(at' - 1) = {}
    BY <1>3
  <2> QED BY <1>3, <2>1, <2>2 DEF CommandsDone
<1>5. RunwellDone'
  <2>1. driver = "runwell" => Stream' = <<>>
    BY <1>2
  <2> QED BY <1>3, <2>1 DEF RunwellDone
<1>6. RequestsGoOn' /\ Ready'
  BY <1>3 DEF RequestsGoOn, Ready
<1> QED BY <1>2, <1>4, <1>5, <1>6 DEF ReplyInv

(* One more aside makes no difference.                                     *)
LEMMA AsideAppended ==
  ASSUME StreamInv
  PROVE  LET q == Append(pending, Aside)
         IN  /\ Len(q) = Len(pending) + 1 /\ Len(pending) \in Nat
             /\ q[Len(pending) + 1] = Aside
             /\ \A j \in 1..Len(pending) : q[j] = pending[j]
             /\ \A j \in 1..Len(q) : j \in 1..Len(pending) \/ j = Len(pending) + 1
             /\ AllAside(pending) => AllAside(q)
<1> DEFINE S == DOMAIN Program[driver] \cup {Aside}
           q == Append(pending, Aside)
<1>1. pending \in Seq(S) /\ Aside \in S
  BY CurrentTyped
<1> HIDE DEF S
<1>2. /\ Len(q) = Len(pending) + 1 /\ Len(pending) \in Nat
      /\ q[Len(pending) + 1] = Aside
      /\ \A j \in 1..Len(pending) : q[j] = pending[j]
  BY <1>1
<1> HIDE DEF q
<1>3. \A j \in 1..Len(q) : j \in 1..Len(pending) \/ j = Len(pending) + 1
  BY <1>2
<1>4. AllAside(pending) => AllAside(q)
  BY <1>2, <1>3 DEF AllAside
<1> QED BY <1>2, <1>3, <1>4 DEF q

(* The beginning of an initialisation.                                     *)
LEMMA ConnectReplies ==
  ASSUME StreamInv, ReplyInv, Connect
  PROVE  ReplyInv'
<1>1. /\ phase = "closed" /\ wire = <<>> /\ response = <<>>
      /\ driver' = driver /\ (~strayed' => ~strayed)
  BY DEF Connect, StreamInv, IdleIsEmpty
<1>2. driver \in Marked \/ ~strayed' => AllAside(pending)
  BY <1>1, NotPending DEF ReplyInv
<1>3. CASE driver = "mti_g_710"
  <2>1. /\ phase' = "wakeup" /\ wire' \in {<<>>, Wakeup}
        /\ UNCHANGED <<pending, at, response>>
    BY <1>3 DEF Connect, command_vars
  <2>2. driver \in XsensDrivers
    BY <1>3 DEF XsensDrivers
  <2>3. Silent(driver, Wakeup)
    BY <2>2, WakeupSilent
  <2>4. wire' \in Seq(Byte) /\ NoReply(driver, wire')
    <3>1. <<>> \in Seq(Byte)
      OBVIOUS
    <3> QED BY <2>1, <2>3, <3>1, NothingReplies DEF Silent, AtMostOne
  <2>5. Stream' = wire'
    <3>1. <<>> \o wire' = wire'
      BY <2>4, ConcatEmptySeq
    <3> QED BY <1>1, <2>1, <3>1 DEF Stream
  <2> QED BY <1>1, <1>2, <2>1, <2>4, <2>5, QuietSteps
<1>4. CASE driver # "mti_g_710"
  <2>1. Begin(1) /\ wire' = wire /\ wire \in Seq(Byte)
    BY <1>4, CurrentTyped DEF Connect
  <2>2. NoReply(driver, wire)
    BY <1>1, NothingReplies
  <2> QED BY <1>1, <1>2, <2>1, <2>2, BeginsFirst
<1> QED BY <1>3, <1>4

(* Looking for a wakeup, and the timeouts of it.                           *)
LEMMA WakeupReplies ==
  ASSUME StreamInv, ReplyInv,
         ReadWakeup \/ WakeupAckCancelled \/ ReadConfiguration \/ WakeupTimeout
  PROVE  ReplyInv'
<1>1. /\ phase \in {"wakeup", "configuration"} /\ response = <<>>
      /\ driver \in Marked /\ driver # "runwell" /\ driver' = driver
  BY CurrentTyped DEF ReadWakeup, WakeupAckCancelled, ReadConfiguration, WakeupTimeout,
       StreamInv, IdleIsEmpty, RunwellAsks, AllDrivers, Marked
<1>2. AllAside(pending) /\ NoReply(driver, Stream)
  BY <1>1, NotPending DEF ReplyInv, OneReply
<1>3. wire \in Seq(Byte) /\ Stream = wire
  <2>1. wire \in Seq(Byte)
    BY CurrentTyped
  <2>2. <<>> \o wire = wire
    BY <2>1, ConcatEmptySeq
  <2> QED BY <1>1, <2>1, <2>2 DEF Stream
<1>4. \A n \in 1..Len(wire) : Rest(n) \in Seq(Byte) /\ NoReply(driver, Rest(n))
  <2> SUFFICES ASSUME NEW n \in 1..Len(wire)
               PROVE  Rest(n) \in Seq(Byte) /\ NoReply(driver, Rest(n))
    OBVIOUS
  <2>1. Now(n) \in Seq(Byte) /\ Rest(n) \in Seq(Byte) /\ Stream = Now(n) \o Rest(n)
    BY StreamTyped
  <2> DEFINE now == Now(n)
             rest == Rest(n)
  <2> HIDE DEF now, rest
  <2>2. now \in Seq(Byte) /\ rest \in Seq(Byte) /\ Stream = now \o rest
    BY <2>1 DEF now, rest
  <2>3. ASSUME NEW k \in Nat, ReplyAt(driver, rest, k) PROVE FALSE
    <3>1. ReplyAt(driver, now \o rest, Len(now) + k)
      BY ONLY <2>2, <2>3, k \in Nat, RepliesLater
    <3>2. Len(now) + k \in Nat
      BY <2>2
    <3> QED BY <1>2, <2>2, <3>1, <3>2 DEF NoReply
  <2>4. NoReply(driver, rest)
    BY <2>3 DEF NoReply
  <2> QED BY <2>1, <2>4 DEF rest
<1>5. ASSUME Begin(1), NEW rest \in Seq(Byte), wire' = rest, NoReply(driver, rest)
      PROVE  ReplyInv'
  BY <1>1, <1>2, <1>5, BeginsFirst
<1>6. ASSUME phase' \in {"closed", "configuration"}, UNCHANGED <<at, response>>,
             wire' \in Seq(Byte), NoReply(driver, wire'),
             pending' \in {pending, Append(pending, Aside)}
      PROVE  ReplyInv'
  <2>1. AllAside(pending')
    BY <1>2, <1>6, AsideAppended
  <2>2. Stream' = wire'
    <3>1. <<>> \o wire' = wire'
      BY <1>6, ConcatEmptySeq
    <3> QED BY <1>1, <1>6, <3>1 DEF Stream
  <2> QED BY <1>1, <1>6, <2>1, <2>2, QuietSteps
<1>7. CASE ReadWakeup
  <2>1. PICK n \in 1..Len(wire) :
          \/ /\ phase' = "configuration" /\ wire' = Rest(n)
             /\ pending' = Append(pending, Aside)
             /\ UNCHANGED <<waits, command_vars>>
          \/ Begin(1) /\ wire' = Rest(n)
    BY <1>7 DEF ReadWakeup, Rest
  <2>2. CASE Begin(1) /\ wire' = Rest(n)
    BY <1>4, <1>5, <2>2
  <2>3. CASE /\ phase' = "configuration" /\ wire' = Rest(n)
             /\ pending' = Append(pending, Aside)
             /\ UNCHANGED <<waits, command_vars>>
    BY <1>4, <1>6, <2>3 DEF command_vars
  <2> QED BY <2>1, <2>2, <2>3
<1>8. CASE WakeupAckCancelled
  <2>1. /\ phase' = "closed" /\ wire' = <<>>
        /\ pending' \in {pending, Append(pending, Aside)} /\ UNCHANGED <<at, response>>
    BY <1>8 DEF WakeupAckCancelled, command_vars
  <2>2. wire' \in Seq(Byte) /\ NoReply(driver, wire')
    BY <2>1, NothingReplies
  <2> QED BY <1>6, <2>1, <2>2
<1>9. CASE ReadConfiguration
  <2>1. PICK n \in 1..Len(wire) : Begin(1) /\ wire' = Rest(n)
    BY <1>9 DEF ReadConfiguration, Rest
  <2> QED BY <1>4, <1>5, <2>1
<1>10. CASE WakeupTimeout
  <2>1. Begin(1) /\ wire' = wire
    BY <1>10 DEF WakeupTimeout
  <2>2. NoReply(driver, wire)
    BY <1>2, <1>3
  <2> QED BY <1>3, <1>5, <2>1, <2>2
<1> QED BY <1>7, <1>8, <1>9, <1>10

(* The end of a connection, and the requests for data.                     *)
LEMMA IdleReplies ==
  ASSUME StreamInv, ReplyInv, Disconnect \/ RequestDue \/ RequestData
  PROVE  ReplyInv'
<1>1. CASE Disconnect
  <2>1. /\ phase = "initialised" /\ phase' = "closed"
        /\ UNCHANGED <<driver, at, pending, response, wire, strayed>>
    BY <1>1 DEF Disconnect, command_vars
  <2>2. driver \in Marked \/ ~strayed' => AllAside(pending')
    BY <2>1, NotPending DEF ReplyInv
  <2>3. Stream' = Stream /\ (driver \in Marked => NoReply(driver, Stream))
    BY <2>1 DEF Stream, ReplyInv, OneReply
  <2> QED BY <2>1, <2>2, <2>3, QuietSteps
<1>2. CASE RequestDue
  <2>1. /\ due' = due + 1 /\ waits' = 0
        /\ UNCHANGED <<driver, phase, at, pending, accepted, response, wire, strayed>>
    BY <1>2 DEF RequestDue, command_vars
  <2>2. waits' + due' > 0
    <3>1. due \in Nat
      BY RequestsTyped
    <3> QED BY ONLY <2>1, <3>1
  <2>3. Stream' = Stream /\ RequestsGoOn'
    BY <2>1, <2>2 DEF Stream, RequestsGoOn
  <2> QED BY <2>1, <2>3, StreamSame
<1>3. CASE RequestData
  <2>1. /\ due > 0 /\ due' = due - 1 /\ waits' = IF driver = "runwell" THEN 1 ELSE 0
        /\ pending' \in {pending, Append(pending, Aside)}
        /\ strayed' = (strayed \/ phase = "command")
        /\ UNCHANGED <<driver, phase, at, accepted, response, wire>>
    BY <1>3 DEF RequestData, SetRequest, command_vars
  <2>2. RequestsGoOn'
    <3>1. due \in Nat
      BY RequestsTyped
    <3>2. due' \in Nat
      BY ONLY <2>1, <3>1
    <3>3. driver = "runwell" => waits' = 1
      BY <2>1
    <3> DEFINE d == due'
    <3>4. d \in Nat
      BY <3>2
    <3> HIDE DEF d
    <3>5. driver = "runwell" => waits' + d > 0
      <4>1. 1 + d > 0
        BY ONLY <3>4
      <4> QED BY <3>3, <4>1
    <3> USE DEF d
    <3> QED BY <2>1, <3>5 DEF RequestsGoOn
  <2>3. /\ Current' = Current /\ (\A i : Settled(i)' <=> Settled(i))
        /\ (OutputDone' <=> OutputDone) /\ Stream' = Stream
    BY <2>1 DEF Current, Settled, OutputDone, Stream
  <2>4. CommandsDone' /\ RunwellDone' /\ Ready'
    BY <2>1, <2>3 DEF ReplyInv, CommandsDone, RunwellDone, Ready
  <2>5. at # Aside
    <3>1. at \in DOMAIN Program[driver] /\ DOMAIN Program[driver] = 1..Len(Program[driver])
      BY CurrentTyped, ProgramLength
    <3> QED BY <3>1 DEF Aside
  <2>6. /\ \A j \in 1..Len(pending') :
             \/ j \in 1..Len(pending) /\ pending'[j] = pending[j]
             \/ pending'[j] = Aside
    BY <2>1, AsideAppended
  <2>7. OnePending'
    <3> SUFFICES ASSUME driver \in Marked \/ ~strayed'
                 PROVE  /\ \A j \in 1..Len(pending') :
                             \/ pending'[j] = Aside
                             \/ (phase = "command" /\ pending'[j] = at)
                        /\ \A j, k \in 1..Len(pending') :
                             pending'[j] = at /\ pending'[k] = at => j = k
      BY <2>1 DEF OnePending
    <3>1. /\ \A j \in 1..Len(pending) :
               pending[j] = Aside \/ (phase = "command" /\ pending[j] = at)
          /\ \A j, k \in 1..Len(pending) : pending[j] = at /\ pending[k] = at => j = k
      BY <2>1 DEF ReplyInv, OnePending
    <3>2. \A j \in 1..Len(pending') : pending'[j] = at =>
            j \in 1..Len(pending) /\ pending[j] = at
      BY <2>5, <2>6
    <3> QED BY <2>6, <3>1, <3>2
  <2>8. Contains(pending', at) => Contains(pending, at)
    BY <2>5, <2>6 DEF Contains
  <2>9. OneReply'
    BY <2>1, <2>3, <2>8 DEF ReplyInv, OneReply
  <2> QED BY <2>2, <2>4, <2>7, <2>9 DEF ReplyInv
<1> QED BY <1>1, <1>2, <1>3

(* What is left of a queue when its first one is taken.                    *)
LEMMA TailPending ==
  ASSUME StreamInv, pending # <<>>, pending' = Tail(pending)
  PROVE  /\ Len(pending) \in Nat /\ 1 \in 1..Len(pending)
         /\ Head(pending) = pending[1]
         /\ \A j \in 1..Len(pending') :
              j + 1 \in 1..Len(pending) /\ pending'[j] = pending[j + 1] /\ j + 1 # 1
<1> DEFINE S == DOMAIN Program[driver] \cup {Aside}
<1>1. pending \in Seq(S)
  BY CurrentTyped
<1> HIDE DEF S
<1>2. Len(pending) \in Nat /\ Len(pending) > 0 /\ Head(pending) = pending[1]
  BY <1>1
<1>3. /\ Len(Tail(pending)) = Len(pending) - 1
      /\ \A j \in 1..Len(Tail(pending)) : Tail(pending)[j] = pending[j + 1]
  BY <1>1
<1> DEFINE t == Tail(pending)
<1>4. t = pending'
  OBVIOUS
<1> HIDE DEF t
<1>5. /\ Len(pending') = Len(pending) - 1
      /\ \A j \in 1..Len(pending') : pending'[j] = pending[j + 1]
  BY <1>3, <1>4 DEF t
<1>6. \A j \in 1..Len(pending') : j + 1 \in 1..Len(pending) /\ j + 1 # 1
  BY <1>2, <1>5
<1> QED BY <1>2, <1>5, <1>6

(* It is still in order, without a command that has been taken.            *)
LEMMA TailOnce ==
  ASSUME StreamInv, OnePending, pending # <<>>, pending' = Tail(pending),
         UNCHANGED <<driver, phase, at, strayed>>
  PROVE  /\ OnePending'
         /\ Contains(pending', at) => Contains(pending, at)
         /\ driver \in Marked \/ ~strayed =>
              /\ Head(pending) # Aside => phase = "command" /\ Head(pending) = at
              /\ Head(pending) = at => Contains(pending, at) /\ ~Contains(pending', at)
<1>1. /\ 1 \in 1..Len(pending) /\ Head(pending) = pending[1]
      /\ \A j \in 1..Len(pending') :
           j + 1 \in 1..Len(pending) /\ pending'[j] = pending[j + 1] /\ j + 1 # 1
      /\ Len(pending) \in Nat
  BY TailPending
<1>2. Contains(pending', at) => Contains(pending, at)
  BY <1>1 DEF Contains
<1>3. ASSUME driver \in Marked \/ ~strayed
      PROVE  /\ \A j \in 1..Len(pending) :
                  pending[j] = Aside \/ (phase = "command" /\ pending[j] = at)
             /\ \A j, k \in 1..Len(pending) : pending[j] = at /\ pending[k] = at => j = k
  BY <1>3 DEF OnePending
<1>4. ASSUME driver \in Marked \/ ~strayed
      PROVE  \A j, k \in 1..Len(pending') : pending'[j] = at /\ pending'[k] = at => j = k
  <2> SUFFICES ASSUME NEW j \in 1..Len(pending'), NEW k \in 1..Len(pending'),
                      pending'[j] = at, pending'[k] = at
               PROVE  j = k
    OBVIOUS
  <2>1. pending[j + 1] = at /\ pending[k + 1] = at
    BY <1>1
  <2>2. j + 1 = k + 1
    BY <1>1, <1>3, <1>4, <2>1
  <2>3. j \in Int /\ k \in Int
    OBVIOUS
  <2> QED BY ONLY <2>2, <2>3
<1>5. ASSUME driver \in Marked \/ ~strayed
      PROVE  \A j \in 1..Len(pending') :
               pending'[j] = Aside \/ (phase = "command" /\ pending'[j] = at)
  BY <1>1, <1>3, <1>5
<1>6. OnePending'
  BY <1>4, <1>5 DEF OnePending
<1>7. ASSUME driver \in Marked \/ ~strayed
      PROVE  /\ Head(pending) # Aside => phase = "command" /\ Head(pending) = at
             /\ Head(pending) = at => Contains(pending, at) /\ ~Contains(pending', at)
  <2>1. Head(pending) # Aside => phase = "command" /\ Head(pending) = at
    BY <1>1, <1>3, <1>7
  <2>2. ASSUME Head(pending) = at PROVE Contains(pending, at)
    BY <1>1, <2>2 DEF Contains
  <2>3. ASSUME Head(pending) = at, NEW j \in 1..Len(pending'), pending'[j] = at PROVE FALSE
    BY <1>1, <1>3, <1>7, <2>3
  <2> QED BY <2>1, <2>2, <2>3 DEF Contains
<1> QED BY <1>2, <1>6, <1>7

(* What the device sends comes at the end of the stream, or not at all.    *)
LEMMA StreamSent ==
  ASSUME StreamInv, NEW bytes \in Seq(Byte), response' = response,
         Sends(bytes) \/ wire' = wire
  PROVE  /\ Stream' = Stream \/ Stream' = Stream \o bytes
         /\ phase \in {"closed", "initialised"} => Stream' = Stream
         /\ wire' = wire => Stream' = Stream
         /\ wire' # wire => Stream' = Stream \o bytes
         /\ phase = "command" /\ Sends(bytes) => Stream' = Stream \o bytes
<1>1. response \in Seq(Byte) /\ wire \in Seq(Byte)
  BY CurrentTyped
<1>2. response \o (wire \o bytes) = (response \o wire) \o bytes
  BY <1>1, Associative
<1>3. /\ wire' = wire \/ wire' = wire \o bytes
      /\ phase \in {"closed", "initialised"} => wire' = wire
      /\ phase = "command" /\ Sends(bytes) => wire' = wire \o bytes
  BY DEF Sends
<1> QED BY <1>2, <1>3 DEF Stream

(* A silent packet, or nothing, changes nothing about the replies.         *)
LEMMA SilentSent ==
  ASSUME StreamInv, ReplyInv, driver \in Marked, NEW bytes, Silent(driver, bytes),
         Stream' = Stream \/ Stream' = Stream \o bytes,
         accepted \subseteq accepted', Contains(pending', at) => Contains(pending, at),
         UNCHANGED <<driver, phase, at>>
  PROVE  OneReply'
<1>1. Current' = Current /\ Current.expected \in Seq(Byte)
  BY CurrentReplies DEF Current
<1>2. Stream \in Seq(Byte)
  BY StreamTyped
<1>3. /\ NoReply(driver, Stream) => NoReply(driver, Stream \o bytes)
      /\ OneReplyIn(driver, Stream) => OneReplyIn(driver, Stream \o bytes)
      /\ NoneExpected(driver, Stream, Current.expected) =>
           NoneExpected(driver, Stream \o bytes, Current.expected)
  BY <1>1, <1>2, SilentKeeps
<1>4. CASE phase # "command"
  <2>1. NoReply(driver, Stream)
    BY <1>4 DEF ReplyInv, OneReply
  <2>2. NoReply(driver, Stream')
    BY <1>3, <2>1
  <2> QED BY <1>4, <2>2 DEF OneReply
<1>5. CASE phase = "command"
  <2>1. /\ OneReplyIn(driver, Stream)
        /\ Contains(pending, at) => NoReply(driver, Stream)
        /\ Current.name \in accepted \/ NoneExpected(driver, Stream, Current.expected)
    BY <1>5 DEF ReplyInv, OneReply
  <2>2. /\ OneReplyIn(driver, Stream')
        /\ Contains(pending', at) => NoReply(driver, Stream')
        /\ Current.name \in accepted' \/ NoneExpected(driver, Stream', Current.expected)
    BY <1>3, <2>1
  <2> QED BY <1>1, <1>5, <2>2 DEF OneReply
<1> QED BY <1>4, <1>5

(* More commands are accepted: nothing else moves.                         *)
LEMMA MoreAccepted ==
  ASSUME ReplyInv, OnePending', OneReply', RunwellDone', accepted \subseteq accepted',
         UNCHANGED <<driver, phase, at, strayed, waits, due>>
  PROVE  ReplyInv'
<1>1. Current' = Current /\ (\A i : Settled(i) => Settled(i)') /\ (OutputDone => OutputDone')
  BY DEF Current, Settled, OutputDone
<1>2. CommandsDone'
  BY <1>1 DEF ReplyInv, CommandsDone
<1>3. RequestsGoOn' /\ Ready'
  BY <1>1 DEF ReplyInv, RequestsGoOn, Ready
<1> QED BY <1>2, <1>3 DEF ReplyInv

(* The device deals with what it has been sent.                            *)
LEMMA AnswerReplies ==
  ASSUME StreamInv, ReplyInv, Answer
  PROVE  ReplyInv'
<1> DEFINE c == Program[driver][Head(pending)]
<1>1. /\ pending # <<>> /\ pending' = Tail(pending) /\ response' = response
      /\ UNCHANGED <<driver, phase, at, strayed, waits, due>>
  BY DEF Answer, command_vars, request_vars
<1>2. \/ /\ Head(pending) = Aside /\ accepted' = accepted
         /\ Sends(AsideReply(driver)) \/ wire' = wire
      \/ Head(pending) # Aside /\ wire' = wire /\ accepted' = accepted
      \/ /\ Head(pending) # Aside /\ Sends(c.accept)
         /\ accepted' = accepted \cup {c.name}
      \/ /\ Head(pending) # Aside /\ accepted' = accepted
         /\ \E bytes \in c.refuse : Sends(bytes)
  BY DEF Answer
<1>3. accepted \subseteq accepted' /\ Current' = Current
  BY <1>1, <1>2 DEF Current
<1>4. /\ OnePending'
      /\ Contains(pending', at) => Contains(pending, at)
      /\ driver \in Marked \/ ~strayed =>
           /\ Head(pending) # Aside => phase = "command" /\ Head(pending) = at
           /\ Head(pending) = at => Contains(pending, at) /\ ~Contains(pending', at)
  BY <1>1, TailOnce DEF ReplyInv
<1>5. driver \in Marked \/ ~strayed =>
        \/ wire' = wire \/ (Head(pending) = Aside /\ Sends(AsideReply(driver)))
        \/ /\ phase = "command" /\ Contains(pending, at) /\ ~Contains(pending', at)
           /\ \/ Sends(Current.accept) /\ Current.name \in accepted'
              \/ \E bytes \in Current.refuse : Sends(bytes)
  <2>1. Head(pending) = at => c = Current
    BY DEF Current
  <2> HIDE DEF c
  <2> QED BY <1>2, <1>4, <2>1
<1>6. OneReply'
  <2> SUFFICES ASSUME driver \in Marked PROVE OneReply'
    BY <1>1 DEF OneReply
  <2>1. Silent(driver, AsideReply(driver)) /\ AsideReply(driver) \in Seq(Byte)
    BY AsideSilent DEF Silent, AtMostOne
  <2>2. ReplyOf(driver, Current) /\ Current.expected \in Seq(Byte) /\ Stream \in Seq(Byte)
    BY CurrentReplies, StreamTyped
  <2>3. CASE wire' = wire \/ Sends(AsideReply(driver))
    <3>1. Stream' = Stream \/ Stream' = Stream \o AsideReply(driver)
      BY <1>1, <2>1, <2>3, StreamSent
    <3> QED BY <1>1, <1>3, <1>4, <2>1, <3>1, SilentSent
  <2>4. CASE /\ phase = "command" /\ Contains(pending, at) /\ ~Contains(pending', at)
             /\ Sends(Current.accept) /\ Current.name \in accepted'
    <3>1. AtMostOne(driver, Current.accept) /\ Current.accept \in Seq(Byte)
      BY <2>2 DEF ReplyOf, AtMostOne
    <3>2. Stream' = Stream \o Current.accept
      BY <1>1, <2>4, <3>1, StreamSent
    <3>3. NoReply(driver, Stream)
      BY <2>4 DEF ReplyInv, OneReply
    <3>4. OneReplyIn(driver, Stream \o Current.accept)
      BY <2>2, <3>1, <3>3, ReplySent
    <3> QED BY <1>1, <1>3, <2>4, <3>2, <3>4 DEF OneReply
  <2>5. ASSUME phase = "command", Contains(pending, at), ~Contains(pending', at),
               NEW bytes \in Current.refuse, Sends(bytes)
        PROVE  OneReply'
    <3>1. /\ AtMostOne(driver, bytes) /\ bytes \in Seq(Byte)
          /\ ~Agree(bytes, Current.expected, 0)
      BY <2>2, <2>5 DEF ReplyOf, AtMostOne
    <3>2. Stream' = Stream \o bytes
      BY <1>1, <2>5, <3>1, StreamSent
    <3>3. NoReply(driver, Stream)
      BY <2>5 DEF ReplyInv, OneReply
    <3>4. /\ OneReplyIn(driver, Stream \o bytes)
          /\ NoneExpected(driver, Stream \o bytes, Current.expected)
      BY <2>2, <3>1, <3>3, ReplySent
    <3> QED BY <1>1, <1>3, <2>5, <3>2, <3>4 DEF OneReply
  <2> QED BY <1>5, <2>3, <2>4, <2>5
<1>7. RunwellDone'
  <2> SUFFICES ASSUME driver = "runwell", phase = "command", ~strayed
               PROVE  /\ Stream' # <<>> => Current.name \in accepted'
                      /\ Contains(pending', at) => Stream' = <<>>
                      /\ at = 1 => Len(Stream') <= 17
                      /\ at = 2 => "request_id" \in accepted'
    BY <1>1, <1>3 DEF RunwellDone
  <2>1. /\ Stream # <<>> => Current.name \in accepted
        /\ Contains(pending, at) => Stream = <<>>
        /\ at = 1 => Len(Stream) <= 17
        /\ at = 2 => "request_id" \in accepted
    BY DEF ReplyInv, RunwellDone
  <2>2. Head(pending) # Aside
    <3>1. pending \in Seq(DOMAIN Program[driver] \cup {Aside}) /\ ~Contains(pending, Aside)
      BY CurrentTyped DEF StreamInv, RunwellStream
    <3> QED BY <1>1, <3>1, TailIs
  <2>3. CASE wire' = wire
    <3>1. Stream' = Stream
      BY <1>1, <2>3 DEF Stream
    <3> QED BY <1>3, <1>4, <2>1, <3>1
  <2>4. /\ Current.refuse = {} /\ at \in {1, 2}
        /\ at = 1 => Current.accept = [i \in 1..17 |-> 48]
        /\ at = 2 => Current.accept = [i \in 1..48 |-> 48]
    <3> DEFINE p == Program["runwell"]
    <3>1. /\ p \in Seq({p[1], p[2]}) /\ Len(p) = 2
          /\ p[1].accept = [i \in 1..17 |-> 48] /\ p[2].accept = [i \in 1..48 |-> 48]
          /\ p[1].refuse = {} /\ p[2].refuse = {}
      BY RunwellProgramIs
    <3>2. at \in DOMAIN p /\ Current = p[at]
      BY CurrentTyped DEF Current
    <3> HIDE DEF p
    <3>3. at \in {1, 2}
      BY <3>1, <3>2
    <3> QED BY <3>1, <3>2, <3>3
  <2>5. CASE /\ Contains(pending, at) /\ ~Contains(pending', at)
             /\ Sends(Current.accept) /\ Current.name \in accepted'
    <3> DEFINE a == Current.accept
    <3>1. a \in Seq(Byte) /\ (at = 1 => Len(a) <= 17)
      <4>1. /\ [i \in 1..17 |-> 48] \in Seq(Byte) /\ Len([i \in 1..17 |-> 48]) = 17
            /\ [i \in 1..48 |-> 48] \in Seq(Byte)
        <5>1. 48 \in Byte
          BY ByteIs
        <5> QED BY <5>1
      <4>2. a = [i \in 1..17 |-> 48] \/ (at = 2 /\ a = [i \in 1..48 |-> 48])
        BY <2>4
      <4> HIDE DEF a
      <4>3. 17 <= 17 /\ 2 # 1
        OBVIOUS
      <4>4. CASE a = [i \in 1..17 |-> 48]
        BY ONLY <4>1, <4>3, <4>4
      <4>5. CASE at = 2 /\ a = [i \in 1..48 |-> 48]
        BY ONLY <4>1, <4>3, <4>5
      <4> QED BY <4>2, <4>4, <4>5
    <3>2. Stream' = Stream \o a /\ Stream = <<>>
      BY <1>1, <2>1, <2>5, <3>1, StreamSent
    <3> HIDE DEF a
    <3>3. <<>> \o a = a
      BY <3>1, ConcatEmptySeq
    <3>4. Stream' = a
      BY <3>2, <3>3
    <3> QED BY <1>3, <2>1, <2>5, <3>1, <3>4
  <2> QED BY <1>5, <2>2, <2>3, <2>4, <2>5
<1> QED BY <1>1, <1>3, <1>4, <1>6, <1>7, MoreAccepted

(* So do the measurements that a device sends by itself.                   *)
LEMMA UnsolicitedReplies ==
  ASSUME StreamInv, ReplyInv, Unsolicited
  PROVE  ReplyInv'
<1>0. PICK payload \in Measurements : Sends(Measurement(payload))
  BY DEF Unsolicited
<1> DEFINE packet == Measurement(payload)
<1>1. /\ driver # "runwell" /\ Sends(packet)
      /\ UNCHANGED <<driver, phase, at, pending, accepted, response, strayed, waits, due>>
  BY <1>0 DEF Unsolicited, command_vars, request_vars
<1>2. driver \in Marked
  BY <1>1, CurrentTyped DEF AllDrivers, Marked
<1>3. Silent(driver, packet) /\ packet \in Seq(Byte)
  BY <1>2, MeasurementSilent DEF Silent, AtMostOne
<1>4. Stream' = Stream \/ Stream' = Stream \o packet
  BY <1>1, <1>3, StreamSent
<1> HIDE DEF packet
<1>5. OneReply'
  BY <1>1, <1>2, <1>3, <1>4, SilentSent
<1>6. OnePending'
  BY <1>1 DEF ReplyInv, OnePending
<1>7. RunwellDone'
  BY <1>1 DEF RunwellDone
<1> QED BY <1>1, <1>5, <1>6, <1>7, MoreAccepted

(* Before the first connection there is nothing.                           *)
LEMMA InitReplies ==
  ASSUME Init PROVE ReplyInv
<1>1. phase = "closed" /\ response = <<>> /\ wire = <<>> /\ pending = <<>>
  BY DEF Init
<1>2. OnePending
  BY <1>1 DEF OnePending
<1>3. Stream = <<>>
  BY <1>1 DEF Stream
<1>4. OneReply
  BY <1>1, <1>3, NothingReplies DEF OneReply
<1> QED BY <1>1, <1>2, <1>4
        DEF ReplyInv, CommandsDone, RunwellDone, RequestsGoOn, Ready

(* If a timeout never comes before the answer, no step disturbs it.        *)
LEMMA ReadyStep ==
  ASSUME Slow = FALSE, StreamInv, ReplyInv, [Next]_vars
  PROVE  ReplyInv'
<1>1. CASE Connect
  BY <1>1, ConnectReplies
<1>2. CASE ReadWakeup \/ WakeupAckCancelled \/ ReadConfiguration \/ WakeupTimeout
  BY <1>2, WakeupReplies
<1>3. CASE Read
  BY <1>3, ReadReplies
<1>4. CASE Timeout
  BY <1>4, TimeoutReplies
<1>5. CASE Disconnect \/ RequestDue \/ RequestData
  BY <1>5, IdleReplies
<1>6. CASE Answer
  BY <1>6, AnswerReplies
<1>7. CASE Unsolicited
  BY <1>7, UnsolicitedReplies
<1>8. CASE UNCHANGED vars
  <2>1. UNCHANGED <<driver, phase, at, pending, accepted, response, wire, strayed,
                    waits, due>>
    BY <1>8 DEF vars, request_vars
  <2>2. Stream' = Stream /\ RequestsGoOn'
    BY <2>1 DEF Stream, ReplyInv, RequestsGoOn
  <2> QED BY <2>1, <2>2, StreamSame
<1> QED BY <1>1, <1>2, <1>3, <1>4, <1>5, <1>6, <1>7, <1>8 DEF Next

(* A device whose answers come before the timeout counts as initialised    *)
(* only when it has accepted each command that its initialize() needs, an  *)
(* Xsens with its output as configured (xsens.h:283-309, ublox.h:475-488), *)
(* and a Runwell is asked for data from then on (runwell.h:76-78).  A late *)
(* answer to a command may otherwise be taken for that to a later one, and *)
(* a payload that spells an answer for that answer: those of Measurements  *)
(* have no byte that packets begin with.                                   *)
THEOREM InitialisedIsReady ==
  ASSUME Slow = FALSE
  PROVE  Spec => []InitialisedMeansReady
<1>1. Init => ReplyInv
  BY InitReplies
<1>2. (StreamInv /\ IdInv) /\ ReplyInv /\ [Next]_vars => ReplyInv'
  BY ReadyStep
<1>3. ReplyInv => InitialisedMeansReady
  BY DEF ReplyInv, Ready, RequestsGoOn, OutputDone, InitialisedMeansReady
<1> QED BY <1>1, <1>2, <1>3, AlwaysStreamInv, PTL DEF Spec

-----------------------------------------------------------------------------
(* The handlers of an initialisation (ExecCommand).  However many commands *)
(* it has: no timeout of it reaches the poll loop, and with the pause of   *)
(* an Xsens none reaches the next command.                                 *)

USE ExecCommandAssumption

Timeouts == {TimeoutOf(n) : n \in 1..Reset}

(* What a poll loop must not find behind it. *)
Stale == {Aborted, Paused, Posted} \cup Timeouts

(* What must not come behind the end of a pause, and what is not of a      *)
(* command.                                                                *)
Late == {Paused} \cup Timeouts
Foreign(n) == Timeouts \ {TimeoutOf(n)}

Free(s, set) == \A i \in 1..Len(s) : s[i] \notin set
Behind(s, h, set) ==
  \A i, j \in 1..Len(s) : i < j /\ s[i] = h => s[j] \notin set

(* Nothing follows the handler that starts the poll loop which could touch *)
(* it, and nothing but a pause decides when the next command begins.       *)
Ordered(s) == Behind(s, Posted, Stale) /\ Behind(s, Paused, Late)

PollIsAlone ==
  /\ ~Free(queue, {Posted}) => pc = "posted"
  /\ pc = "posted" => timer = "off" /\ ~op
  /\ pc = "polling" => timer = "off" /\ Free(queue, Stale)

PauseSeparates ==
  /\ ~Free(queue, {Paused}) => pc = "pause" /\ timer = "off"
  /\ pc = "pause" => ~op /\ timer # "timeout"
  /\ timer = "pause" => pc = "pause"
  /\ pc = "closed" => ~op /\ timer = "off"

(* So what is queued while an Xsens executes a command is its timeout.     *)
TimeoutIsOwn ==
  xsens /\ pc \in {"write", "read"} => Free(queue, Foreign(cmd))

CommandIInv ==
  /\ CommandTypeOK
  /\ pc # "crashed" =>
       Ordered(queue) /\ PollIsAlone /\ PauseSeparates /\ TimeoutIsOwn

-----------------------------------------------------------------------------
(* Handlers of different kinds are different. *)
LEMMA Distinct ==
  /\ Reactor \notin Stale /\ Descriptor \notin Stale /\ Done \notin Stale
  /\ Posted # Paused /\ Posted # Aborted /\ Paused # Aborted
  /\ Aborted \notin Late
  /\ \A n \in 1..Reset : TimeoutOf(n) \notin {Posted, Paused, Aborted, Done, Reactor, Descriptor}
  /\ \A m, n \in 1..Reset : TimeoutOf(m) = TimeoutOf(n) => m = n
  BY DEF Stale, Late, Timeouts, Reactor, Descriptor, Done, Posted, Paused, Aborted, TimeoutOf

(* Less is free of what more is free of. *)
LEMMA FreeOfLess ==
  ASSUME NEW s, NEW S, NEW T \in SUBSET S, Free(s, S) PROVE Free(s, T)
  BY DEF Free

(* The queue after its first handler, *)
LEMMA TailKeeps ==
  ASSUME NEW s \in Seq(Handlers), s # <<>>
  PROVE  /\ Tail(s) \in Seq(Handlers)
         /\ \A S : Free(s, S) => Free(Tail(s), S)
         /\ Ordered(s) => Ordered(Tail(s))
         /\ Ordered(s) /\ Head(s) = Posted => Free(Tail(s), Stale)
         /\ Ordered(s) /\ Head(s) = Paused => Free(Tail(s), Late)
<1>1. /\ Tail(s) \in Seq(Handlers) /\ Len(Tail(s)) = Len(s) - 1
      /\ \A i \in 1..Len(Tail(s)) : Tail(s)[i] = s[i + 1] /\ i + 1 \in 1..Len(s)
      /\ Len(s) \in Nat /\ Len(s) > 0 /\ Head(s) = s[1]
  OBVIOUS
<1>2. \A S : Free(s, S) => Free(Tail(s), S)
  BY <1>1 DEF Free
<1>3. \A h, S : Behind(s, h, S) => Behind(Tail(s), h, S)
  BY <1>1 DEF Behind
<1>4. \A h, S : Behind(s, h, S) /\ Head(s) = h => Free(Tail(s), S)
  BY <1>1 DEF Behind, Free
<1> QED BY <1>1, <1>2, <1>3, <1>4 DEF Ordered

(* and with one more handler at its end. *)
LEMMA AppendKeeps ==
  ASSUME NEW s \in Seq(Handlers), NEW h \in Handlers
  PROVE  /\ Append(s, h) \in Seq(Handlers)
         /\ \A S : Free(s, S) /\ h \notin S => Free(Append(s, h), S)
         /\ /\ Ordered(s)
            /\ h \notin Stale \/ Free(s, {Posted})
            /\ h \notin Late \/ Free(s, {Paused})
            => Ordered(Append(s, h))
<1>1. /\ Append(s, h) \in Seq(Handlers) /\ Len(Append(s, h)) = Len(s) + 1
      /\ \A i \in 1..Len(s) : Append(s, h)[i] = s[i]
      /\ Append(s, h)[Len(s) + 1] = h /\ Len(s) \in Nat
  OBVIOUS
<1>2. \A S : Free(s, S) /\ h \notin S => Free(Append(s, h), S)
  BY <1>1 DEF Free
<1>3. \A k, S : Behind(s, k, S) /\ (h \notin S \/ Free(s, {k})) => Behind(Append(s, h), k, S)
  BY <1>1 DEF Behind, Free
<1> QED BY <1>1, <1>2, <1>3 DEF Ordered

(* Initially nothing stale is queued. *)
LEMMA InitCommandIInv == CommandInit => CommandIInv
<1> SUFFICES ASSUME CommandInit PROVE CommandIInv OBVIOUS
<1>1. CommandTypeOK
  <2>1. <<Reactor>> \in Seq(Handlers) /\ <<Reactor, Done>> \in Seq(Handlers)
    BY DEF Handlers
  <2>2. queue = <<Reactor>> \/ queue = <<Reactor, Done>>
    BY DEF CommandInit
  <2>3. queue \in Seq(Handlers)
    BY <2>1, <2>2
  <2>4. cmd \in 1..Reset
    BY DEF CommandInit, Reset
  <2> QED BY <2>3, <2>4 DEF CommandInit, CommandTypeOK
<1>2. Free(queue, Stale)
  BY Distinct DEF CommandInit, Free
<1>3. Ordered(queue)
  BY <1>2 DEF Ordered, Behind, Free, Stale, Late
<1>4. Free(queue, {Posted}) /\ Free(queue, {Paused}) /\ Free(queue, Foreign(cmd))
  BY <1>2, FreeOfLess DEF Stale, Foreign, Timeouts
<1> QED BY <1>1, <1>3, <1>4 DEF CommandIInv, CommandInit, PollIsAlone, PauseSeparates,
       TimeoutIsOwn

(* A step that takes a handler and adds one that is not stale. *)
Quiet ==
  /\ queue' \in Seq(Handlers) /\ Ordered(queue')
  /\ \A S \in {Stale, {Posted}, {Paused}} \cup {Foreign(n) : n \in 1..Reset} :
       Free(queue, S) => Free(queue', S)
  /\ Head(queue) = Posted => Free(queue', Stale)
  /\ Head(queue) = Paused => Free(queue', Late)

(* Such are the steps that take a handler and at most start an operation.  *)
LEMMA QuietStep ==
  ASSUME CommandTypeOK, Ordered(queue), queue # <<>>,
         queue' = Tail(queue) \/ queue' = Append(Tail(queue), Done)
  PROVE  Quiet
<1> DEFINE q == Tail(queue)
<1>1. /\ q \in Seq(Handlers) /\ Ordered(q)
      /\ \A S : Free(queue, S) => Free(q, S)
      /\ Head(queue) = Posted => Free(q, Stale)
      /\ Head(queue) = Paused => Free(q, Late)
  BY TailKeeps DEF CommandTypeOK
<1> HIDE DEF q
<1>2. CASE queue' = q
  BY <1>1, <1>2 DEF Quiet
<1>3. CASE queue' = Append(q, Done)
  <2>1. Done \in Handlers /\ Done \notin Late /\ Done \notin Stale
    BY Distinct DEF Handlers, Late, Stale
  <2>2. queue' \in Seq(Handlers) /\ Ordered(queue')
    BY <1>1, <1>3, <2>1, AppendKeeps
  <2>3. \A S \in {Stale, {Posted}, {Paused}, Late} \cup {Foreign(n) : n \in 1..Reset} : Done \notin S
    BY <2>1 DEF Stale, Late, Foreign
  <2>4. \A S : Free(q, S) /\ Done \notin S => Free(queue', S)
    BY <1>1, <1>3, <2>1, AppendKeeps
  <2> QED BY <1>1, <2>2, <2>3, <2>4 DEF Quiet
<1> QED BY <1>2, <1>3 DEF q

(* While a command is executed neither a pause nor the poll loop is queued.*)
LEMMA InCommand ==
  ASSUME CommandIInv, pc \in {"write", "read"}
  PROVE  Free(queue, {Posted}) /\ Free(queue, {Paused})
  BY DEF CommandIInv, PollIsAlone, PauseSeparates

(* What the coroutine does when its operation has ended: the next read or  *)
(* command, the pause before it, the end of the initialisation.            *)
LEMMA ResumeIInv ==
  ASSUME CommandIInv, pc # "crashed", queue # <<>>, UNCHANGED xsens,
         Resume(Tail(queue)) \/ ResumeFailed(Tail(queue))
  PROVE  CommandIInv'
<1> DEFINE q == Tail(queue)
           Ends == queue' = q \/ queue' = Append(q, Done)
<1>1. Ends => Quiet
  BY QuietStep DEF CommandIInv
<1>2. CASE pc \in {"write", "read"} /\ ReadResponse(q)
  <2>1. Quiet /\ Free(queue, {Posted}) /\ Free(queue, {Paused})
    BY <1>1, <1>2, InCommand DEF ReadResponse, StartOperation
  <2>2. Free(queue', {Posted}) /\ Free(queue', {Paused})
    BY <2>1 DEF Quiet
  <2>3. TimeoutIsOwn'
    BY <1>2, <2>1 DEF CommandIInv, CommandTypeOK, TimeoutIsOwn, Quiet, ReadResponse
  <2> QED
    BY <1>2, <2>1, <2>2, <2>3 DEF CommandIInv, CommandTypeOK, ReadResponse,
           StartOperation, Quiet, PollIsAlone, PauseSeparates
<1>3. CASE /\ pc = "read" /\ ~xsens
           /\ \E n \in 1..Reset : SendCommand(n, q)
  <2>1. Quiet /\ Free(queue, {Posted}) /\ Free(queue, {Paused})
    BY <1>1, <1>3, InCommand DEF SendCommand, StartOperation
  <2>2. Free(queue', {Posted}) /\ Free(queue', {Paused})
    BY <2>1 DEF Quiet
  <2> QED
    BY <1>3, <2>1, <2>2 DEF CommandIInv, CommandTypeOK, SendCommand, StartOperation,
           Quiet, PollIsAlone, PauseSeparates,
       TimeoutIsOwn
<1>4. CASE /\ pc = "read" /\ queue' = q /\ UNCHANGED <<open, spent>>
           /\ pc' = "pause" /\ cmd' \in 1..Reset /\ timer' = "pause" /\ op' = FALSE
  <2>1. Quiet /\ Free(queue, {Posted}) /\ Free(queue, {Paused})
    BY <1>1, <1>4, InCommand
  <2>2. Free(queue', {Posted}) /\ Free(queue', {Paused})
    BY <2>1 DEF Quiet
  <2> QED
    BY <1>4, <2>1, <2>2 DEF CommandIInv, CommandTypeOK, Quiet, PollIsAlone,
           PauseSeparates, TimeoutIsOwn
<1>5. CASE pc \in {"write", "read", "polling"} /\ Close(q)
  <2>1. Quiet
    BY <1>1, <1>5 DEF Close
  <2>2. Free(queue', {Posted}) /\ Free(queue', {Paused})
    <3>1. Free(queue, {Posted}) /\ Free(queue, {Paused})
      BY <1>5 DEF CommandIInv, PollIsAlone, PauseSeparates
    <3> QED BY <2>1, <3>1 DEF Quiet
  <2> QED
    BY <1>5, <2>1, <2>2 DEF CommandIInv, CommandTypeOK, Close, Quiet, PollIsAlone,
           PauseSeparates, TimeoutIsOwn
<1>6. CASE pc = "read" /\ StartPolling(q)
  <2>1. q \in Seq(Handlers) /\ Ordered(q) /\ Free(q, {Posted}) /\ Free(q, {Paused})
    BY <1>6, InCommand, TailKeeps DEF CommandIInv, CommandTypeOK
  <2>2. Posted \in Handlers /\ Posted \notin Late /\ Posted \notin {Paused}
    BY Distinct DEF Handlers, Late, Timeouts
  <2>3. queue' = Append(q, Posted)
    BY <1>6 DEF StartPolling
  <2> HIDE DEF q
  <2>4. queue' \in Seq(Handlers) /\ Ordered(queue') /\ Free(queue', {Paused})
    BY <2>1, <2>2, <2>3, AppendKeeps
  <2> QED
    BY <1>6, <2>4 DEF CommandIInv, CommandTypeOK, StartPolling, PollIsAlone,
           PauseSeparates, TimeoutIsOwn
<1>7. CASE /\ pc = "polling" /\ Ends /\ op' \in BOOLEAN
           /\ UNCHANGED <<pc, cmd, timer, open, spent>>
  <2>1. Quiet /\ Free(queue, Stale) /\ Free(queue, {Posted}) /\ Free(queue, {Paused})
    BY <1>1, <1>7 DEF CommandIInv, PollIsAlone, PauseSeparates
  <2>2. Free(queue', Stale) /\ Free(queue', {Posted}) /\ Free(queue', {Paused})
    BY <2>1 DEF Quiet
  <2> QED
    BY <1>7, <2>1, <2>2 DEF CommandIInv, CommandTypeOK, Quiet, PollIsAlone,
           PauseSeparates, TimeoutIsOwn
<1>8. ASSUME NEW n \in 1..Reset, NextCommand(n, q), pc = "read"
      PROVE  CommandIInv'
  <2>1. CASE ~xsens /\ SendCommand(n, q)
    BY <1>3, <1>8, <2>1
  <2>2. CASE xsens /\ ~SendCommand(n, q)
    BY <1>4, <1>8, <2>2 DEF NextCommand
  <2> QED BY <1>4, <1>8, <2>1, <2>2 DEF NextCommand
<1>9. cmd \in 1..Reset /\ (cmd < NumCommands => cmd + 1 \in 1..Reset)
      /\ (cmd \in Tolerated => cmd + 1 \in 1..Reset) /\ Reset \in 1..Reset
  BY DEF CommandIInv, CommandTypeOK, Reset
<1>10. CASE pc = "read" /\ (CommandSucceeds(q) \/ CommandFails(q))
  BY <1>5, <1>6, <1>8, <1>9, <1>10 DEF CommandSucceeds, CommandFails
<1> QED
  BY <1>2, <1>5, <1>7, <1>10 DEF Resume, ResumeFailed, StartOperation

(* The thread takes its next handler. *)
LEMMA RunIInv ==
  ASSUME CommandIInv, UNCHANGED xsens,
         RunDescriptor \/ RunDone \/ RunAborted \/ RunPaused \/ RunPosted
  PROVE  CommandIInv'
<1>1. pc # "crashed" /\ queue # <<>> /\ ~Free(queue, {Head(queue)})
  <2>1. pc # "crashed" /\ queue # <<>>
    BY DEF RunDescriptor, RunDone, RunAborted, RunPaused, RunPosted, Takes
  <2>2. Len(queue) \in Nat /\ Len(queue) > 0 /\ Head(queue) = queue[1]
    BY <2>1 DEF CommandIInv, CommandTypeOK
  <2> QED BY <2>1, <2>2 DEF Free
<1>2. (queue' = Tail(queue) \/ queue' = Append(Tail(queue), Done)) => Quiet
  BY <1>1, QuietStep DEF CommandIInv
<1>3. CASE Resume(Tail(queue)) \/ ResumeFailed(Tail(queue))
  BY <1>1, <1>3, ResumeIInv
<1>4. CASE queue' = Tail(queue) /\ UNCHANGED <<pc, cmd, timer, op, open, spent>>
  BY <1>1, <1>2, <1>4 DEF CommandIInv, CommandTypeOK, Quiet, PollIsAlone, PauseSeparates,
         TimeoutIsOwn
<1>5. CASE RunPaused
  <2>1. pc = "pause" /\ Free(queue, {Posted}) /\ Head(queue) = Paused
    BY <1>1, <1>5 DEF RunPaused, Takes, CommandIInv, PollIsAlone, PauseSeparates
  <2>2. Quiet
    BY <1>2, <1>5 DEF RunPaused, SendCommand, StartOperation
  <2>3. Free(queue', {Posted}) /\ Free(queue', Late)
    BY <2>1, <2>2 DEF Quiet
  <2>4. Free(queue', {Paused}) /\ Free(queue', Foreign(cmd))
    BY <2>3, FreeOfLess DEF Late, Foreign
  <2> QED
    BY <1>5, <2>2, <2>3, <2>4 DEF CommandIInv, CommandTypeOK, RunPaused, SendCommand,
           StartOperation, Quiet,
       PollIsAlone, PauseSeparates, TimeoutIsOwn
<1>6. CASE RunPosted
  <2>1. pc = "posted" /\ timer = "off" /\ Head(queue) = Posted
    BY <1>1, <1>6 DEF RunPosted, Takes, CommandIInv, PollIsAlone
  <2>2. Quiet
    BY <1>2, <1>6 DEF RunPosted, StartOperation
  <2>3. Free(queue', Stale)
    BY <2>1, <2>2 DEF Quiet
  <2>4. Free(queue', {Posted}) /\ Free(queue', {Paused})
    BY <2>3, FreeOfLess DEF Stale
  <2> QED
    BY <1>6, <2>1, <2>2, <2>3, <2>4 DEF CommandIInv, CommandTypeOK, RunPosted,
           StartOperation, Quiet,
       PollIsAlone, PauseSeparates, TimeoutIsOwn
<1> QED BY <1>3, <1>4, <1>5, <1>6 DEF RunDescriptor, RunDone, RunAborted

(* A timeout finds neither the poll loop nor what starts it.               *)
LEMMA TimeoutIInv ==
  ASSUME CommandIInv, UNCHANGED xsens, NEW n \in 1..Reset, RunTimeout(n)
  PROVE  CommandIInv'
<1> DEFINE q == Tail(queue)
<1>1. /\ q \in Seq(Handlers) /\ Ordered(q) /\ \A S : Free(queue, S) => Free(q, S)
      /\ pc # "crashed" /\ queue # <<>> /\ Head(queue) = TimeoutOf(n)
  BY TailKeeps DEF CommandIInv, CommandTypeOK, RunTimeout, Takes
<1>2. CASE ~open
  BY <1>2 DEF CommandIInv, CommandTypeOK, RunTimeout
<1>3. CASE open /\ ~op
  <2>1. queue' = q /\ UNCHANGED <<pc, op, cmd, timer, open>> /\ spent' \in BOOLEAN
    BY <1>3 DEF RunTimeout, CommandIInv, CommandTypeOK
  <2> HIDE DEF q
  <2> QED
    BY <1>1, <2>1 DEF CommandIInv, CommandTypeOK, PollIsAlone, PauseSeparates, TimeoutIsOwn
<1>4. CASE open /\ op
  <2>1. queue' = Append(q, Aborted) /\ op' = FALSE /\ UNCHANGED <<pc, cmd, timer, open>>
       /\ spent' \in BOOLEAN
    BY <1>4 DEF RunTimeout, CommandIInv, CommandTypeOK
  <2>2. pc # "polling" /\ Free(queue, {Posted})
    <3>1. TimeoutOf(n) \in Stale /\ Head(queue) = queue[1] /\ 1 \in 1..Len(queue)
      BY <1>1 DEF Stale, Timeouts, CommandIInv, CommandTypeOK
    <3> QED BY <1>1, <1>4, <3>1 DEF CommandIInv, PollIsAlone, Free
  <2>3. Aborted \in Handlers /\ Aborted \notin Late /\ Aborted \notin {Posted} /\ Aborted \notin {Paused}
        /\ Aborted \notin Foreign(cmd)
    BY Distinct DEF Handlers, Late, Foreign
  <2> HIDE DEF q
  <2>4. queue' \in Seq(Handlers) /\ Ordered(queue')
    BY <1>1, <2>1, <2>2, <2>3, AppendKeeps
  <2>5. /\ Free(queue, {Posted}) => Free(queue', {Posted})
        /\ Free(queue, {Paused}) => Free(queue', {Paused})
        /\ Free(queue, Foreign(cmd)) => Free(queue', Foreign(cmd))
    BY <1>1, <2>1, <2>3, AppendKeeps
  <2> QED
    BY <1>1, <1>4, <2>1, <2>2, <2>4, <2>5 DEF CommandIInv, CommandTypeOK, PollIsAlone,
           PauseSeparates, TimeoutIsOwn
<1> QED BY <1>2, <1>3, <1>4 DEF CommandIInv, CommandTypeOK

(* The reactor queues only what its timer is for.                          *)
LEMMA ReactorIInv ==
  ASSUME CommandIInv, UNCHANGED xsens, NEW ready \in BOOLEAN, NEW expires \in BOOLEAN,
         RunReactor(ready, expires)
  PROVE  CommandIInv'
<1> DEFINE q == Tail(queue)
           found == IF ready THEN Append(q, Descriptor) ELSE q
           all == IF expires THEN Append(found, Expired) ELSE found
           Kept(s) == /\ s \in Seq(Handlers) /\ Ordered(s)
                      /\ Free(queue, {Posted}) => Free(s, {Posted})
                      /\ Free(queue, Stale) /\ ~expires => Free(s, Stale)
                      /\ Free(queue, Foreign(cmd)) => Free(s, Foreign(cmd))
<1>1. /\ Descriptor \in Handlers \ (Stale \cup Late \cup Foreign(cmd))
      /\ Reactor \in Handlers \ (Stale \cup Late \cup Foreign(cmd))
  BY Distinct DEF Handlers, Stale, Late, Foreign
<1>2. pc # "crashed" /\ queue # <<>> /\ cmd \in 1..Reset
  BY DEF RunReactor, Takes, CommandIInv, CommandTypeOK
<1>3. Kept(q) /\ (Free(queue, {Paused}) => Free(q, {Paused}))
  BY <1>2, TailKeeps DEF CommandIInv, CommandTypeOK
<1> HIDE DEF q
<1>4. Kept(found) /\ (Free(queue, {Paused}) => Free(found, {Paused}))
  <2>1. CASE ready
    <3>1. Descriptor \notin {Posted} /\ Descriptor \notin {Paused}
      BY <1>1 DEF Stale
    <3>2. found = Append(q, Descriptor)
      BY <2>1
    <3> HIDE DEF found
    <3> QED BY <1>1, <1>3, <3>1, <3>2, AppendKeeps
  <2>2. CASE ~ready
    BY <1>3, <2>2
  <2> QED BY <2>1, <2>2
<1> HIDE DEF found
<1>5. /\ Kept(all)
      /\ Free(queue, {Paused}) /\ ~(expires /\ timer = "pause") => Free(all, {Paused})
  <2>1. CASE ~expires
    BY <1>4, <2>1
  <2>2. CASE expires
    <3>1. timer # "off" /\ Free(queue, {Posted}) /\ Free(queue, {Paused})
      BY <1>2, <2>2 DEF RunReactor, CommandIInv, PollIsAlone, PauseSeparates
    <3>2. all = Append(found, Expired)
      BY <2>2
    <3>3. /\ Expired \in Handlers /\ Expired \notin {Posted} /\ Expired \notin Foreign(cmd)
          /\ timer # "pause" => Expired \notin {Paused}
      BY <1>2, <3>1, Distinct DEF Expired, Handlers, Foreign, Timeouts, CommandIInv,
             CommandTypeOK
    <3> HIDE DEF all
    <3>4. all \in Seq(Handlers) /\ Ordered(all)
      BY <1>4, <3>1, <3>2, <3>3, AppendKeeps
    <3>5. /\ Free(all, {Posted})
          /\ timer # "pause" => Free(all, {Paused})
          /\ Free(queue, Foreign(cmd)) => Free(all, Foreign(cmd))
      BY <1>4, <3>1, <3>2, <3>3, AppendKeeps
    <3> QED BY <2>2, <3>4, <3>5
  <2> QED BY <2>1, <2>2
<1>6. queue' = Append(all, Reactor)
  <2>1. \A s \in Seq(Handlers) : \A h \in Handlers : s \o <<h>> = Append(s, h) /\ s \o <<>> = s
    OBVIOUS
  <2>2. q \o (IF ready THEN <<Descriptor>> ELSE <<>>) = found
    BY <1>1, <1>3, <2>1 DEF found
  <2>3. Expired \in Handlers
    BY <1>2 DEF Expired, Handlers
  <2>4. found \o (IF expires THEN <<Expired>> ELSE <<>>) = all
    BY <1>1, <1>4, <2>1, <2>3
  <2>5. all \o <<Reactor>> = Append(all, Reactor)
    BY <1>1, <1>5, <2>1
  <2> QED BY <2>2, <2>4, <2>5 DEF RunReactor, q
<1> HIDE DEF all
<1>7. /\ Kept(queue')
      /\ Free(queue, {Paused}) /\ ~(expires /\ timer = "pause") => Free(queue', {Paused})
  <2>1. Reactor \notin {Posted} /\ Reactor \notin {Paused}
    BY <1>1 DEF Stale
  <2> QED BY <1>1, <1>5, <1>6, <2>1, AppendKeeps
<1>8. /\ UNCHANGED <<pc, cmd, op, open, spent>> /\ (expires => timer # "off")
      /\ timer' = IF expires THEN "off" ELSE timer
  BY DEF RunReactor
<1>9. CommandTypeOK'
  BY <1>7, <1>8 DEF CommandIInv, CommandTypeOK
<1>10. PollIsAlone'
  BY <1>2, <1>7, <1>8 DEF CommandIInv, PollIsAlone
<1>11. PauseSeparates'
  BY <1>2, <1>7, <1>8 DEF CommandIInv, PauseSeparates
<1>12. TimeoutIsOwn'
  BY <1>2, <1>7, <1>8 DEF CommandIInv, TimeoutIsOwn
<1> QED BY <1>7, <1>9, <1>10, <1>11, <1>12 DEF CommandIInv

(* Every step keeps the inductive invariant. *)
LEMMA NextCommandIInv == CommandIInv /\ [CommandNext]_handler_vars => CommandIInv'
<1> SUFFICES ASSUME CommandIInv, [CommandNext]_handler_vars PROVE CommandIInv' OBVIOUS
<1>1. CASE UNCHANGED handler_vars
  BY <1>1 DEF handler_vars, CommandIInv, CommandTypeOK, PollIsAlone, PauseSeparates,
         TimeoutIsOwn
<1>2. CASE CommandNext
  BY <1>2, RunIInv, TimeoutIInv, ReactorIInv DEF CommandNext
<1> QED BY <1>1, <1>2

(* So it holds for ever. *)
LEMMA CommandInductive == CommandSpec => []CommandIInv
  BY InitCommandIInv, NextCommandIInv, PTL DEF CommandSpec

-----------------------------------------------------------------------------
(* The queue, the timer and the commands keep their types (device.h:397).  *)
THEOREM CommandTypeCorrect == CommandSpec => []CommandTypeOK
<1>1. CommandIInv => CommandTypeOK BY DEF CommandIInv
<1> QED BY <1>1, CommandInductive, PTL

(* No timeout of the initialisation reaches the poll loop, since the loop  *)
(* is posted behind all of them (device.h:412, start_polling).             *)
THEOREM PollLoopIsUndisturbed == CommandSpec => []PollLoopUndisturbed
<1>1. CommandIInv => PollLoopUndisturbed
  BY DEF CommandIInv, PollIsAlone, PollLoopUndisturbed, Contains, Free, Stale
<1> QED BY <1>1, CommandInductive, PTL

(* With a pause before each command a timeout that finds an operation      *)
(* aborts the command that it was set for, however late it runs            *)
(* (device.h:405-441).                                                     *)
THEOREM TimeoutHitsItsOwn == CommandSpec => AbortsOwnCommand
<1>1. ASSUME CommandIInv, NEW n \in 1..Reset, xsens, RunTimeout(n), op
      PROVE  pc \in {"write", "read"} /\ cmd = n
  <2>1. /\ pc # "crashed" /\ Len(queue) \in Nat /\ Len(queue) > 0
        /\ queue[1] = TimeoutOf(n)
    BY <1>1 DEF RunTimeout, Takes, CommandIInv, CommandTypeOK
  <2>2. pc # "polling"
    <3>1. TimeoutOf(n) \in Stale /\ 1 \in 1..Len(queue)
      BY <2>1 DEF Stale, Timeouts
    <3> QED BY <1>1, <2>1, <3>1 DEF CommandIInv, PollIsAlone, Free
  <2>3. pc \in {"write", "read"}
    BY <1>1, <2>1, <2>2 DEF CommandIInv, CommandTypeOK, PollIsAlone, PauseSeparates
  <2>4. TimeoutOf(n) \notin Foreign(cmd)
    BY <1>1, <2>1, <2>3 DEF CommandIInv, TimeoutIsOwn, Free
  <2>5. TimeoutOf(n) = TimeoutOf(cmd)
    BY <2>4 DEF Foreign, Timeouts
  <2>6. cmd \in 1..Reset
    BY <1>1 DEF CommandIInv, CommandTypeOK
  <2> QED BY <2>3, <2>5, <2>6, Distinct
<1>2. CommandIInv /\ [CommandNext]_handler_vars => [\A n \in 1..Reset : xsens /\ RunTimeout(n) /\ op
        => pc \in {"write", "read"} /\ cmd = n]_handler_vars
  BY <1>1
<1> QED BY <1>2, CommandInductive, PTL DEF CommandSpec, AbortsOwnCommand
=============================================================================
