--------------------------- MODULE SamplesProofs ---------------------------
(***************************************************************************)
(* Proofs about Samples, for any readings, periods and bounds for which    *)
(* the figures of the model are exact (FiguresAssumption): the types, that *)
(* the cache is bounded, that a statistic has the mean and the variance of *)
(* the samples of the last Period, and that the peaks of an acceleration   *)
(* history are those of its runs.                                          *)
(*                                                                         *)
(* The figures are sums over a list, divided.  Both processors keep them   *)
(* by adjusting the old ones, so the proofs need what one more element     *)
(* does to a sum (TotalLonger) and what one less does (TotalShorter), and  *)
(* that the divisions leave nothing over.  Then a mean goes on to be the   *)
(* mean (MeanAdded, MeanRemoved, MeanGoesOn), and with it the variance,    *)
(* whose sum is about a mean that has moved.  The loop that drops expired  *)
(* samples is followed turn by turn (TurnLeaves).                          *)
(*                                                                         *)
(* The invariants that steps keep: HistoryPart, that the current peak is   *)
(* that of the run so far, whose moments and waiting components are in the *)
(* order of time; and StatisticPart, that the statistic tells of its       *)
(* window, whose last sample came in last, and that the window has of the  *)
(* cache what is recent.                                                   *)
(***************************************************************************)
EXTENDS Samples, WellFoundedInduction, TLAPS

-----------------------------------------------------------------------------
(* Numbers.                                                                *)

(* A set of natural numbers has a least one. *)
LEMMA LeastExists ==
  ASSUME NEW S \in SUBSET Nat, S # {}
  PROVE  \E m \in S : \A i \in S : m <= i
<1>1. PICK m \in S : \A i \in S : ~(<<i, m>> \in OpToRel(<, Nat))
  BY WFMin, NatLessThanWellFounded
<1>2. \A i \in S : ~(i < m)
  BY <1>1 DEF OpToRel
<1> QED BY <1>2

(* A property that is kept from each number to the next holds up to n. *)
LEMMA UpTo ==
  ASSUME NEW n \in Nat, NEW P, 0 \in P, \A i \in 1..n : i - 1 \in P => i \in P
  PROVE  \A i \in 0..n : i \in P
<1> DEFINE Bad == {i \in 0..n : i \notin P}
<1> SUFFICES ASSUME Bad # {} PROVE FALSE OBVIOUS
<1>1. Bad \in SUBSET Nat /\ \A i \in 0..n : i \notin Bad => i \in P
  OBVIOUS
<1>2. \E m \in Bad : \A i \in Bad : m <= i
  BY <1>1, LeastExists
<1> PICK m \in Bad : \A i \in Bad : m <= i
  BY <1>2
<1>3. m # 0 /\ m \in 1..n
  OBVIOUS
<1>4. m - 1 \notin Bad /\ m - 1 \in 0..n
  BY <1>3
<1> QED BY <1>3, <1>4

-----------------------------------------------------------------------------
(* Sums.                                                                   *)

(* The partial sums of the first n numbers of x. *)
Accumulates(g, x, n) ==
  /\ g[0] = 0
  /\ \A i \in 1..n : g[i] = g[i - 1] + x[i]

(* Partial sums exist, and are numbers. *)
LEMMA SumsExist ==
  ASSUME NEW n \in Nat, NEW x, \A i \in 1..n : x[i] \in Int
  PROVE  \E g : g \in [0..n -> Int] /\ Accumulates(g, x, n)
<1> DEFINE P == {k \in 0..n : \E g \in [0..k -> Int] : Accumulates(g, x, k)}
<1>1. 0 \in P
  <2>1. [i \in 0..0 |-> 0] \in [0..0 -> Int] /\ Accumulates([i \in 0..0 |-> 0], x, 0)
    BY DEF Accumulates
  <2> QED BY <2>1
<1>2. ASSUME NEW k \in 1..n, k - 1 \in P PROVE k \in P
  <2>1. PICK f \in [0..(k - 1) -> Int] : Accumulates(f, x, k - 1)
    BY <1>2
  <2> DEFINE g == [i \in 0..k |-> IF i < k THEN f[i] ELSE f[k - 1] + x[k]]
  <2>2. g \in [0..k -> Int]
    <3>1. \A i \in 0..k : i < k => i \in 0..(k - 1)
      OBVIOUS
    <3>2. f[k - 1] \in Int /\ x[k] \in Int
      OBVIOUS
    <3> QED BY <3>1, <3>2
  <2>3. g[0] = 0
    BY <2>1 DEF Accumulates
  <2>4. ASSUME NEW i \in 1..k PROVE g[i] = g[i - 1] + x[i]
    <3>1. i - 1 \in 0..(k - 1) /\ g[i - 1] = f[i - 1]
      OBVIOUS
    <3>2. CASE i < k
      BY <2>1, <3>1, <3>2 DEF Accumulates
    <3>3. CASE i = k
      BY <3>1, <3>3
    <3> QED BY <3>2, <3>3
  <2> HIDE DEF g
  <2>5. Accumulates(g, x, k)
    BY <2>3, <2>4 DEF Accumulates
  <2> QED BY <2>2, <2>5
<1>3. n \in P
  <2> HIDE DEF P
  <2>1. \A i \in 1..n : i - 1 \in P => i \in P
    BY <1>2
  <2>2. \A i \in 0..n : i \in P
    BY <1>1, <2>1, UpTo
  <2> QED BY <2>2
<1> QED BY <1>3

(* The last partial sum is the total. *)
LEMMA TotalIs ==
  ASSUME NEW x, Len(x) \in Nat, NEW g, Accumulates(g, x, Len(x)), g \in [0..Len(x) -> Int]
  PROVE  Total(x) = g[Len(x)]
<1> DEFINE n == Len(x)
           Equation(f) == f = [i \in 0..n |-> IF i = 0 THEN 0 ELSE f[i - 1] + x[i]]
           F == CHOOSE f : Equation(f)
<1>1. n \in Nat /\ g \in [0..n -> Int] /\ Accumulates(g, x, n)
  OBVIOUS
<1>2. Total(x) = F[n]
  BY DEF Total
<1> HIDE DEF n
<1>3. Equation(g)
  BY <1>1 DEF Accumulates
<1>4. Equation(F)
  BY <1>3
<1> HIDE DEF F
<1> DEFINE P == {i \in 0..n : F[i] = g[i]}
<1>5. 0 \in P
  BY <1>1, <1>4 DEF Accumulates
<1>6. ASSUME NEW i \in 1..n, i - 1 \in P PROVE i \in P
  <2>1. F[i] = F[i - 1] + x[i] /\ g[i] = g[i - 1] + x[i]
    BY <1>1, <1>4 DEF Accumulates
  <2> QED BY <1>6, <2>1
<1>7. n \in P
  <2> HIDE DEF P
  <2>1. \A i \in 1..n : i - 1 \in P => i \in P
    BY <1>6
  <2>2. \A i \in 0..n : i \in P
    BY <1>1, <1>5, <2>1, UpTo
  <2> QED BY <1>1, <2>2
<1> QED BY <1>2, <1>7 DEF n

(* The total of numbers is a number, and has partial sums.                 *)
LEMMA TotalExists ==
  ASSUME NEW x, Len(x) \in Nat, \A i \in 1..Len(x) : x[i] \in Int
  PROVE  /\ Total(x) \in Int
         /\ \E g \in [0..Len(x) -> Int] : Accumulates(g, x, Len(x)) /\ Total(x) = g[Len(x)]
<1>1. PICK g : g \in [0..Len(x) -> Int] /\ Accumulates(g, x, Len(x))
  BY SumsExist
<1>2. Total(x) = g[Len(x)]
  BY <1>1, TotalIs
<1> QED BY <1>1, <1>2

(* The total of nothing. *)
LEMMA TotalEmpty == ASSUME NEW x, Len(x) = 0 PROVE Total(x) = 0
<1>1. Accumulates([i \in 0..0 |-> 0], x, 0) /\ [i \in 0..0 |-> 0] \in [0..0 -> Int]
  BY DEF Accumulates
<1> QED BY <1>1, TotalIs

(* One more number. *)
LEMMA TotalLonger ==
  ASSUME NEW x, NEW y, Len(x) \in Nat, Len(y) = Len(x) + 1,
         \A i \in 1..Len(y) : y[i] \in Int, \A i \in 1..Len(x) : x[i] = y[i]
  PROVE  Total(y) = Total(x) + y[Len(y)]
<1> DEFINE n == Len(x)
<1>1. Len(y) \in Nat /\ Len(y) = n + 1 /\ n \in Nat
  OBVIOUS
<1>2. PICK g \in [0..Len(y) -> Int] : Accumulates(g, y, Len(y)) /\ Total(y) = g[Len(y)]
  BY <1>1, TotalExists
<1> DEFINE f == [i \in 0..n |-> g[i]]
<1>3. f \in [0..n -> Int] /\ Accumulates(f, x, n)
  <2>1. f \in [0..n -> Int] /\ f[0] = 0
    BY <1>1, <1>2 DEF Accumulates
  <2>2. ASSUME NEW i \in 1..n PROVE f[i] = f[i - 1] + x[i]
    <3>1. i \in 1..Len(y) /\ i - 1 \in 0..n /\ i \in 0..n
      BY <1>1
    <3> QED BY <1>2, <3>1 DEF Accumulates
  <2> HIDE DEF f
  <2> QED BY <2>1, <2>2 DEF Accumulates
<1>4. f[n] = g[n]
  BY <1>1
<1> HIDE DEF f
<1>5. Total(x) = g[n]
  BY <1>3, <1>4, TotalIs
<1>6. g[n + 1] = g[n] + y[n + 1]
  BY <1>1, <1>2 DEF Accumulates
<1> QED BY <1>1, <1>2, <1>5, <1>6

(* All but the first number. *)
LEMMA TotalShorter ==
  ASSUME NEW x, NEW y, Len(x) \in Nat, Len(y) = Len(x) + 1,
         \A i \in 1..Len(y) : y[i] \in Int, \A i \in 1..Len(x) : x[i] = y[i + 1]
  PROVE  Total(x) = Total(y) - y[1]
<1> DEFINE n == Len(x)
<1>1. Len(y) \in Nat /\ Len(y) = n + 1 /\ n \in Nat
  OBVIOUS
<1>2. PICK g \in [0..Len(y) -> Int] : Accumulates(g, y, Len(y)) /\ Total(y) = g[Len(y)]
  BY <1>1, TotalExists
<1>3. g[1] = y[1] /\ y[1] \in Int
  <2>1. 1 \in 1..Len(y) /\ g[0] = 0 /\ g[1] = g[1 - 1] + y[1]
    BY <1>1, <1>2 DEF Accumulates
  <2> QED BY <2>1
<1> DEFINE f == [i \in 0..n |-> g[i + 1] - y[1]]
<1>4. f \in [0..n -> Int] /\ Accumulates(f, x, n)
  <2>1. f \in [0..n -> Int] /\ f[0] = 0
    BY <1>1, <1>2, <1>3
  <2>2. ASSUME NEW i \in 1..n PROVE f[i] = f[i - 1] + x[i]
    <3>1. i + 1 \in 1..Len(y) /\ i - 1 \in 0..n /\ i \in 0..n /\ (i + 1) - 1 = i /\ (i - 1) + 1 = i
      BY <1>1
    <3>2. g[i + 1] = g[i] + y[i + 1] /\ x[i] = y[i + 1] /\ y[i + 1] \in Int
      BY <1>2, <3>1 DEF Accumulates
    <3>3. f[i] = g[i + 1] - y[1] /\ f[i - 1] = g[i] - y[1]
      BY <3>1
    <3>4. g[i] \in Int /\ g[i + 1] \in Int
      <4>1. i \in 0..Len(y) /\ i + 1 \in 0..Len(y)
        BY <1>1, <3>1
      <4> QED BY <1>2, <4>1
    <3> HIDE DEF f
    <3> QED BY <1>3, <3>2, <3>3, <3>4
  <2> HIDE DEF f
  <2> QED BY <2>1, <2>2 DEF Accumulates
<1>5. f[n] = g[n + 1] - y[1]
  BY <1>1
<1> HIDE DEF f
<1>6. Total(x) = g[n + 1] - y[1]
  BY <1>4, <1>5, TotalIs
<1> QED BY <1>1, <1>2, <1>6

-----------------------------------------------------------------------------
(* The acceleration history.                                               *)

Moments == [amp : Int, stamp : Nat \ {0}]

Peaks == [start : Nat, duration : Nat, peak : Int, mean : Int, rms : Int]

(* A function on 1..n is a sequence of n elements. *)
LEMMA FunctionLength ==
  ASSUME NEW n \in Nat, NEW S, NEW f \in [1..n -> S]
  PROVE  f \in Seq(S) /\ Len(f) = n
  OBVIOUS

(* The sum over a run of one moment more. *)
LEMMA OverRunLonger ==
  ASSUME NEW run \in Seq(Moments), run # <<>>, NEW m \in Moments, NEW x, NEW y,
         \A i \in 1..Len(run) : x[i] \in Int /\ x[i] = y[i], y[Len(run) + 1] \in Int
  PROVE  /\ OverRun(x, run) \in Int
         /\ OverRun(y, Append(run, m)) =
              OverRun(x, run) + y[Len(run) + 1] * (m.stamp - run[Len(run)].stamp)
<1> DEFINE n == Len(run)
           longer == Append(run, m)
           a == [i \in 1..(n - 1) |-> x[i + 1] * (run[i + 1].stamp - run[i].stamp)]
           b == [i \in 1..n |-> y[i + 1] * (longer[i + 1].stamp - longer[i].stamp)]
<1>1. /\ n \in Nat \ {0} /\ Len(longer) = n + 1
      /\ \A i \in 1..n : run[i] \in Moments /\ longer[i] = run[i]
      /\ longer[n + 1] = m
  OBVIOUS
<1>2. \A t \in Moments : t.stamp \in Int
  BY DEF Moments
<1>3. OverRun(x, run) = Total(a) /\ OverRun(y, longer) = Total(b)
  <2>1. (n + 1) - 1 = n
    BY <1>1
  <2> QED BY <1>1, <2>1 DEF OverRun
<1> HIDE DEF longer, n
<1>4. /\ \A i \in 1..n : y[i] \in Int /\ y[i] = x[i]
      /\ y[n + 1] \in Int
  BY DEF n
<1>5. ASSUME NEW i \in 1..n PROVE b[i] \in Int
  <2>1. i + 1 \in 1..n \/ i + 1 = n + 1
    BY <1>1
  <2>2. y[i + 1] \in Int
    BY <1>4, <2>1
  <2>3. longer[i].stamp \in Int /\ longer[i + 1].stamp \in Int
    BY <1>1, <1>2, <2>1
  <2> QED BY <2>2, <2>3
<1>6. ASSUME NEW i \in 1..(n - 1) PROVE a[i] = b[i]
  <2>1. i \in 1..n /\ i + 1 \in 1..n
    BY <1>1
  <2> QED BY <1>1, <1>4, <2>1
<1>7. Len(a) = n - 1 /\ Len(b) = n /\ n - 1 \in Nat
  <2>1. b \in [1..n -> Int]
    BY <1>5
  <2>2. a \in [1..(n - 1) -> Int]
    <3>1. \A i \in 1..(n - 1) : i \in 1..n
      BY <1>1
    <3>2. \A i \in 1..(n - 1) : a[i] \in Int
      BY <1>5, <1>6, <3>1
    <3> QED BY <3>2
  <2> HIDE DEF a, b
  <2> QED BY <1>1, <2>1, <2>2, FunctionLength
<1>8. b[n] = y[n + 1] * (m.stamp - run[n].stamp)
  BY <1>1
<1> HIDE DEF a, b
<1>9. \A i \in 1..(n - 1) : a[i] \in Int
  <2>1. \A i \in 1..(n - 1) : i \in 1..n
    BY <1>1
  <2> QED BY <1>5, <1>6, <2>1
<1>10. Total(a) \in Int
  BY <1>7, <1>9, TotalExists
<1>11. Total(b) = Total(a) + b[Len(b)]
  <2>1. Len(b) = Len(a) + 1 /\ Len(a) \in Nat
    BY <1>1, <1>7
  <2>2. (\A i \in 1..Len(b) : b[i] \in Int) /\ (\A i \in 1..Len(a) : a[i] = b[i])
    BY <1>5, <1>6, <1>7
  <2> QED BY <2>1, <2>2, TotalLonger
<1> QED BY <1>3, <1>7, <1>8, <1>10, <1>11 DEF n, longer

(* The sum over a run of one moment. *)
LEMMA OverRunOne == ASSUME NEW m, NEW x PROVE OverRun(x, <<m>>) = 0
<1> DEFINE a == [i \in 1..(1 - 1) |-> x[i + 1] * (<<m>>[i + 1].stamp - <<m>>[i].stamp)]
<1>1. OverRun(x, <<m>>) = Total(a)
  BY DEF OverRun
<1>2. a \in [1..0 -> Int]
  OBVIOUS
<1> HIDE DEF a
<1>3. Len(a) = 0
  BY <1>2, FunctionLength
<1> QED BY <1>1, <1>3, TotalEmpty

-----------------------------------------------------------------------------
(* A mean in units of a total over some time. *)
IsMean(mean, duration, unit, S) == mean * duration = unit * S

(* A running mean with one more amount for some more time. *)
Running(mean, x, unit, interval, duration) ==
  mean + ((x * unit - mean) * interval) \div duration

(* The division by the longer duration leaves nothing over, and what was   *)
(* the mean before is the mean after.                                      *)
LEMMA MeanGoesOn ==
  ASSUME NEW mean \in Int, NEW before \in Nat, NEW duration \in Nat \ {0}, NEW S \in Int,
         NEW x \in Int, NEW unit \in Int, unit % duration = 0, IsMean(mean, before, unit, S),
         NEW interval \in Int, interval = duration - before
  PROVE  /\ Running(mean, x, unit, interval, duration) \in Int
         /\ IsMean(Running(mean, x, unit, interval, duration), duration, unit, S + x * interval)
<1> DEFINE u == unit \div duration
           k == u * (S + x * interval) - mean
<1>1. u \in Int /\ unit = duration * u
  OBVIOUS
<1>2. interval \in Int /\ before = duration - interval
  OBVIOUS
<1> HIDE DEF u
<1>3. S + x * interval \in Int
  BY ONLY <1>2, S \in Int, x \in Int
<1>4. k \in Int
  BY ONLY <1>1, <1>3, mean \in Int
<1>5. (x * unit - mean) * interval = duration * k
  <2>1. mean * (duration - interval) = unit * S
    BY <1>2 DEF IsMean
  <2>2. mean * (duration - interval) = mean * duration - mean * interval
    BY ONLY <1>2, mean \in Int, duration \in Nat
  <2>3. (x * unit - mean) * interval = unit * (x * interval) - mean * interval
    BY ONLY <1>2, mean \in Int, unit \in Int, x \in Int
  <2>4. unit * (S + x * interval) = unit * S + unit * (x * interval)
    BY ONLY <1>2, unit \in Int, x \in Int, S \in Int
  <2>5. duration * k = (duration * u) * (S + x * interval) - mean * duration
    BY ONLY <1>1, <1>3, mean \in Int, duration \in Nat
  <2>6. duration * k = unit * (S + x * interval) - mean * duration
    BY <1>1, <2>5
  <2>7. /\ mean * duration \in Int /\ mean * interval \in Int /\ unit * S \in Int
        /\ unit * (x * interval) \in Int
    BY ONLY <1>2, mean \in Int, unit \in Int, x \in Int, S \in Int, duration \in Nat
  <2> QED BY ONLY <2>1, <2>2, <2>3, <2>4, <2>6, <2>7
<1> HIDE DEF k
<1>6. (duration * k) \div duration = k
  BY ONLY <1>4, duration \in Nat \ {0}
<1>7. ((x * unit - mean) * interval) \div duration = k
  BY <1>5, <1>6
<1>8. (mean + k) * duration = unit * (S + x * interval)
  <2>1. mean + k = u * (S + x * interval)
    BY <1>1, <1>3, <1>4 DEF k
  <2>2. (u * (S + x * interval)) * duration = (duration * u) * (S + x * interval)
    BY ONLY <1>1, <1>3, duration \in Nat
  <2> QED BY <1>1, <2>1, <2>2
<1> QED BY <1>1, <1>3, <1>4, <1>7, <1>8 DEF Running, IsMean

-----------------------------------------------------------------------------
(* The peak of a run.                                                      *)

Ordered(run) == \A i, j \in 1..Len(run) : i <= j => run[i].stamp <= run[j].stamp

(* The amplitudes of a run, and their squares. *)
Amps(run) == [i \in DOMAIN run |-> run[i].amp]
SquaredAmps(run) == [i \in DOMAIN run |-> run[i].amp * run[i].amp]

(* What there is to know of the moments of a run. *)
LEMMA RunTyped ==
  ASSUME NEW run \in Seq(Moments), run # <<>>
  PROVE  /\ Len(run) \in Nat \ {0} /\ DOMAIN run = 1..Len(run)
         /\ \A i \in 1..Len(run) : run[i].amp \in Int /\ run[i].stamp \in Nat \ {0}
         /\ Head(run) = run[1] /\ Last(run) = run[Len(run)]
<1>1. Len(run) \in Nat \ {0} /\ \A i \in 1..Len(run) : run[i] \in Moments
  OBVIOUS
<1>2. \A m \in Moments : m.amp \in Int /\ m.stamp \in Nat \ {0}
  BY DEF Moments
<1>3. Head(run) = run[1] /\ Last(run) = run[Len(run)] /\ DOMAIN run = 1..Len(run)
  BY DEF Last
<1> QED BY <1>1, <1>2, <1>3

(* Absolute values. *)
LEMMA AbsTyped == ASSUME NEW x \in Int PROVE Abs(x) \in Nat
  BY DEF Abs

(* A run that starts. *)
LEMMA RunStarts ==
  ASSUME NEW amp \in Int, NEW stamp \in Nat \ {0}
  PROVE  /\ PeakStarts(amp, stamp) \in Peaks
         /\ IsPeakOf(PeakStarts(amp, stamp), <<[amp |-> amp, stamp |-> stamp]>>)
<1> DEFINE c == PeakStarts(amp, stamp)
           m == [amp |-> amp, stamp |-> stamp]
           run == <<m>>
<1>1. Unit \in Int
  BY AccelerationHistoryAssumption
<1>2. c \in Peaks
  BY <1>1 DEF PeakStarts, Peaks
<1>3. /\ c.start = stamp /\ c.duration = 0 /\ c.peak = amp
      /\ c.mean \in Int /\ c.rms \in Int
  BY <1>1 DEF PeakStarts
<1>4. m \in Moments /\ m.amp = amp /\ m.stamp = stamp
  BY DEF Moments
<1> HIDE DEF m, c
<1>5. /\ run \in Seq(Moments) /\ Len(run) = 1 /\ run[1] = m /\ DOMAIN run = {1}
      /\ Head(run) = m /\ Last(run) = m
  BY <1>4 DEF Last
<1>6. OverRun(Amps(run), run) = 0 /\ OverRun(SquaredAmps(run), run) = 0
  BY OverRunOne
<1> HIDE DEF run
<1>7. c.mean * c.duration = Unit * OverRun(Amps(run), run)
  BY <1>1, <1>3, <1>6
<1>8. c.rms * c.duration = Unit * OverRun(SquaredAmps(run), run)
  BY <1>1, <1>3, <1>6
<1>9. c.start = Head(run).stamp /\ c.duration = RunDuration(run)
  BY <1>3, <1>4, <1>5 DEF RunDuration
<1>10. Abs(run[1].amp) <= Abs(c.peak) /\ c.peak = run[1].amp
  BY <1>3, <1>4, <1>5 DEF Abs
<1>11. \E i \in DOMAIN run :
         c.peak = run[i].amp /\ \A j \in DOMAIN run : Abs(run[j].amp) <= Abs(c.peak)
  BY <1>5, <1>10
<1>12. IsPeakOf(c, run)
  BY <1>7, <1>8, <1>9, <1>11 DEF IsPeakOf, Amps, SquaredAmps
<1> QED BY <1>2, <1>12 DEF c, run, m

(* A run that goes on. *)
LEMMA RunGoesOn ==
  ASSUME NEW c \in Peaks, NEW run \in Seq(Moments), run # <<>>, IsPeakOf(c, run),
         NEW amp \in Int, NEW stamp \in Nat \ {0},
         run[1].stamp <= run[Len(run)].stamp, run[Len(run)].stamp <= stamp, stamp <= MaxTime
  PROVE  /\ PeakGoesOn(c, amp, stamp) \in Peaks
         /\ IsPeakOf(PeakGoesOn(c, amp, stamp), Append(run, [amp |-> amp, stamp |-> stamp]))
<1> DEFINE m == [amp |-> amp, stamp |-> stamp]
           longer == Append(run, m)
           n == Len(run)
           duration == stamp - c.start
           interval == duration - c.duration
           peak == IF Abs(amp) > Abs(c.peak) THEN amp ELSE c.peak
           mean == c.mean + ((amp * Unit - c.mean) * interval) \div duration
           rms == c.rms + ((amp * amp * Unit - c.rms) * interval) \div duration
           d == PeakGoesOn(c, amp, stamp)
<1>1. Unit \in Int /\ MaxTime \in Nat
  BY AccelerationHistoryAssumption, SamplesAssumption
<1>2. /\ n \in Nat \ {0} /\ DOMAIN run = 1..n
      /\ \A i \in 1..n : run[i].amp \in Int /\ run[i].stamp \in Nat \ {0}
      /\ Head(run) = run[1] /\ Last(run) = run[n]
  BY RunTyped
<1>3. /\ c.start \in Nat /\ c.duration \in Nat /\ c.peak \in Int /\ c.mean \in Int
      /\ c.rms \in Int
      /\ c = [start |-> c.start, duration |-> c.duration, peak |-> c.peak,
              mean |-> c.mean, rms |-> c.rms]
  BY DEF Peaks
<1>4. m \in Moments /\ m.amp = amp /\ m.stamp = stamp
  BY DEF Moments
<1>5. c.start = run[1].stamp /\ c.duration = run[n].stamp - run[1].stamp
  BY <1>2 DEF IsPeakOf, RunDuration
<1>6. c.mean * c.duration = Unit * OverRun(Amps(run), run)
  BY DEF IsPeakOf, Amps
<1>7. c.rms * c.duration = Unit * OverRun(SquaredAmps(run), run)
  BY DEF IsPeakOf, SquaredAmps
<1>8. PICK i \in 1..n : c.peak = run[i].amp /\ \A j \in 1..n : Abs(run[j].amp) <= Abs(c.peak)
  BY <1>2 DEF IsPeakOf
<1>9. d = IF duration <= 0 THEN [c EXCEPT !.peak = peak]
          ELSE [start |-> c.start, duration |-> duration, peak |-> peak, mean |-> mean, rms |-> rms]
  <2>1. duration <= 0 => d = [c EXCEPT !.peak = peak]
    BY DEF PeakGoesOn
  <2>2. ~(duration <= 0) => d = [c EXCEPT !.peak = peak, !.duration = duration,
                                         !.mean = mean, !.rms = rms]
    BY DEF PeakGoesOn
  <2> HIDE DEF d, duration, mean, rms, peak
  <2> QED BY <1>3, <2>1, <2>2
<1>10. peak \in Int
  BY <1>3
<1>11. duration \in Nat /\ interval = stamp - run[n].stamp /\ interval \in Nat
       /\ (duration = 0 => c.duration = 0 /\ interval = 0)
  <2> DEFINE x == run[1].stamp
             y == run[n].stamp
  <2>1. /\ x \in Nat /\ y \in Nat /\ x <= y /\ y <= stamp
        /\ c.start = x /\ c.duration = y - x
    BY <1>2, <1>5
  <2> HIDE DEF x, y
  <2>2. /\ stamp - x \in Nat /\ (stamp - x) - (y - x) = stamp - y /\ stamp - y \in Nat
        /\ (stamp - x = 0 => y - x = 0 /\ stamp - y = 0)
    BY ONLY <2>1, stamp \in Nat
  <2> HIDE DEF mean, rms, peak, d
  <2> QED BY <2>1, <2>2 DEF y
<1> HIDE DEF m, d
<1>12. /\ longer \in Seq(Moments) /\ Len(longer) = n + 1 /\ longer # <<>> /\ longer[n + 1] = m
       /\ \A j \in 1..n : longer[j] = run[j]
  BY <1>4
<1>13. DOMAIN longer = 1..(n + 1) /\ Head(longer) = run[1] /\ Last(longer) = m
  <2>1. Head(longer) = longer[1] /\ Last(longer) = longer[Len(longer)] /\ DOMAIN longer = 1..(n + 1)
    BY <1>12, RunTyped
  <2> QED BY <1>2, <1>12, <2>1
<1> HIDE DEF longer, n
<1>14. \E k \in DOMAIN longer :
         peak = longer[k].amp /\ \A j \in DOMAIN longer : Abs(longer[j].amp) <= Abs(peak)
  <2>1. \A j \in 1..(n + 1) : j \in 1..n \/ j = n + 1
    BY <1>2
  <2>2. CASE Abs(amp) > Abs(c.peak)
    <3>1. \A j \in 1..(n + 1) : Abs(longer[j].amp) <= Abs(peak)
      <4> TAKE j \in 1..(n + 1)
      <4>1. CASE j = n + 1
        BY <1>4, <1>12, <2>2, <4>1 DEF Abs
      <4>2. CASE j \in 1..n
        <5>1. longer[j].amp \in Int /\ Abs(longer[j].amp) <= Abs(c.peak)
          BY <1>2, <1>8, <1>12, <4>2
        <5>2. /\ Abs(longer[j].amp) \in Nat /\ Abs(c.peak) \in Nat /\ Abs(amp) \in Nat
              /\ peak = amp
          BY <1>3, <2>2, <5>1, AbsTyped
        <5> HIDE DEF peak
        <5> QED BY <2>2, <5>1, <5>2
      <4> QED BY <2>1, <4>1, <4>2
    <3>2. n + 1 \in 1..(n + 1) /\ peak = longer[n + 1].amp
      BY <1>2, <1>4, <1>12, <2>2
    <3> HIDE DEF peak
    <3> QED BY <1>13, <3>1, <3>2
  <2>3. CASE ~(Abs(amp) > Abs(c.peak))
    <3>1. \A j \in 1..(n + 1) : Abs(longer[j].amp) <= Abs(peak)
      <4> TAKE j \in 1..(n + 1)
      <4>1. CASE j = n + 1
        BY <1>3, <1>4, <1>12, <2>3, <4>1, SMTT(30) DEF Abs
      <4>2. CASE j \in 1..n
        BY <1>8, <1>12, <2>3, <4>2
      <4> QED BY <2>1, <4>1, <4>2
    <3>2. i \in 1..(n + 1) /\ peak = longer[i].amp
      BY <1>2, <1>8, <1>12, <2>3
    <3> HIDE DEF peak
    <3> QED BY <1>13, <3>1, <3>2
  <2> QED BY <2>2, <2>3
<1>15. /\ OverRun(Amps(run), run) \in Int
       /\ OverRun(Amps(longer), longer) = OverRun(Amps(run), run) + amp * interval
  <2>1. \A j \in 1..n : Amps(run)[j] \in Int /\ Amps(run)[j] = Amps(longer)[j]
    <3>1. \A j \in 1..n : j \in 1..(n + 1)
      BY <1>2
    <3> QED BY <1>2, <1>12, <1>13, <3>1 DEF Amps
  <2>2. Amps(longer)[n + 1] = amp
    <3>1. n + 1 \in DOMAIN longer
      BY <1>2, <1>13
    <3> QED BY <1>4, <1>12, <3>1 DEF Amps
  <2> QED BY <1>4, <1>11, <2>1, <2>2, OverRunLonger, SMTT(30) DEF longer, n
<1>16. /\ OverRun(SquaredAmps(run), run) \in Int
       /\ OverRun(SquaredAmps(longer), longer) = OverRun(SquaredAmps(run), run) + amp * amp * interval
  <2>1. \A j \in 1..n : SquaredAmps(run)[j] \in Int /\ SquaredAmps(run)[j] = SquaredAmps(longer)[j]
    <3>1. \A j \in 1..n : j \in 1..(n + 1)
      BY <1>2
    <3> QED BY <1>2, <1>12, <1>13, <3>1 DEF SquaredAmps
  <2>2. SquaredAmps(longer)[n + 1] = amp * amp /\ amp * amp \in Int
    <3>1. n + 1 \in DOMAIN longer
      BY <1>2, <1>13
    <3> QED BY <1>4, <1>12, <3>1 DEF SquaredAmps
  <2> DEFINE sq == amp * amp
  <2> HIDE DEF sq
  <2>3. SquaredAmps(longer)[n + 1] = sq /\ sq \in Int
    BY <2>2 DEF sq
  <2>4. /\ OverRun(SquaredAmps(run), run) \in Int
        /\ OverRun(SquaredAmps(longer), longer) = OverRun(SquaredAmps(run), run) + sq * interval
    BY <1>4, <1>11, <2>1, <2>3, OverRunLonger DEF longer, n
  <2> QED BY <2>4 DEF sq
<1> HIDE DEF interval, duration
<1>17. RunDuration(longer) = duration /\ Head(longer).stamp = c.start
  BY <1>4, <1>5, <1>13 DEF RunDuration, duration
<1>18. CASE duration <= 0
  <2>1. duration = 0 /\ c.duration = 0 /\ interval = 0
    BY <1>11, <1>18
  <2>2. /\ d.start = c.start /\ d.duration = duration /\ d.peak = peak
        /\ d.mean = c.mean /\ d.rms = c.rms /\ d \in Peaks
    <3> HIDE DEF peak
    <3>1. d = [start |-> c.start, duration |-> c.duration, peak |-> peak,
              mean |-> c.mean, rms |-> c.rms]
      BY <1>3, <1>9, <1>18
    <3> QED BY <1>3, <1>10, <2>1, <3>1 DEF Peaks
  <2>3. /\ OverRun(Amps(longer), longer) = OverRun(Amps(run), run)
        /\ OverRun(SquaredAmps(longer), longer) = OverRun(SquaredAmps(run), run)
    BY <1>15, <1>16, <2>1
  <2> HIDE DEF peak
  <2>4. IsPeakOf(d, longer)
    BY <1>6, <1>7, <1>14, <1>17, <2>1, <2>2, <2>3 DEF IsPeakOf, Amps, SquaredAmps
  <2> QED BY <2>2, <2>4 DEF d, longer, m
<1>19. CASE ~(duration <= 0)
  <2>1. duration \in Nat \ {0} /\ Unit % duration = 0
    <3>1. duration \in 1..(MaxTime - 1)
      BY <1>1, <1>2, <1>5, <1>11, <1>19, SMTT(30) DEF duration
    <3> QED BY <3>1, FiguresAssumption
  <2>2. interval = duration - c.duration
    BY DEF interval
  <2>3. amp * amp \in Int
    OBVIOUS
  <2>4. /\ mean \in Int
        /\ mean * duration = Unit * (OverRun(Amps(run), run) + amp * interval)
    <3> DEFINE S == OverRun(Amps(run), run)
    <3> HIDE DEF S
    <3>1. S \in Int /\ IsMean(c.mean, c.duration, Unit, S)
      BY <1>6, <1>15 DEF S, IsMean
    <3>2. /\ Unit \in Int /\ c.mean \in Int /\ c.duration \in Nat /\ amp \in Int
          /\ interval \in Int /\ interval = duration - c.duration
          /\ duration \in Nat \ {0} /\ Unit % duration = 0
      BY <1>1, <1>3, <1>11, <2>1, <2>2, <3>1, SMTT(30)
    <3>3. /\ Running(c.mean, amp, Unit, interval, duration) \in Int
          /\ IsMean(Running(c.mean, amp, Unit, interval, duration), duration, Unit, S + amp * interval)
      BY ONLY <3>1, <3>2, MeanGoesOn, Zenon
    <3> QED BY <3>3 DEF Running, IsMean, S
  <2>5. /\ rms \in Int
        /\ rms * duration = Unit * (OverRun(SquaredAmps(run), run) + amp * amp * interval)
    <3> DEFINE S == OverRun(SquaredAmps(run), run)
               sq == amp * amp
    <3> HIDE DEF S, sq
    <3>1. S \in Int /\ IsMean(c.rms, c.duration, Unit, S) /\ sq \in Int
      BY <1>7, <1>16, <2>3 DEF S, sq, IsMean
    <3>2. /\ Unit \in Int /\ c.rms \in Int /\ c.duration \in Nat /\ sq \in Int
          /\ interval \in Int /\ interval = duration - c.duration
          /\ duration \in Nat \ {0} /\ Unit % duration = 0
      <4>1. Unit \in Int /\ c.rms \in Int /\ c.duration \in Nat
        BY <1>1, <1>3
      <4>2. interval \in Int
        BY <1>11
      <4> HIDE DEF interval, duration
      <4> QED BY ONLY <2>1, <2>2, <3>1, <4>1, <4>2
    <3>3. /\ Running(c.rms, sq, Unit, interval, duration) \in Int
          /\ IsMean(Running(c.rms, sq, Unit, interval, duration), duration, Unit, S + sq * interval)
      BY ONLY <3>1, <3>2, MeanGoesOn, Zenon
    <3> QED BY <3>3 DEF Running, IsMean, S, sq
  <2> HIDE DEF mean, rms, peak
  <2>6. d = [start |-> c.start, duration |-> duration, peak |-> peak, mean |-> mean, rms |-> rms]
    BY <1>9, <1>19
  <2>7. /\ d.start = c.start /\ d.duration = duration /\ d.peak = peak
        /\ d.mean = mean /\ d.rms = rms /\ d \in Peaks
    BY <1>3, <1>10, <2>1, <2>4, <2>5, <2>6 DEF Peaks
  <2>8. IsPeakOf(d, longer)
    BY <1>14, <1>15, <1>16, <1>17, <2>4, <2>5, <2>7 DEF IsPeakOf, Amps, SquaredAmps
  <2> QED BY <2>7, <2>8 DEF d, longer, m
<1> QED BY <1>18, <1>19

-----------------------------------------------------------------------------
(* The acceleration history and the components that wait in it.            *)

Histories ==
  [fa : [Direction -> Samples], current : Peaks, peaks : Seq(Peaks), run : Seq(Moments),
   mixed : BOOLEAN]

(* The values that a component may have. *)
Components(q) == {0} \cup (IF q = "fax" THEN Fax ELSE Fay)

(* A history at time t: its components, and the moments before them, are   *)
(* in order, and its current peak is that of the run.                      *)
HistoryInv(h, t) ==
  /\ h \in Histories
  /\ Len(h.peaks) <= ItemCount
  /\ \A q \in Direction : h.fa[q].value \in Components(q) /\ h.fa[q].stamp <= t
  /\ \A i \in 1..Len(h.run) : h.run[i].stamp <= t
  /\ \A i \in 1..Len(h.run), q \in Direction :
       h.fa[q].stamp # 0 => h.run[i].stamp <= h.fa[q].stamp
  /\ Ordered(h.run)
  /\ IF h.run = <<>> THEN h.current = PeakZero ELSE IsPeakOf(h.current, h.run)

(* All components that wait are of one moment. *)
Whole(fa) == \A p, q \in Direction : fa[p].stamp = fa[q].stamp

(* The components of an acceleration, typed. *)
LEMMA ComponentsTyped ==
  ASSUME NEW h, NEW t, HistoryInv(h, t), NEW q \in Direction
  PROVE  /\ h.fa[q].value \in Int /\ h.fa[q].stamp \in Nat
         /\ h.fa[q].value \in Components(q)
<1>1. h.fa[q] \in Samples
  BY DEF HistoryInv, Histories
<1> QED BY <1>1 DEF Samples, HistoryInv

(* The amplitude is a number. *)
LEMMA AmplitudeTyped ==
  ASSUME NEW h, NEW t, HistoryInv(h, t), Direction # {}
  PROVE  Amplitude(h.fa) \in Int
<1>1. CASE \E q \in Direction : Direction = {q}
  <2>1. (CHOOSE q \in Direction : TRUE) \in Direction
    BY <1>1
  <2> HIDE <1>1
  <2>2. h.fa[CHOOSE q \in Direction : TRUE].value \in Int
    BY <2>1, ComponentsTyped
  <2> QED BY <1>1, <2>2 DEF Amplitude
<1>2. CASE ~\E q \in Direction : Direction = {q}
  <2>1. "fax" \in Direction /\ "fay" \in Direction
    BY <1>2, AccelerationHistoryAssumption
  <2> DEFINE x == h.fa["fax"].value
             y == h.fa["fay"].value
             z == x * x + y * y
  <2>2. x \in Fax \cup {0} /\ y \in Fay \cup {0} /\ x \in Int /\ y \in Int
    BY <2>1, ComponentsTyped DEF Components
  <2> HIDE DEF x, y
  <2>3. z \in Int /\ \E r \in 0..z : r * r = z
    BY <2>2, FiguresAssumption
  <2>4. Root(z) \in 0..z
    BY <2>3 DEF Root
  <2>5. Amplitude(h.fa) = Root(z)
    BY <1>2 DEF Amplitude, x, y
  <2> HIDE DEF z
  <2> QED BY <2>3, <2>4, <2>5
<1> QED BY <1>1, <1>2

(* The latest of the stamps. *)
LEMMA LatestIs ==
  ASSUME NEW h, NEW t, HistoryInv(h, t), Direction # {}
  PROVE  /\ \E q \in Direction : LatestStamp(h.fa) = h.fa[q].stamp
         /\ \A q \in Direction : h.fa[q].stamp <= LatestStamp(h.fa)
<1> DEFINE S == {h.fa[q].stamp : q \in Direction}
<1>1. \E s \in S : \A q \in Direction : h.fa[q].stamp <= s
  <2>1. CASE \E q \in Direction : Direction = {q}
    <3>1. PICK q \in Direction : Direction = {q}
      BY <2>1
    <3>2. h.fa[q].stamp \in Nat
      BY ComponentsTyped
    <3> QED BY <3>1, <3>2, SMTT(30)
  <2>2. CASE ~\E q \in Direction : Direction = {q}
    <3>1. "fax" \in Direction /\ "fay" \in Direction /\ Direction = {"fax", "fay"}
      BY <2>2, AccelerationHistoryAssumption
    <3> DEFINE x == h.fa["fax"].stamp
               y == h.fa["fay"].stamp
    <3>2. x \in Nat /\ y \in Nat
      BY <3>1, ComponentsTyped
    <3>3. x \in S /\ y \in S /\ \A q \in Direction : h.fa[q].stamp = x \/ h.fa[q].stamp = y
      BY <3>1
    <3> HIDE DEF x, y, S
    <3>4. CASE x <= y
      BY <3>2, <3>3, <3>4
    <3>5. CASE y <= x
      BY <3>2, <3>3, <3>5
    <3> QED BY <3>2, <3>4, <3>5
  <2> QED BY <2>1, <2>2
<1>2. LatestStamp(h.fa) \in S /\ \A q \in Direction : h.fa[q].stamp <= LatestStamp(h.fa)
  BY <1>1 DEF LatestStamp
<1> QED BY <1>2

-----------------------------------------------------------------------------
(* A list of peaks does not become too long. *)
LEMMA ListedTyped ==
  ASSUME NEW peaks \in Seq(Peaks), NEW peak \in Peaks
  PROVE  Listed(peaks, peak) \in Seq(Peaks) /\ Len(Listed(peaks, peak)) <= ItemCount
<1> DEFINE longer == <<peak>> \o peaks
           n == IF Len(longer) > ItemCount THEN ItemCount ELSE Len(longer)
<1>1. longer \in Seq(Peaks) /\ Len(longer) \in Nat
  OBVIOUS
<1> HIDE DEF longer
<1>2. n \in 0..Len(longer) /\ n <= ItemCount
  BY <1>1, AccelerationHistoryAssumption
<1> HIDE DEF n
<1>3. SubSeq(longer, 1, n) \in Seq(Peaks) /\ Len(SubSeq(longer, 1, n)) = n
  BY <1>1, <1>2
<1> QED BY <1>2, <1>3 DEF Listed, longer, n

(* What is recorded when h becomes g. *)
Recorded(h, g) ==
  IF h.run # <<>> /\ g.run = <<>> /\ RunDuration(h.run) > DurationThreshold
  THEN IsPeakOf(h.current, h.run) /\ g.peaks = Listed(h.peaks, h.current)
  ELSE g.peaks = h.peaks

(* A moment is handled. *)
LEMMA HandledKeeps ==
  ASSUME NEW h, NEW t \in Nat, t <= MaxTime, HistoryInv(h, t),
         \E q \in Direction : h.fa[q].stamp # 0
  PROVE  /\ HistoryInv(Handled(h), t)
         /\ Recorded(h, Handled(h))
         /\ Handled(h).fa = [q \in Direction |-> Zero]
         /\ Handled(h).mixed = (h.mixed \/ Mixes(h.fa))
<1> DEFINE amp == Amplitude(h.fa)
           stamp == LatestStamp(h.fa)
           m == [amp |-> amp, stamp |-> stamp]
           fresh == [q \in Direction |-> Zero]
           g == Handled(h)
<1>1. amp \in Int
  BY AmplitudeTyped
<1>2. stamp \in Nat \ {0} /\ stamp <= t /\ \A i \in 1..Len(h.run) : h.run[i].stamp <= stamp
  <2>1. PICK p \in Direction : h.fa[p].stamp # 0
    OBVIOUS
  <2>2. PICK q \in Direction : stamp = h.fa[q].stamp
    BY <2>1, LatestIs
  <2>3. h.fa[p].stamp <= stamp
    BY <2>1, LatestIs
  <2> HIDE DEF stamp
  <2>4. h.fa[p].stamp \in Nat /\ h.fa[q].stamp \in Nat /\ h.fa[q].stamp <= t
    BY ComponentsTyped DEF HistoryInv
  <2>5. stamp # 0
    BY <2>1, <2>2, <2>3, <2>4
  <2>6. \A i \in 1..Len(h.run) : h.run[i].stamp <= h.fa[q].stamp
    BY <2>2, <2>5 DEF HistoryInv
  <2> QED BY <2>2, <2>4, <2>5, <2>6
<1> HIDE DEF amp, stamp
<1>3. /\ h = [fa |-> h.fa, current |-> h.current, peaks |-> h.peaks, run |-> h.run,
              mixed |-> h.mixed]
      /\ h.current \in Peaks /\ h.peaks \in Seq(Peaks) /\ h.run \in Seq(Moments)
      /\ h.mixed \in BOOLEAN /\ Len(h.peaks) <= ItemCount
      /\ \A i \in 1..Len(h.run) : h.run[i].stamp <= t
  BY DEF HistoryInv, Histories
<1>4. /\ fresh \in [Direction -> Samples]
      /\ \A q \in Direction : fresh[q].stamp = 0 /\ fresh[q].value = 0
  BY DEF Samples, Zero
<1>5. (h.mixed \/ Mixes(h.fa)) \in BOOLEAN
  OBVIOUS
<1>6. h.run # <<>> => /\ Len(h.run) \in Nat \ {0}
                      /\ \A i \in 1..Len(h.run) : h.run[i].stamp \in Nat \ {0}
                      /\ Head(h.run) = h.run[1] /\ Last(h.run) = h.run[Len(h.run)]
  BY <1>3, RunTyped
<1>7. h.run # <<>> => /\ IsPeakOf(h.current, h.run)
                      /\ h.run[1].stamp <= h.run[Len(h.run)].stamp
                      /\ h.run[Len(h.run)].stamp <= stamp
                      /\ h.current.start # 0
                      /\ h.current.duration = RunDuration(h.run)
  <2> SUFFICES ASSUME h.run # <<>> PROVE /\ IsPeakOf(h.current, h.run)
                      /\ h.run[1].stamp <= h.run[Len(h.run)].stamp
                      /\ h.run[Len(h.run)].stamp <= stamp
                      /\ h.current.start # 0
                      /\ h.current.duration = RunDuration(h.run)
    OBVIOUS
  <2>1. IsPeakOf(h.current, h.run) /\ Ordered(h.run)
    BY DEF HistoryInv
  <2>2. 1 \in 1..Len(h.run) /\ Len(h.run) \in 1..Len(h.run)
    BY <1>6
  <2> QED BY <1>2, <1>6, <2>1, <2>2 DEF Ordered, IsPeakOf
<1>8. h.run = <<>> => h.current = PeakZero
  BY DEF HistoryInv
<1>9. MaxTime \in Nat /\ DurationThreshold \in Nat
  BY SamplesAssumption, AccelerationHistoryAssumption
<1>10. CASE Abs(amp) > ValueThreshold
  <2> DEFINE c == IF h.current.start = 0 THEN PeakStarts(amp, stamp)
                                         ELSE PeakGoesOn(h.current, amp, stamp)
             longer == Append(h.run, m)
  <2>1. g = [fa |-> fresh, current |-> c, peaks |-> h.peaks, run |-> longer,
             mixed |-> h.mixed \/ Mixes(h.fa)]
    <3>1. g = [h EXCEPT !.fa = fresh, !.current = c, !.run = longer,
                        !.mixed = h.mixed \/ Mixes(h.fa)]
      BY <1>10 DEF Handled, amp, stamp
    <3> HIDE DEF g, c, longer, fresh, m
    <3> QED BY <1>3, <3>1
  <2>2. m \in Moments /\ m.stamp = stamp
    BY <1>1, <1>2 DEF Moments
  <2>3. c \in Peaks /\ IsPeakOf(c, longer)
    <3>1. CASE h.run = <<>>
      <4>1. h.current.start = 0 /\ longer = <<m>>
        BY <1>8, <3>1 DEF PeakZero
      <4> QED BY <1>1, <1>2, <4>1, RunStarts
    <3>2. CASE h.run # <<>>
      <4>1. stamp <= MaxTime
        BY <1>2, <1>9
      <4> QED BY <1>1, <1>2, <1>3, <1>7, <3>2, <4>1, RunGoesOn
    <3> QED BY <3>1, <3>2
  <2> HIDE DEF c, m
  <2>4. /\ longer \in Seq(Moments) /\ Len(longer) = Len(h.run) + 1 /\ longer # <<>>
        /\ longer[Len(h.run) + 1] = m /\ Len(h.run) \in Nat
        /\ \A i \in 1..Len(h.run) : longer[i] = h.run[i]
    <3> DEFINE run == h.run
    <3>1. run \in Seq(Moments) /\ longer = Append(run, m) /\ m \in Moments
      BY <1>3, <2>2
    <3> HIDE DEF run, longer
    <3>2. /\ longer \in Seq(Moments) /\ Len(longer) = Len(run) + 1 /\ Len(run) \in Nat
          /\ longer[Len(run) + 1] = m
      BY ONLY <3>1
    <3>3. \A i \in 1..Len(run) : longer[i] = run[i]
      BY ONLY <3>1
    <3>4. longer # <<>>
      BY ONLY <3>2
    <3> QED BY <3>2, <3>3, <3>4 DEF run
  <2> HIDE DEF longer
  <2>5. ASSUME NEW i \in 1..Len(longer) PROVE longer[i].stamp <= stamp /\ longer[i].stamp <= t
    <3>1. CASE i = Len(h.run) + 1
      BY <1>2, <2>2, <2>4, <3>1
    <3>2. CASE i \in 1..Len(h.run)
      BY <1>2, <1>3, <2>4, <3>2
    <3> QED BY <2>4, <3>1, <3>2
  <2>6. Ordered(longer)
    <3> SUFFICES ASSUME NEW i \in 1..Len(longer), NEW j \in 1..Len(longer), i <= j
                 PROVE  longer[i].stamp <= longer[j].stamp
      BY DEF Ordered
    <3>1. CASE j = Len(h.run) + 1
      BY <2>2, <2>4, <2>5, <3>1
    <3>2. CASE j # Len(h.run) + 1
      <4>1. i \in 1..Len(h.run) /\ j \in 1..Len(h.run)
        BY <2>4, <3>2
      <4>2. h.run[i].stamp <= h.run[j].stamp
        BY <4>1 DEF HistoryInv, Ordered
      <4> QED BY <2>4, <4>1, <4>2
    <3> QED BY <3>1, <3>2
  <2> HIDE DEF g, fresh
  <2>7. g \in Histories /\ g.fa = fresh /\ g.run = longer /\ g.current = c
        /\ g.peaks = h.peaks /\ g.mixed = (h.mixed \/ Mixes(h.fa))
    BY <1>3, <1>4, <1>5, <2>1, <2>3, <2>4 DEF Histories
  <2>8. \A q \in Direction : /\ g.fa[q].value \in Components(q) /\ g.fa[q].stamp <= t
                             /\ g.fa[q].stamp = 0
    BY <1>4, <2>7 DEF Components
  <2>9. HistoryInv(g, t)
    BY <1>3, <2>3, <2>4, <2>5, <2>6, <2>7, <2>8 DEF HistoryInv
  <2>10. Recorded(h, g)
    BY <2>4, <2>7 DEF Recorded
  <2> QED BY <2>7, <2>9, <2>10 DEF g, fresh
<1>11. CASE ~(Abs(amp) > ValueThreshold)
  <2> DEFINE c == h.current
             peaks == IF c.duration > DurationThreshold THEN Listed(h.peaks, c) ELSE h.peaks
  <2>1. g = [fa |-> fresh, current |-> PeakZero, peaks |-> peaks, run |-> <<>>,
             mixed |-> h.mixed \/ Mixes(h.fa)]
    <3>1. g = [h EXCEPT !.fa = fresh, !.current = PeakZero, !.peaks = peaks, !.run = <<>>,
                        !.mixed = h.mixed \/ Mixes(h.fa)]
      BY <1>11 DEF Handled, amp, stamp
    <3> HIDE DEF g, peaks, fresh, m
    <3> QED BY <1>3, <3>1
  <2>2. peaks \in Seq(Peaks) /\ Len(peaks) <= ItemCount
    BY <1>3, ListedTyped
  <2>3. IF h.run # <<>> /\ RunDuration(h.run) > DurationThreshold
        THEN IsPeakOf(h.current, h.run) /\ peaks = Listed(h.peaks, h.current)
        ELSE peaks = h.peaks
    <3>1. CASE h.run = <<>>
      <4>1. c.duration = 0
        BY <1>8, <3>1 DEF PeakZero
      <4> QED BY <1>9, <3>1, <4>1
    <3>2. CASE h.run # <<>>
      BY <1>7, <3>2
    <3> QED BY <3>1, <3>2
  <2>4. PeakZero \in Peaks
    BY DEF PeakZero, Peaks
  <2> HIDE DEF g, fresh, peaks, c
  <2>5. g \in Histories /\ g.fa = fresh /\ g.run = <<>> /\ g.current = PeakZero
        /\ g.peaks = peaks /\ g.mixed = (h.mixed \/ Mixes(h.fa))
    BY <1>3, <1>4, <1>5, <2>1, <2>2, <2>4 DEF Histories
  <2>6. \A q \in Direction : /\ g.fa[q].value \in Components(q) /\ g.fa[q].stamp <= t
                             /\ g.fa[q].stamp = 0
    BY <1>4, <2>5 DEF Components
  <2>7. HistoryInv(g, t)
    BY <2>2, <2>5, <2>6 DEF HistoryInv, Ordered
  <2>8. Recorded(h, g)
    BY <2>3, <2>5 DEF Recorded, c
  <2> QED BY <2>5, <2>7, <2>8 DEF g, fresh
<1> QED BY <1>10, <1>11

-----------------------------------------------------------------------------
(* Time passes. *)
LEMMA LaterHistory ==
  ASSUME NEW h, NEW t \in Nat, NEW u \in Nat, t <= u, HistoryInv(h, t)
  PROVE  HistoryInv(h, u)
<1>1. \A i \in 1..Len(h.run) : h.run[i].stamp \in Nat
  <2>1. h.run \in Seq(Moments)
    BY DEF HistoryInv, Histories
  <2>2. \A m \in Moments : m.stamp \in Nat
    BY DEF Moments
  <2>3. \A i \in 1..Len(h.run) : h.run[i] \in Moments
    BY <2>1
  <2> QED BY <2>2, <2>3
<1>2. \A i \in 1..Len(h.run) : h.run[i].stamp <= u
  BY <1>1 DEF HistoryInv
<1>3. \A q \in Direction : h.fa[q].stamp <= u
  <2>1. \A q \in Direction : h.fa[q].stamp \in Nat
    BY ComponentsTyped
  <2> QED BY <2>1 DEF HistoryInv
<1> QED BY <1>2, <1>3 DEF HistoryInv

(* A component of the present moment waits. *)
LEMMA StoredKeeps ==
  ASSUME NEW h, NEW u \in Nat, HistoryInv(h, u), NEW q \in Direction,
         NEW v \in Samples, v.stamp = u, v.value \in Components(q)
  PROVE  /\ HistoryInv([h EXCEPT !.fa[q] = v], u)
         /\ [h EXCEPT !.fa[q] = v].fa = [h.fa EXCEPT ![q] = v]
         /\ [h EXCEPT !.fa[q] = v].run = h.run
         /\ [h EXCEPT !.fa[q] = v].current = h.current
         /\ [h EXCEPT !.fa[q] = v].peaks = h.peaks
         /\ [h EXCEPT !.fa[q] = v].mixed = h.mixed
<1> DEFINE g == [h EXCEPT !.fa[q] = v]
           fa == [h.fa EXCEPT ![q] = v]
<1>1. /\ h.fa \in [Direction -> Samples]
      /\ h = [fa |-> h.fa, current |-> h.current, peaks |-> h.peaks, run |-> h.run,
              mixed |-> h.mixed]
      /\ h \in Histories
  BY DEF HistoryInv, Histories
<1>2. fa \in [Direction -> Samples]
  BY <1>1
<1>3. \A p \in Direction : fa[p] = IF p = q THEN v ELSE h.fa[p]
  BY <1>1
<1>4. g = [fa |-> fa, current |-> h.current, peaks |-> h.peaks, run |-> h.run,
           mixed |-> h.mixed]
  <2>1. g = [h EXCEPT !.fa = fa]
    OBVIOUS
  <2> HIDE DEF g, fa
  <2> QED BY <1>1, <2>1
<1> HIDE DEF g, fa
<1>5. /\ g.fa = fa /\ g.run = h.run /\ g.current = h.current /\ g.peaks = h.peaks
      /\ g.mixed = h.mixed
  BY <1>4
<1>6. g \in Histories
  BY <1>1, <1>2, <1>4 DEF Histories
<1>7. \A p \in Direction : g.fa[p].value \in Components(p) /\ g.fa[p].stamp <= u
  BY <1>3, <1>5 DEF HistoryInv
<1>8. \A i \in 1..Len(g.run), p \in Direction :
        g.fa[p].stamp # 0 => g.run[i].stamp <= g.fa[p].stamp
  BY <1>3, <1>5 DEF HistoryInv
<1>9. HistoryInv(g, u)
  BY <1>5, <1>6, <1>7, <1>8 DEF HistoryInv
<1> QED BY <1>5, <1>9 DEF g, fa

(* A component comes in.  Either it waits, or it first ends the moment     *)
(* whose component it would replace.                                       *)
LEMMA HistoryWithKeeps ==
  ASSUME NEW h, NEW u \in Nat, u <= MaxTime, HistoryInv(h, u), NEW q \in {"fax", "fay"},
         NEW v \in Samples, v.stamp = u, v.value \in Components(q), NEW g, g = HistoryWith(h, q, v)
  PROVE  /\ HistoryInv(g, u)
         /\ q \notin Direction => g = h
         /\ q \in Direction /\ h.fa[q].stamp = 0 =>
              /\ g.fa = [h.fa EXCEPT ![q] = v]
              /\ g.run = h.run /\ g.current = h.current /\ g.peaks = h.peaks
              /\ g.mixed = h.mixed
         /\ q \in Direction /\ h.fa[q].stamp # 0 =>
              /\ g.fa = [p \in Direction |-> IF p = q THEN v ELSE Zero]
              /\ Recorded(h, g)
              /\ g.mixed = (h.mixed \/ Mixes(h.fa))
<1>1. CASE q \notin Direction
  BY <1>1 DEF HistoryWith
<1>2. CASE q \in Direction /\ h.fa[q].stamp = 0
  <2>1. g = [h EXCEPT !.fa[q] = v]
    BY <1>2 DEF HistoryWith
  <2> QED BY <1>2, <2>1, StoredKeeps
<1>3. CASE q \in Direction /\ h.fa[q].stamp # 0
  <2> DEFINE k == Handled(h)
  <2>1. g = [k EXCEPT !.fa[q] = v]
    BY <1>3 DEF HistoryWith
  <2>2. /\ HistoryInv(k, u) /\ Recorded(h, k)
        /\ k.fa = [p \in Direction |-> Zero] /\ k.mixed = (h.mixed \/ Mixes(h.fa))
    BY <1>3, HandledKeeps
  <2> HIDE DEF k
  <2>3. /\ HistoryInv(g, u) /\ g.fa = [k.fa EXCEPT ![q] = v] /\ g.run = k.run
        /\ g.current = k.current /\ g.peaks = k.peaks /\ g.mixed = k.mixed
    BY <1>3, <2>1, <2>2, StoredKeeps
  <2>4. Recorded(h, g)
    BY <2>2, <2>3 DEF Recorded
  <2>5. g.fa = [p \in Direction |-> IF p = q THEN v ELSE Zero]
    BY <2>2, <2>3
  <2> QED BY <1>3, <2>2, <2>3, <2>4, <2>5
<1> QED BY <1>1, <1>2, <1>3

(* The peaks do not depend on what has become of components that wait, *)
LEMMA ThenRecorded ==
  ASSUME NEW h, NEW g, NEW k, g.run = h.run, g.current = h.current, g.peaks = h.peaks,
         Recorded(g, k)
  PROVE  Recorded(h, k)
  BY DEF Recorded

(* or what will. *)
LEMMA RecordedThen ==
  ASSUME NEW h, NEW g, NEW k, k.run = g.run, k.current = g.current, k.peaks = g.peaks,
         Recorded(h, g)
  PROVE  Recorded(h, k)
  BY DEF Recorded

(* Nothing is recorded if nothing changes. *)
LEMMA NothingRecorded ==
  ASSUME NEW h, NEW g, g.run = h.run, g.peaks = h.peaks
  PROVE  Recorded(h, g)
  BY DEF Recorded

(* Nothing is mixed if all components are of one moment. *)
LEMMA WholeIsNotMixed == ASSUME NEW fa, Whole(fa) PROVE ~Mixes(fa)
  BY DEF Whole, Mixes

(* A component comes in by itself. *)
LEMMA ComponentKeeps ==
  ASSUME NEW h, NEW u \in Nat, u <= MaxTime, HistoryInv(h, u), NEW q \in {"fax", "fay"},
         NEW v \in Samples, v.stamp = u, v.value \in Components(q), NEW g, g = HistoryWith(h, q, v)
  PROVE  HistoryInv(g, u) /\ Recorded(h, g)
<1>1. /\ HistoryInv(g, u)
      /\ q \notin Direction => g = h
      /\ q \in Direction /\ h.fa[q].stamp = 0 =>
           /\ g.fa = [h.fa EXCEPT ![q] = v]
           /\ g.run = h.run /\ g.current = h.current /\ g.peaks = h.peaks
           /\ g.mixed = h.mixed
      /\ q \in Direction /\ h.fa[q].stamp # 0 =>
           /\ g.fa = [p \in Direction |-> IF p = q THEN v ELSE Zero]
           /\ Recorded(h, g)
           /\ g.mixed = (h.mixed \/ Mixes(h.fa))
  BY HistoryWithKeeps
<1>2. g.run = h.run /\ g.peaks = h.peaks => Recorded(h, g)
  BY NothingRecorded
<1> QED BY <1>1, <1>2

(* An acceleration comes in. *)
LEMMA AccelerationKeeps ==
  ASSUME NEW h, NEW u \in Nat \ {0}, u <= MaxTime, HistoryInv(h, u),
         NEW v \in Samples, v.stamp = u, v.value \in Components("fax"),
         NEW w \in Samples, w.stamp = u, w.value \in Components("fay"),
         NEW g, g = HistoryWith(h, "fax", v), NEW k, k = HistoryWith(g, "fay", w)
  PROVE  /\ HistoryInv(k, u) /\ Recorded(h, k)
         /\ Whole(h.fa) => Whole(k.fa) /\ k.mixed = h.mixed
<1>1. /\ HistoryInv(g, u)
      /\ "fax" \notin Direction => g = h
      /\ "fax" \in Direction /\ h.fa["fax"].stamp = 0 =>
           /\ g.fa = [h.fa EXCEPT !["fax"] = v]
           /\ g.run = h.run /\ g.current = h.current /\ g.peaks = h.peaks
           /\ g.mixed = h.mixed
      /\ "fax" \in Direction /\ h.fa["fax"].stamp # 0 =>
           /\ g.fa = [p \in Direction |-> IF p = "fax" THEN v ELSE Zero]
           /\ Recorded(h, g)
           /\ g.mixed = (h.mixed \/ Mixes(h.fa))
  BY HistoryWithKeeps
<1>2. /\ HistoryInv(k, u)
      /\ "fay" \notin Direction => k = g
      /\ "fay" \in Direction /\ g.fa["fay"].stamp = 0 =>
           /\ k.fa = [g.fa EXCEPT !["fay"] = w]
           /\ k.run = g.run /\ k.current = g.current /\ k.peaks = g.peaks
           /\ k.mixed = g.mixed
      /\ "fay" \in Direction /\ g.fa["fay"].stamp # 0 =>
           /\ k.fa = [p \in Direction |-> IF p = "fay" THEN w ELSE Zero]
           /\ Recorded(g, k)
           /\ k.mixed = (g.mixed \/ Mixes(g.fa))
  BY <1>1, HistoryWithKeeps
<1>3. /\ h.fa \in [Direction -> Samples] /\ g.fa \in [Direction -> Samples]
      /\ k.fa \in [Direction -> Samples] /\ h.mixed \in BOOLEAN
  BY <1>1, <1>2 DEF HistoryInv, Histories
<1>4. CASE "fax" \in Direction /\ h.fa["fax"].stamp # 0
  <2>1. "fay" \in Direction => g.fa["fay"].stamp = 0
    BY <1>1, <1>4 DEF Zero
  <2>2. k.run = g.run /\ k.current = g.current /\ k.peaks = g.peaks /\ k.mixed = g.mixed
    BY <1>2, <2>1
  <2>3. Recorded(h, k)
    BY <1>1, <1>4, <2>2, RecordedThen
  <2>4. ASSUME NEW p \in Direction PROVE k.fa[p].stamp = u
    <3>1. p = "fax" \/ p = "fay"
      BY AccelerationHistoryAssumption
    <3>2. CASE p = "fay"
      BY <1>2, <1>3, <2>1, <3>2
    <3>3. CASE p = "fax"
      <4>1. g.fa["fax"] = v
        BY <1>1, <1>4
      <4>2. k.fa["fax"] = g.fa["fax"]
        BY <1>2, <1>3, <1>4, <2>1
      <4> QED BY <3>3, <4>1, <4>2
    <3> QED BY <3>1, <3>2, <3>3
  <2>5. Whole(k.fa)
    BY <2>4 DEF Whole
  <2>6. Whole(h.fa) => k.mixed = h.mixed
    BY <1>1, <1>3, <1>4, <2>2, WholeIsNotMixed
  <2> QED BY <1>2, <2>3, <2>5, <2>6
<1>5. CASE "fax" \in Direction /\ h.fa["fax"].stamp = 0
  <2>1. /\ g.fa = [h.fa EXCEPT !["fax"] = v]
        /\ g.run = h.run /\ g.current = h.current /\ g.peaks = h.peaks
        /\ g.mixed = h.mixed
    BY <1>1, <1>5
  <2>2. Recorded(h, k)
    <3>1. CASE "fay" \in Direction /\ g.fa["fay"].stamp # 0
      BY <1>2, <2>1, <3>1, ThenRecorded
    <3>2. CASE ~("fay" \in Direction /\ g.fa["fay"].stamp # 0)
      BY <1>2, <2>1, <3>2, NothingRecorded
    <3> QED BY <3>1, <3>2
  <2>3. ASSUME Whole(h.fa) PROVE Whole(k.fa) /\ k.mixed = h.mixed
    <3>1. "fay" \in Direction => g.fa["fay"].stamp = 0
      BY <1>3, <1>5, <2>1, <2>3 DEF Whole
    <3>2. k.mixed = h.mixed
      BY <1>2, <2>1, <3>1
    <3>3. ASSUME NEW p \in Direction PROVE k.fa[p].stamp = u
      <4>1. p = "fax" \/ p = "fay"
        BY AccelerationHistoryAssumption
      <4>2. CASE p = "fay"
        BY <1>2, <1>3, <3>1, <4>2
      <4>3. CASE p = "fax"
        <5>1. g.fa["fax"] = v
          BY <1>3, <1>5, <2>1
        <5>2. k.fa["fax"] = g.fa["fax"]
          BY <1>2, <1>3, <1>5, <3>1
        <5> QED BY <4>3, <5>1, <5>2
      <4> QED BY <4>1, <4>2, <4>3
    <3> QED BY <3>2, <3>3 DEF Whole
  <2> QED BY <1>2, <2>2, <2>3
<1>6. CASE "fax" \notin Direction
  <2>1. g = h
    BY <1>1, <1>6
  <2>2. Recorded(h, k)
    <3>1. CASE "fay" \in Direction /\ g.fa["fay"].stamp # 0
      BY <1>2, <2>1, <3>1
    <3>2. CASE ~("fay" \in Direction /\ g.fa["fay"].stamp # 0)
      BY <1>2, <2>1, <3>2, NothingRecorded
    <3> QED BY <3>1, <3>2
  <2>3. \A p, q \in Direction : p = q
    BY <1>6, AccelerationHistoryAssumption
  <2>4. Whole(k.fa) /\ Whole(g.fa)
    BY <2>3 DEF Whole
  <2>5. k.mixed = h.mixed
    BY <1>2, <1>3, <2>1, <2>4, WholeIsNotMixed
  <2> QED BY <1>2, <2>2, <2>4, <2>5
<1> QED BY <1>4, <1>5, <1>6

-----------------------------------------------------------------------------
(* The history part of the state. *)
HistoryPart ==
  /\ now \in Nat \ {0}
  /\ lone \in BOOLEAN
  /\ HistoryInv(history, now)
  /\ ~lone => ~history.mixed /\ Whole(history.fa)

(* At first nothing waits. *)
LEMMA InitHistoryPart == Init => HistoryPart
<1> SUFFICES ASSUME Init PROVE HistoryPart OBVIOUS
<1>1. now = 1 /\ lone = FALSE /\ history = NoHistory
  BY DEF Init
<1> DEFINE fa == [q \in Direction |-> Zero]
<1>2. /\ fa \in [Direction -> Samples]
      /\ \A q \in Direction : fa[q].stamp = 0 /\ fa[q].value = 0
  BY DEF Zero, Samples
<1>3. PeakZero \in Peaks
  BY DEF PeakZero, Peaks
<1> HIDE DEF fa
<1>4. history = [fa |-> fa, current |-> PeakZero, peaks |-> <<>>, run |-> <<>>, mixed |-> FALSE]
  BY <1>1 DEF NoHistory, fa
<1>5. history \in Histories
  BY <1>2, <1>3, <1>4 DEF Histories
<1>6. HistoryInv(history, now)
  BY <1>1, <1>2, <1>4, <1>5, AccelerationHistoryAssumption DEF HistoryInv, Ordered, Components
<1>7. history.mixed = FALSE /\ Whole(history.fa)
  BY <1>2, <1>4 DEF Whole
<1>8. now \in Nat \ {0}
  BY <1>1
<1>10. lone \in BOOLEAN
  BY <1>1
<1>9. ~lone => ~history.mixed /\ Whole(history.fa)
  BY <1>7
<1> QED BY <1>6, <1>8, <1>9, <1>10 DEF HistoryPart

(* Stamps are of the present. *)
LEMMA StampedTyped ==
  ASSUME NEW x \in Int, now' \in Nat
  PROVE  Stamped(x) \in Samples /\ Stamped(x).stamp = now' /\ Stamped(x).value = x
  BY DEF Stamped, Samples

(* Time does not go back, and the processor stays the one it was. *)
LEMMA TimeGoesOn ==
  ASSUME now \in Nat \ {0}, TimePasses
  PROVE  now' \in Nat \ {0} /\ now <= now' /\ now' <= MaxTime /\ processor' = processor
  BY SamplesAssumption DEF TimePasses

(* Every step records the peak that it ends. *)
LEMMA NextHistoryPart ==
  HistoryPart /\ [Next]_vars =>
    /\ HistoryPart'
    /\ history'.mixed => lone'
    /\ Recorded(history, history')
<1> SUFFICES ASSUME HistoryPart, [Next]_vars
             PROVE  HistoryPart' /\ (history'.mixed => lone') /\ Recorded(history, history')
  OBVIOUS
<1>1. now \in Nat \ {0} /\ lone \in BOOLEAN /\ HistoryInv(history, now)
      /\ (~lone => ~history.mixed /\ Whole(history.fa))
  BY DEF HistoryPart
<1>2. ASSUME history' = history, lone' = lone, now' \in Nat \ {0}, now <= now'
      PROVE  HistoryPart' /\ (history'.mixed => lone') /\ Recorded(history, history')
  <2>1. HistoryInv(history', now')
    BY <1>1, <1>2, LaterHistory
  <2>2. Recorded(history, history')
    BY <1>2, NothingRecorded
  <2> QED BY <1>1, <1>2, <2>1, <2>2 DEF HistoryPart
<1>3. CASE UNCHANGED vars
  BY <1>1, <1>2, <1>3 DEF vars
<1>4. CASE InsertValue
  BY <1>1, <1>2, <1>4, TimeGoesOn DEF InsertValue
<1>5. CASE InsertAcceleration
  <2>1. now' \in Nat \ {0} /\ now <= now' /\ now' <= MaxTime /\ lone' = lone
    BY <1>1, <1>5, TimeGoesOn DEF InsertAcceleration
  <2>2. PICK x \in Fax, y \in Fay :
          history' = HistoryWith(HistoryWith(history, "fax", Stamped(x)), "fay", Stamped(y))
    BY <1>5 DEF InsertAcceleration
  <2> DEFINE v == Stamped(x)
             w == Stamped(y)
  <2>3. /\ v \in Samples /\ v.stamp = now' /\ v.value \in Components("fax")
        /\ w \in Samples /\ w.stamp = now' /\ w.value \in Components("fay")
    BY <2>1, SamplesAssumption, StampedTyped DEF Components
  <2> HIDE DEF v, w
  <2>4. HistoryInv(history, now')
    BY <1>1, <2>1, LaterHistory
  <2>5. history' = HistoryWith(HistoryWith(history, "fax", v), "fay", w)
    BY <2>2 DEF v, w
  <2>6. /\ HistoryInv(history', now') /\ Recorded(history, history')
        /\ Whole(history.fa) => Whole(history'.fa) /\ history'.mixed = history.mixed
    BY <2>1, <2>3, <2>4, <2>5, AccelerationKeeps
  <2> QED BY <1>1, <2>1, <2>6 DEF HistoryPart
<1>6. CASE InsertComponent
  <2>1. now' \in Nat \ {0} /\ now <= now' /\ now' <= MaxTime /\ lone' = TRUE
    BY <1>1, <1>6, TimeGoesOn DEF InsertComponent
  <2>2. HistoryInv(history, now')
    BY <1>1, <2>1, LaterHistory
  <2>3. HistoryInv(history', now') /\ Recorded(history, history')
    <3>1. CASE \E x \in Fax : history' = HistoryWith(history, "fax", Stamped(x))
      <4>1. PICK x \in Fax : history' = HistoryWith(history, "fax", Stamped(x))
        BY <3>1
      <4>2. Stamped(x) \in Samples /\ Stamped(x).stamp = now' /\ Stamped(x).value \in Components("fax")
        BY <2>1, SamplesAssumption, StampedTyped DEF Components
      <4> QED BY <2>1, <2>2, <4>1, <4>2, ComponentKeeps
    <3>2. CASE \E y \in Fay : history' = HistoryWith(history, "fay", Stamped(y))
      <4>1. PICK y \in Fay : history' = HistoryWith(history, "fay", Stamped(y))
        BY <3>2
      <4>2. Stamped(y) \in Samples /\ Stamped(y).stamp = now' /\ Stamped(y).value \in Components("fay")
        BY <2>1, SamplesAssumption, StampedTyped DEF Components
      <4> QED BY <2>1, <2>2, <4>1, <4>2, ComponentKeeps
    <3> QED BY <1>6, <3>1, <3>2 DEF InsertComponent
  <2> QED BY <2>1, <2>3 DEF HistoryPart
<1> QED BY <1>3, <1>4, <1>5, <1>6 DEF Next

(* The inductive invariant of the acceleration history. *)
LEMMA HistoryPartHolds == Spec => []HistoryPart
<1>1. HistoryPart /\ [Next]_vars => HistoryPart'
  BY NextHistoryPart
<1> QED BY <1>1, InitHistoryPart, PTL DEF Spec

(* Whatever comes in, in whatever pieces, and however many moments a run   *)
(* has (acceleration_history.h:83-102, 163-194): the list of peaks changes *)
(* only when a run that lasted long enough ends, and then by the peak with *)
(* the figures of all of its moments.                                      *)
THEOREM PeaksAreRecorded == Spec => PeaksRecorded
<1> DEFINE Record ==
      LET run == history.run
          ended == run # <<>> /\ history'.run = <<>>
      IN /\ history'.mixed => lone'
         /\ IF ended /\ RunDuration(run) > DurationThreshold
            THEN /\ IsPeakOf(history.current, run)
                 /\ history'.peaks = Listed(history.peaks, history.current)
            ELSE history'.peaks = history.peaks
<1>1. HistoryPart /\ [Next]_vars => [Record]_vars
  BY NextHistoryPart DEF Recorded
<1>2. Spec => [][Record]_vars
  <2> HIDE DEF Record
  <2> QED BY <1>1, HistoryPartHolds, PTL DEF Spec
<1> QED BY <1>2 DEF PeaksRecorded

-----------------------------------------------------------------------------
(* Readings, averages and the circle.                                      *)

(* Values that are less than half a circle. *)
Near(x) == x \in Nat /\ (Circle # 0 => 2 * x < Circle)

Divides(d, n) == \E e \in Int : n = d * e

(* Near values are their own norm. *)
LEMMA NearNorm == ASSUME NEW x, Near(x) PROVE value_norm(x) = x
<1>1. x \in Nat /\ Circle \in Nat /\ (Circle # 0 => 2 * x < Circle)
  BY StatisticsAssumption DEF Near
<1>2. CASE Circle = 0
  BY <1>2 DEF value_norm, Wrapped
<1>3. CASE Circle # 0
  <2>1. value_norm(x) = 0 + ((x - 0) % Circle)
    BY <1>3 DEF value_norm, Wrapped
  <2>2. (x - 0) % Circle = x
    BY ONLY <1>1, <1>3
  <2> QED BY <1>1, <2>1, <2>2
<1> QED BY <1>2, <1>3

(* They differ by their difference. *)
LEMMA NearDiff ==
  ASSUME NEW x, NEW y, Near(x), Near(y)
  PROVE  value_diff(x, y) = x - y
<1>1. /\ x \in Nat /\ y \in Nat /\ Circle \in Nat /\ Circle % 2 = 0
      /\ (Circle # 0 => 2 * x < Circle /\ 2 * y < Circle)
  BY StatisticsAssumption DEF Near
<1>2. CASE Circle = 0
  BY <1>2 DEF value_diff, Wrapped
<1>3. CASE Circle # 0
  <2> DEFINE half == Circle \div 2
  <2>1. half \in Nat /\ Circle = 2 * half
    BY ONLY <1>1
  <2>2. value_diff(x, y) = -half + (((x - y) - (-half)) % Circle)
    BY <1>3 DEF value_diff, Wrapped
  <2> HIDE DEF half
  <2>3. (x - y) - (-half) \in 0..(Circle - 1)
    BY ONLY <1>1, <1>3, <2>1
  <2>4. ((x - y) - (-half)) % Circle = (x - y) - (-half)
    BY ONLY <1>1, <1>3, <2>3
  <2>5. -half + ((x - y) - (-half)) = x - y
    BY ONLY <1>1, <2>1
  <2> QED BY <2>2, <2>4, <2>5
<1> QED BY <1>2, <1>3

(* Readings are even multiples of every span. *)
LEMMA ReadingIs ==
  ASSUME NEW x \in Readings, NEW d \in 1..(MaxTime - 1)
  PROVE  /\ x \in Nat /\ Near(x)
         /\ \E e \in Nat : x = 2 * (d * e)
<1>1. /\ Scale \in Nat \ {0} /\ x \in Nat /\ MaxTime \in Nat /\ d \in Nat \ {0}
      /\ Scale % (2 * d) = 0 /\ x % Scale = 0 /\ (Circle # 0 => 2 * x < Circle)
  <2>1. Scale \in Nat \ {0}
    BY StatisticsAssumption
  <2>2. x \in Nat /\ MaxTime \in Nat
    BY SamplesAssumption
  <2>3. Scale % (2 * d) = 0
    BY FiguresAssumption
  <2>4. x % Scale = 0 /\ (Circle # 0 => 2 * x < Circle)
    BY FiguresAssumption
  <2> QED BY <2>1, <2>2, <2>3, <2>4
<1> DEFINE a == x \div Scale
           b == Scale \div (2 * d)
<1>2. a \in Nat /\ x = Scale * a
  BY ONLY <1>1
<1>3. b \in Nat /\ Scale = (2 * d) * b
  <2>1. 2 * d \in Nat \ {0}
    BY <1>1
  <2> DEFINE dd == 2 * d
  <2> HIDE DEF dd
  <2>2. dd \in Nat \ {0} /\ Scale % dd = 0
    BY <1>1, <2>1 DEF dd
  <2>3. Scale \div dd \in Nat /\ Scale = dd * (Scale \div dd)
    BY ONLY <1>1, <2>2
  <2> QED BY <2>3 DEF dd
<1> HIDE DEF a, b
<1>4. b * a \in Nat /\ x = 2 * (d * (b * a))
  <2>1. b * a \in Nat
    BY ONLY <1>2, <1>3
  <2>2. ((2 * d) * b) * a = 2 * (d * (b * a))
    BY ONLY <1>1, <1>2, <1>3
  <2> QED BY <1>2, <1>3, <2>1, <2>2
<1> QED BY <1>1, <1>4 DEF Near

(* The average of two readings, and how it is computed. *)
LEMMA AverageIs ==
  ASSUME NEW x \in Readings, NEW y \in Readings, NEW d \in 1..(MaxTime - 1)
  PROVE  /\ Near((x + y) \div 2) /\ Divides(d, (x + y) \div 2)
         /\ value_norm(x - value_diff(x, y) \div 2) = (x + y) \div 2
<1>1. x \in Nat /\ y \in Nat /\ Near(x) /\ Near(y)
  BY ReadingIs
<1>2. PICK e \in Nat : x = 2 * (d * e)
  BY ReadingIs
<1>3. PICK f \in Nat : y = 2 * (d * f)
  BY ReadingIs
<1>4. d \in Nat \ {0}
  BY SamplesAssumption
<1> DEFINE p == d * e
           q == d * f
<1>5. p \in Nat /\ q \in Nat /\ x = 2 * p /\ y = 2 * q /\ p + q = d * (e + f)
  BY ONLY <1>2, <1>3, <1>4, e \in Nat, f \in Nat
<1> HIDE DEF p, q
<1>6. (x + y) \div 2 = p + q /\ (x - y) \div 2 = p - q
  BY ONLY <1>5
<1>7. Near(p + q)
  BY <1>1, <1>5, StatisticsAssumption DEF Near
<1>8. Divides(d, p + q)
  <2>1. e + f \in Int
    OBVIOUS
  <2> QED BY <1>5, <2>1 DEF Divides
<1>9. x - (x - y) \div 2 = p + q
  BY <1>5, <1>6
<1>10. value_diff(x, y) = x - y
  BY <1>1, NearDiff
<1>11. value_norm(p + q) = p + q
  BY <1>7, NearNorm
<1> QED BY <1>6, <1>7, <1>8, <1>9, <1>10, <1>11

-----------------------------------------------------------------------------
(* What sums inherit. *)

(* A divisor of all of the numbers divides their total. *)
LEMMA TotalDivided ==
  ASSUME NEW x, Len(x) \in Nat, NEW d \in Int,
         \A i \in 1..Len(x) : x[i] \in Int /\ Divides(d, x[i])
  PROVE  Divides(d, Total(x))
<1> DEFINE n == Len(x)
<1>1. PICK g \in [0..n -> Int] : Accumulates(g, x, n) /\ Total(x) = g[n]
  BY TotalExists
<1>2. n \in Nat
  OBVIOUS
<1> HIDE DEF n
<1> DEFINE P == {i \in 0..n : Divides(d, g[i])}
<1>3. 0 \in P
  <2>1. g[0] = d * 0 /\ 0 \in Int
    BY <1>1 DEF Accumulates
  <2> QED BY <1>2, <2>1, SMTT(30) DEF Divides
<1>4. ASSUME NEW i \in 1..n, i - 1 \in P PROVE i \in P
  <2>1. PICK e \in Int : g[i - 1] = d * e
    BY <1>4 DEF Divides
  <2>2. PICK f \in Int : x[i] = d * f
    BY DEF Divides, n
  <2>3. g[i] = g[i - 1] + x[i]
    BY <1>1 DEF Accumulates
  <2>4. d * e + d * f = d * (e + f) /\ e + f \in Int
    BY ONLY d \in Int, e \in Int, f \in Int
  <2> DEFINE z == e + f
  <2>5. z \in Int /\ g[i] = d * z
    BY <2>1, <2>2, <2>3, <2>4
  <2> HIDE DEF z
  <2>6. Divides(d, g[i])
    BY <2>5 DEF Divides
  <2> QED BY <1>2, <2>6
<1>5. n \in P
  <2> HIDE DEF P
  <2>1. \A i \in 1..n : i - 1 \in P => i \in P
    BY <1>4
  <2>2. \A i \in 0..n : i \in P
    BY <1>2, <1>3, <2>1, UpTo
  <2> QED BY <1>2, <2>2
<1> QED BY <1>1, <1>5

(* The total of numbers that are not negative is not negative. *)
LEMMA TotalNonNegative ==
  ASSUME NEW x, Len(x) \in Nat, \A i \in 1..Len(x) : x[i] \in Nat
  PROVE  Total(x) \in Nat
<1> DEFINE n == Len(x)
<1>1. PICK g \in [0..n -> Int] : Accumulates(g, x, n) /\ Total(x) = g[n]
  BY TotalExists
<1>2. n \in Nat
  OBVIOUS
<1> HIDE DEF n
<1> DEFINE P == {i \in 0..n : g[i] \in Nat}
<1>3. 0 \in P
  BY <1>1, <1>2 DEF Accumulates
<1>4. ASSUME NEW i \in 1..n, i - 1 \in P PROVE i \in P
  <2>1. x[i] \in Nat
    BY DEF n
  <2>2. g[i] = g[i - 1] + x[i]
    BY <1>1 DEF Accumulates
  <2> QED BY <1>2, <1>4, <2>1, <2>2
<1>5. n \in P
  <2> HIDE DEF P
  <2>1. \A i \in 1..n : i - 1 \in P => i \in P
    BY <1>4
  <2>2. \A i \in 0..n : i \in P
    BY <1>2, <1>3, <2>1, UpTo
  <2> QED BY <1>2, <2>2
<1> QED BY <1>1, <1>5

(* The n numbers of x are those of a, and multiples of those of b and c. *)
Combines(n, x, a, k, b, m, c) ==
  /\ Len(x) = n /\ Len(a) = n /\ Len(b) = n /\ Len(c) = n
  /\ \A i \in 1..n : /\ a[i] \in Int /\ b[i] \in Int /\ c[i] \in Int
                     /\ x[i] = (a[i] + k * b[i]) + m * c[i]

(* One sum of multiples of others. *)
LEMMA TotalCombined ==
  ASSUME NEW n \in Nat, NEW k \in Int, NEW m \in Int, NEW x, NEW a, NEW b, NEW c,
         Combines(n, x, a, k, b, m, c)
  PROVE  Total(x) = (Total(a) + k * Total(b)) + m * Total(c)
<1> USE DEF Combines
<1>1. PICK f \in [0..n -> Int] : Accumulates(f, a, n) /\ Total(a) = f[n]
  BY TotalExists
<1>2. PICK g \in [0..n -> Int] : Accumulates(g, b, n) /\ Total(b) = g[n]
  BY TotalExists
<1>3. PICK h \in [0..n -> Int] : Accumulates(h, c, n) /\ Total(c) = h[n]
  BY TotalExists
<1> DEFINE s == [i \in 0..n |-> (f[i] + k * g[i]) + m * h[i]]
<1>4. s \in [0..n -> Int]
  <2> SUFFICES ASSUME NEW i \in 0..n PROVE (f[i] + k * g[i]) + m * h[i] \in Int
    OBVIOUS
  <2>1. f[i] \in Int /\ g[i] \in Int /\ h[i] \in Int
    OBVIOUS
  <2> QED BY ONLY <2>1, k \in Int, m \in Int, SMTT(30)
<1>5. s[0] = 0
  <2>1. f[0] = 0 /\ g[0] = 0 /\ h[0] = 0 /\ s[0] = (f[0] + k * g[0]) + m * h[0]
    BY <1>1, <1>2, <1>3 DEF Accumulates
  <2> QED BY <2>1
<1>6. ASSUME NEW i \in 1..n PROVE s[i] = s[i - 1] + x[i]
  <2>1. i \in 0..n /\ i - 1 \in 0..n
    OBVIOUS
  <2>2. /\ f[i] = f[i - 1] + a[i] /\ g[i] = g[i - 1] + b[i] /\ h[i] = h[i - 1] + c[i]
    BY <1>1, <1>2, <1>3 DEF Accumulates
  <2>3. /\ s[i] = (f[i] + k * g[i]) + m * h[i]
        /\ s[i - 1] = (f[i - 1] + k * g[i - 1]) + m * h[i - 1]
    BY <2>1
  <2> DEFINE f1 == f[i - 1]
             g1 == g[i - 1]
             h1 == h[i - 1]
             a1 == a[i]
             b1 == b[i]
             c1 == c[i]
  <2>4. /\ f1 \in Int /\ g1 \in Int /\ h1 \in Int /\ a1 \in Int /\ b1 \in Int /\ c1 \in Int
        /\ x[i] = (a1 + k * b1) + m * c1
    BY <2>1
  <2>5. /\ s[i] = ((f1 + a1) + k * (g1 + b1)) + m * (h1 + c1)
        /\ s[i - 1] = (f1 + k * g1) + m * h1
    BY <2>2, <2>3
  <2> HIDE DEF f1, g1, h1, a1, b1, c1, s
  <2>6. ((f1 + a1) + k * (g1 + b1)) + m * (h1 + c1)
          = ((f1 + k * g1) + m * h1) + ((a1 + k * b1) + m * c1)
    BY ONLY <2>4, k \in Int, m \in Int
  <2> QED BY <2>4, <2>5, <2>6
<1>7. s[n] = (f[n] + k * g[n]) + m * h[n]
  OBVIOUS
<1> HIDE DEF s
<1>8. Accumulates(s, x, n)
  BY <1>5, <1>6 DEF Accumulates
<1>9. Total(x) = s[n]
  BY <1>4, <1>8, TotalIs
<1> QED BY <1>1, <1>2, <1>3, <1>7, <1>9

-----------------------------------------------------------------------------
(* Adding an interval and taking one away.  The old mean M and variance V  *)
(* are those of sums A and B over a span; h is the average of the interval *)
(* and t its length.                                                       *)

(* A mean and a variance, without divisions. *)
HasMean(M, span, A) == M * span = A
HasVariance(V, M, span, B) == V * span = B - span * (M * M)

(* A division that leaves nothing over. *)
LEMMA Exactly ==
  ASSUME NEW d \in Nat \ {0}, NEW k \in Int
  PROVE  (d * k) \div d = k
  OBVIOUS

(* The mean with an interval more, *)
LEMMA MeanAdded ==
  ASSUME NEW M \in Int, NEW A \in Int, NEW h \in Int, NEW s \in Nat, NEW t \in Nat \ {0},
         HasMean(M, s, A), Divides(t + s, A + t * h),
         NEW N, N = M + ((h - M) * t) \div (t + s)
  PROVE  N \in Int /\ HasMean(N, t + s, A + t * h)
<1> DEFINE w == t + s
<1>1. w \in Nat \ {0} /\ w = t + s
  OBVIOUS
<1>2. PICK e \in Int : A + t * h = w * e
  BY DEF Divides
<1> HIDE DEF w
<1>3. (h - M) * t = w * (e - M)
  <2>1. M * s = A
    BY DEF HasMean
  <2>2. (h - M) * t = t * h - M * t
    BY ONLY h \in Int, M \in Int, t \in Nat
  <2>3. w * (e - M) = w * e - M * w
    BY ONLY <1>1, e \in Int, M \in Int
  <2>4. M * w = M * t + M * s
    BY ONLY <1>1, M \in Int, t \in Nat, s \in Nat
  <2>5. /\ t * h \in Int /\ M * t \in Int /\ M * s \in Int /\ w * e \in Int /\ M * w \in Int
    BY ONLY <1>1, h \in Int, M \in Int, t \in Nat, s \in Nat, e \in Int
  <2>6. w * (e - M) = (A + t * h) - (M * t + A)
    BY ONLY <1>2, <2>1, <2>3, <2>4
  <2> QED BY ONLY <2>2, <2>5, <2>6, A \in Int
<1>4. e - M \in Int
  OBVIOUS
<1>5. ((h - M) * t) \div w = e - M
  BY ONLY <1>1, <1>3, <1>4, Exactly
<1>6. N = e
  <2>1. N = M + (e - M)
    BY <1>1, <1>5
  <2> QED BY <2>1
<1>7. e * w = w * e
  BY ONLY <1>1, e \in Int
<1> QED BY <1>1, <1>2, <1>6, <1>7 DEF HasMean

(* and the variance.  The old one is about the old mean, so the distance   *)
(* of the means comes in.                                                  *)
LEMMA VarianceAdded ==
  ASSUME NEW M \in Int, NEW V \in Int, NEW A \in Int, NEW B \in Int, NEW h \in Int,
         NEW s \in Nat, NEW t \in Nat \ {0}, HasMean(M, s, A), HasVariance(V, M, s, B),
         NEW N \in Int, HasMean(N, t + s, A + t * h), Divides(s + t, B + t * (h * h)),
         NEW W, W = (s * (V + Sqr(M - N)) + t * Sqr(h - N)) \div (s + t)
  PROVE  W \in Int /\ HasVariance(W, N, s + t, B + t * (h * h))
<1> DEFINE w == s + t
<1>1. w \in Nat \ {0} /\ w = s + t
  OBVIOUS
<1>2. PICK e \in Int : B + t * (h * h) = w * e
  BY DEF Divides
<1> HIDE DEF w
<1> DEFINE n == s * (V + Sqr(M - N)) + t * Sqr(h - N)
<1>3. n = w * (e - N * N)
  <2>1. M * s = A /\ V * s = B - s * (M * M) /\ N * w = A + t * h
    <3>1. t + s = w
      BY <1>1
    <3> QED BY <3>1 DEF HasMean, HasVariance
  <2>2. s * (V + (M - N) * (M - N)) = ((V * s + s * (M * M)) - 2 * ((M * s) * N)) + s * (N * N)
    BY ONLY M \in Int, N \in Int, V \in Int, s \in Nat
  <2>3. t * ((h - N) * (h - N)) = (t * (h * h) - 2 * ((t * h) * N)) + t * (N * N)
    BY ONLY h \in Int, N \in Int, t \in Nat
  <2>4. (A + t * h) * N = A * N + (t * h) * N /\ (N * w) * N = w * (N * N)
    BY ONLY <1>1, A \in Int, h \in Int, N \in Int, t \in Nat
  <2>5. w * (N * N) = s * (N * N) + t * (N * N)
    BY ONLY <1>1, N \in Int, s \in Nat, t \in Nat
  <2>6. w * (e - N * N) = w * e - w * (N * N)
    BY ONLY <1>1, e \in Int, N \in Int
  <2>7. /\ s * (M * M) \in Int /\ A * N \in Int /\ s * (N * N) \in Int /\ t * (h * h) \in Int
        /\ (t * h) * N \in Int /\ t * (N * N) \in Int /\ w * (N * N) \in Int /\ w * e \in Int
    BY ONLY <1>1, M \in Int, N \in Int, A \in Int, h \in Int, e \in Int, s \in Nat, t \in Nat
  <2>8. n = (((V * s + s * (M * M)) - 2 * (A * N)) + s * (N * N))
              + ((t * (h * h) - 2 * ((t * h) * N)) + t * (N * N))
    BY <2>1, <2>2, <2>3 DEF Sqr
  <2>9. V * s + s * (M * M) = B
    BY ONLY <2>1, <2>7, B \in Int
  <2> HIDE DEF n
  <2>10. w * (N * N) = A * N + (t * h) * N
    BY ONLY <2>1, <2>4
  <2> QED BY ONLY <1>2, <2>5, <2>6, <2>7, <2>8, <2>9, <2>10, B \in Int
<1> HIDE DEF n
<1>4. e - N * N \in Int
  BY ONLY e \in Int, N \in Int
<1>5. n \div w = e - N * N
  BY ONLY <1>1, <1>3, <1>4, Exactly
<1>6. W = e - N * N
  BY <1>1, <1>5 DEF n
<1>7. (e - N * N) * w = w * e - w * (N * N)
  BY ONLY <1>1, e \in Int, N \in Int
<1> QED BY <1>1, <1>2, <1>4, <1>6, <1>7 DEF HasVariance

(* The mean with an interval less, *)
LEMMA MeanRemoved ==
  ASSUME NEW M \in Int, NEW A \in Int, NEW h \in Int, NEW s \in Nat \ {0}, NEW t \in Nat,
         HasMean(M, s + t, A), Divides(s, A - t * h),
         NEW N, N = M - ((h - M) * t) \div s
  PROVE  N \in Int /\ HasMean(N, s, A - t * h)
<1>1. PICK e \in Int : A - t * h = s * e
  BY DEF Divides
<1>2. (h - M) * t = s * (M - e)
  <2>1. M * (s + t) = A
    BY DEF HasMean
  <2>2. (h - M) * t = t * h - M * t
    BY ONLY h \in Int, M \in Int, t \in Nat
  <2>3. s * (M - e) = M * s - s * e
    BY ONLY e \in Int, M \in Int, s \in Nat
  <2>4. M * (s + t) = M * t + M * s
    BY ONLY M \in Int, t \in Nat, s \in Nat
  <2>5. /\ t * h \in Int /\ M * t \in Int /\ M * s \in Int /\ s * e \in Int
    BY ONLY h \in Int, M \in Int, t \in Nat, s \in Nat, e \in Int
  <2> QED BY ONLY <1>1, <2>1, <2>2, <2>3, <2>4, <2>5, A \in Int
<1>3. M - e \in Int
  OBVIOUS
<1>4. ((h - M) * t) \div s = M - e
  BY ONLY <1>2, <1>3, s \in Nat \ {0}, Exactly
<1>5. N = e
  <2>1. N = M - (M - e)
    BY <1>4
  <2> QED BY <2>1
<1>6. e * s = s * e
  BY ONLY s \in Nat, e \in Int
<1> QED BY <1>1, <1>5, <1>6 DEF HasMean

(* and the variance. *)
LEMMA VarianceRemoved ==
  ASSUME NEW M \in Int, NEW V \in Int, NEW A \in Int, NEW B \in Int, NEW h \in Int,
         NEW s \in Nat \ {0}, NEW t \in Nat, HasMean(M, s + t, A), HasVariance(V, M, s + t, B),
         NEW N \in Int, HasMean(N, s, A - t * h), Divides(s, B - t * (h * h)),
         NEW W, W = ((s + t) * V - t * Sqr(h - M)) \div s - Sqr(M - N)
  PROVE  W \in Int /\ HasVariance(W, N, s, B - t * (h * h))
<1>1. PICK e \in Int : B - t * (h * h) = s * e
  BY DEF Divides
<1> DEFINE n == (s + t) * V - t * Sqr(h - M)
           k == (e + M * M) - 2 * (M * N)
<1>2. k \in Int
  BY ONLY e \in Int, M \in Int, N \in Int
<1>3. n = s * k
  <2>1. M * (s + t) = A /\ V * (s + t) = B - (s + t) * (M * M) /\ N * s = A - t * h
    BY DEF HasMean, HasVariance
  <2>2. n = (V * (s + t) - t * (h * h)) + (2 * ((t * h) * M) - t * (M * M))
    <3>1. t * ((h - M) * (h - M)) = (t * (h * h) - 2 * ((t * h) * M)) + t * (M * M)
      BY ONLY h \in Int, M \in Int, t \in Nat
    <3>2. (s + t) * V = V * (s + t)
      BY ONLY V \in Int, s \in Nat, t \in Nat
    <3>3. /\ t * (h * h) \in Int /\ (t * h) * M \in Int /\ t * (M * M) \in Int
          /\ V * (s + t) \in Int
      BY ONLY h \in Int, M \in Int, V \in Int, s \in Nat, t \in Nat
    <3> DEFINE x == t * (h * h)
               y == (t * h) * M
               z == t * (M * M)
               v == V * (s + t)
    <3>4. n = v - ((x - 2 * y) + z)
      BY <3>1, <3>2 DEF Sqr
    <3>5. x \in Int /\ y \in Int /\ z \in Int /\ v \in Int
      BY <3>3
    <3> HIDE DEF n, x, y, z, v
    <3>6. n = (v - x) + (2 * y - z)
      BY ONLY <3>4, <3>5
    <3> QED BY <3>6 DEF x, y, z, v
  <2>3. (t * h) * M = (M * (s + t)) * M - (N * s) * M
    <3>1. t * h = M * (s + t) - N * s
      <4>1. t * h \in Int
        BY ONLY t \in Nat, h \in Int
      <4> QED BY ONLY <2>1, <4>1, A \in Int
    <3>2. (M * (s + t) - N * s) * M = (M * (s + t)) * M - (N * s) * M
      BY ONLY M \in Int, N \in Int, s \in Nat, t \in Nat
    <3> QED BY <3>1, <3>2
  <2>4. /\ (M * (s + t)) * M = s * (M * M) + t * (M * M) /\ (N * s) * M = s * (M * N)
        /\ (s + t) * (M * M) = s * (M * M) + t * (M * M)
    BY ONLY M \in Int, N \in Int, s \in Nat, t \in Nat
  <2>5. s * k = (s * e + s * (M * M)) - 2 * (s * (M * N))
    BY ONLY e \in Int, M \in Int, N \in Int, s \in Nat
  <2>6. /\ s * (M * M) \in Int /\ t * (M * M) \in Int /\ s * (M * N) \in Int /\ s * e \in Int
        /\ t * (h * h) \in Int /\ (t * h) * M \in Int
    BY ONLY M \in Int, N \in Int, h \in Int, e \in Int, s \in Nat, t \in Nat
  <2> HIDE DEF n, k
  <2>7. V * (s + t) = B - (s * (M * M) + t * (M * M))
    BY ONLY <2>1, <2>4
  <2>8. (t * h) * M = (s * (M * M) + t * (M * M)) - s * (M * N)
    BY ONLY <2>3, <2>4
  <2> QED BY ONLY <1>1, <2>2, <2>5, <2>6, <2>7, <2>8, B \in Int
<1> HIDE DEF n, k
<1>4. n \div s = k
  BY ONLY <1>2, <1>3, s \in Nat \ {0}, Exactly
<1>5. W = k - Sqr(M - N)
  BY <1>4 DEF n
<1>6. k - (M - N) * (M - N) = e - N * N
  BY ONLY e \in Int, M \in Int, N \in Int DEF k
<1>7. W = e - N * N
  BY <1>5, <1>6 DEF Sqr
<1>8. e - N * N \in Int /\ (e - N * N) * s = s * e - s * (N * N)
  BY ONLY e \in Int, N \in Int, s \in Nat
<1> QED BY <1>1, <1>7, <1>8 DEF HasVariance

-----------------------------------------------------------------------------
(* Windows.                                                                *)

Measured == [value : Readings, stamp : Nat]

Window(list) ==
  /\ list \in Seq(Measured) /\ list # <<>>
  /\ \A i, j \in 1..Len(list) : i < j => list[i].stamp < list[j].stamp
  /\ \A i \in 1..Len(list) : 1 <= list[i].stamp /\ list[i].stamp <= MaxTime

Lengths(list) == [i \in Intervals(list) |-> Duration(list, i)]
Means(list) == [i \in Intervals(list) |-> Duration(list, i) * Average(list, i)]
Squares(list) == [i \in Intervals(list) |-> Duration(list, i) * Sqr(Average(list, i))]

(* What there is to know of the samples of a window. *)
LEMMA WindowTyped ==
  ASSUME NEW list, Window(list)
  PROVE  /\ Len(list) \in Nat \ {0} /\ DOMAIN list = 1..Len(list)
         /\ \A i \in 1..Len(list) :
              /\ list[i] \in Measured /\ list[i].value \in Readings
              /\ list[i].value \in Nat /\ list[i].stamp \in 1..MaxTime
         /\ Head(list) = list[1] /\ Last(list) = list[Len(list)]
         /\ Intervals(list) = 1..(Len(list) - 1)
<1>1. Len(list) \in Nat \ {0} /\ DOMAIN list = 1..Len(list)
      /\ \A i \in 1..Len(list) : list[i] \in Measured
  BY DEF Window
<1>2. \A m \in Measured : m.value \in Readings /\ m.value \in Nat /\ m.stamp \in Nat
  BY SamplesAssumption DEF Measured
<1>3. MaxTime \in Nat
  BY SamplesAssumption
<1>4. ASSUME NEW i \in 1..Len(list) PROVE list[i].stamp \in 1..MaxTime
  <2>1. list[i].stamp \in Nat /\ 1 <= list[i].stamp /\ list[i].stamp <= MaxTime
    BY <1>1, <1>2 DEF Window
  <2> QED BY <1>3, <2>1
<1>5. Head(list) = list[1] /\ Last(list) = list[Len(list)]
  BY DEF Last, Window
<1> QED BY <1>1, <1>2, <1>4, <1>5 DEF Intervals

(* The intervals of a window. *)
LEMMA IntervalIs ==
  ASSUME NEW list, Window(list), NEW i \in Intervals(list)
  PROVE  /\ i \in 1..Len(list) /\ i + 1 \in 1..Len(list)
         /\ Duration(list, i) \in 1..(MaxTime - 1)
         /\ Near(Average(list, i)) /\ Average(list, i) \in Nat
         /\ \A d \in 1..(MaxTime - 1) : Divides(d, Average(list, i))
<1>1. i \in 1..Len(list) /\ i + 1 \in 1..Len(list) /\ i < i + 1
  BY WindowTyped
<1>2. /\ list[i].stamp \in 1..MaxTime /\ list[i + 1].stamp \in 1..MaxTime
      /\ list[i].value \in Readings /\ list[i + 1].value \in Readings
  BY <1>1, WindowTyped
<1>3. list[i].stamp < list[i + 1].stamp
  BY <1>1 DEF Window
<1>4. MaxTime \in Nat
  BY SamplesAssumption
<1>5. Duration(list, i) \in 1..(MaxTime - 1)
  <2> DEFINE x == list[i].stamp
             y == list[i + 1].stamp
  <2>1. x \in 1..MaxTime /\ y \in 1..MaxTime /\ x < y
    BY <1>2, <1>3
  <2> HIDE DEF x, y
  <2>2. y - x \in 1..(MaxTime - 1)
    BY ONLY <1>4, <2>1
  <2> QED BY <2>2 DEF Duration, x, y
<1>6. \A d \in 1..(MaxTime - 1) : Near(Average(list, i)) /\ Divides(d, Average(list, i))
  BY <1>2, AverageIs DEF Average
<1>7. Near(Average(list, i))
  BY <1>5, <1>6
<1> QED BY <1>1, <1>5, <1>6, <1>7 DEF Near

(* The sequences that are summed. *)
LEMMA SummedTyped ==
  ASSUME NEW list, Window(list)
  PROVE  /\ Len(list) - 1 \in Nat
         /\ Len(Lengths(list)) = Len(list) - 1
         /\ Len(Means(list)) = Len(list) - 1
         /\ Len(Squares(list)) = Len(list) - 1
         /\ \A i \in 1..(Len(list) - 1) :
              /\ i \in Intervals(list)
              /\ Lengths(list)[i] = Duration(list, i)
              /\ Means(list)[i] = Duration(list, i) * Average(list, i)
              /\ Squares(list)[i] = Duration(list, i) * Sqr(Average(list, i))
              /\ Lengths(list)[i] \in Nat /\ Means(list)[i] \in Nat /\ Squares(list)[i] \in Nat
<1> DEFINE n == Len(list) - 1
<1>1. n \in Nat /\ Intervals(list) = 1..n
  BY WindowTyped
<1> HIDE DEF n
<1>2. ASSUME NEW i \in 1..n
      PROVE  /\ Duration(list, i) \in Nat /\ Average(list, i) \in Nat
             /\ Duration(list, i) * Average(list, i) \in Nat
             /\ Duration(list, i) * Sqr(Average(list, i)) \in Nat
  <2> DEFINE x == Duration(list, i)
             y == Average(list, i)
  <2>1. x \in Nat /\ y \in Nat
    BY <1>1, IntervalIs
  <2> HIDE DEF x, y
  <2>2. x * y \in Nat /\ x * (y * y) \in Nat
    BY ONLY <2>1
  <2> QED BY <2>1, <2>2 DEF x, y, Sqr
<1>3. /\ Lengths(list) \in [1..n -> Nat] /\ Means(list) \in [1..n -> Nat]
      /\ Squares(list) \in [1..n -> Nat]
  BY <1>1, <1>2 DEF Lengths, Means, Squares
<1>4. Len(Lengths(list)) = n /\ Len(Means(list)) = n /\ Len(Squares(list)) = n
  BY <1>1, <1>3, FunctionLength
<1>5. \A i \in 1..n :
              /\ i \in Intervals(list)
              /\ Lengths(list)[i] = Duration(list, i)
              /\ Means(list)[i] = Duration(list, i) * Average(list, i)
              /\ Squares(list)[i] = Duration(list, i) * Sqr(Average(list, i))
  BY <1>1 DEF Lengths, Means, Squares
<1>6. \A i \in 1..n : Lengths(list)[i] \in Nat /\ Means(list)[i] \in Nat /\ Squares(list)[i] \in Nat
  BY <1>3
<1> QED BY <1>1, <1>4, <1>5, <1>6 DEF n

(* The intervals make up the span. *)
LEMMA LengthsTotal ==
  ASSUME NEW list, Window(list)
  PROVE  /\ Span(list) \in Nat /\ Span(list) = Total(Lengths(list))
         /\ Len(list) = 1 => Span(list) = 0
         /\ Len(list) # 1 => Span(list) \in 1..(MaxTime - 1)
<1> DEFINE n == Len(list) - 1
           g == [i \in 0..n |-> list[i + 1].stamp - list[1].stamp]
<1>1. n \in Nat /\ Len(list) = n + 1 /\ Len(Lengths(list)) = n
  BY SummedTyped, WindowTyped
<1>2. \A i \in 1..(n + 1) : list[i].stamp \in 1..MaxTime
  BY <1>1, WindowTyped
<1>3. 1 \in 1..(n + 1) /\ n + 1 \in 1..(n + 1) /\ MaxTime \in Nat
  BY <1>1, SamplesAssumption
<1>4. Span(list) = list[n + 1].stamp - list[1].stamp
  BY <1>1, WindowTyped DEF Span
<1>5. g \in [0..n -> Int]
  <2>1. ASSUME NEW i \in 0..n PROVE list[i + 1].stamp - list[1].stamp \in Int
    <3>1. i + 1 \in 1..(n + 1)
      BY <1>1
    <3>2. list[i + 1].stamp \in Int /\ list[1].stamp \in Int
      BY <1>2, <1>3, <3>1
    <3> QED BY <3>2
  <2> QED BY <2>1
<1>6. g[0] = 0
  <2>1. 0 \in 0..n /\ 0 + 1 = 1 /\ list[1].stamp \in Int
    BY <1>1, <1>2, <1>3
  <2> QED BY <2>1
<1>7. ASSUME NEW i \in 1..n PROVE g[i] = g[i - 1] + Lengths(list)[i]
  <2>1. i \in 0..n /\ i - 1 \in 0..n /\ (i - 1) + 1 = i /\ i \in 1..(n + 1) /\ i + 1 \in 1..(n + 1)
    BY <1>1
  <2>2. Lengths(list)[i] = list[i + 1].stamp - list[i].stamp
    BY <1>1, SummedTyped DEF Duration
  <2>3. g[i] = list[i + 1].stamp - list[1].stamp /\ g[i - 1] = list[i].stamp - list[1].stamp
    BY <2>1
  <2>4. list[i].stamp \in Int /\ list[i + 1].stamp \in Int /\ list[1].stamp \in Int
    BY <1>2, <1>3, <2>1
  <2> HIDE DEF g
  <2> QED BY <2>2, <2>3, <2>4
<1>8. g[n] = list[n + 1].stamp - list[1].stamp
  BY <1>1
<1> HIDE DEF g
<1>9. Accumulates(g, Lengths(list), n)
  BY <1>6, <1>7 DEF Accumulates
<1>10. Total(Lengths(list)) = g[n]
  BY <1>1, <1>5, <1>9, TotalIs
<1> HIDE DEF n
<1>11. CASE n = 0
  <2>1. n + 1 = 1 /\ Len(list) = 1
    BY <1>1, <1>11
  <2>2. list[1].stamp \in Int
    BY <1>2, <1>3
  <2>3. Span(list) = list[1].stamp - list[1].stamp
    BY <1>4, <2>1
  <2>4. Span(list) = 0
    BY <2>2, <2>3
  <2> QED BY <1>4, <1>8, <1>10, <2>1, <2>4
<1>12. CASE n # 0
  <2>1. list[1].stamp < list[n + 1].stamp
    <3>1. 1 < n + 1 /\ 1 \in 1..Len(list) /\ n + 1 \in 1..Len(list)
      BY <1>1, <1>3, <1>12
    <3> QED BY <3>1 DEF Window
  <2> DEFINE x == list[1].stamp
             y == list[n + 1].stamp
  <2>2. x \in 1..MaxTime /\ y \in 1..MaxTime /\ x < y
    BY <1>2, <1>3, <2>1
  <2> HIDE DEF x, y
  <2>3. y - x \in 1..(MaxTime - 1) /\ y - x \in Nat
    BY ONLY <1>3, <2>2
  <2>4. Span(list) = y - x
    BY <1>4 DEF x, y
  <2> QED BY <1>1, <1>4, <1>8, <1>10, <1>12, <2>3, <2>4
<1> QED BY <1>11, <1>12

(* The sums are divided by every span. *)
LEMMA SumsDivided ==
  ASSUME NEW list, Window(list), NEW d \in 1..(MaxTime - 1)
  PROVE  Divides(d, Total(Means(list))) /\ Divides(d, Total(Squares(list)))
<1>1. d \in Int
  BY SamplesAssumption
<1>2. ASSUME NEW i \in 1..(Len(list) - 1)
      PROVE  Divides(d, Means(list)[i]) /\ Divides(d, Squares(list)[i])
  <2> DEFINE x == Duration(list, i)
             y == Average(list, i)
  <2>1. x \in Int /\ y \in Int /\ Divides(d, y)
    <3>1. i \in Intervals(list) /\ x = Lengths(list)[i] /\ Lengths(list)[i] \in Nat
      BY SummedTyped
    <3> QED BY <3>1, IntervalIs
  <2>2. Means(list)[i] = x * y /\ Squares(list)[i] = x * (y * y)
    BY SummedTyped DEF Sqr
  <2> HIDE DEF x, y
  <2>3. PICK e \in Int : y = d * e
    BY <2>1 DEF Divides
  <2> DEFINE p == x * e
             q == x * (e * y)
  <2>4. p \in Int /\ q \in Int
    BY ONLY <2>1, e \in Int
  <2>5. x * (d * e) = d * (x * e) /\ x * ((d * e) * y) = d * (x * (e * y))
    BY ONLY <1>1, <2>1, e \in Int
  <2>6. Means(list)[i] = d * p /\ Squares(list)[i] = d * q
    BY <2>2, <2>3, <2>5
  <2> HIDE DEF p, q
  <2> QED BY <2>4, <2>6 DEF Divides
<1>3. \A i \in 1..Len(Means(list)) : Means(list)[i] \in Int /\ Divides(d, Means(list)[i])
  BY <1>2, SummedTyped
<1>4. \A i \in 1..Len(Squares(list)) : Squares(list)[i] \in Int /\ Divides(d, Squares(list)[i])
  BY <1>2, SummedTyped
<1>5. Len(Means(list)) \in Nat /\ Len(Squares(list)) \in Nat
  BY SummedTyped
<1> QED BY <1>1, <1>3, <1>4, <1>5, TotalDivided

(* What is multiplied by a positive number keeps its sign. *)
LEMMA SignKept ==
  ASSUME NEW x \in Int, NEW s \in Nat \ {0}, 0 <= x * s
  PROVE  0 <= x
<1>1. CASE x <= -1
  <2>1. (x + 1) * s <= 0
    BY ONLY <1>1, x \in Int, s \in Nat \ {0}
  <2>2. (x + 1) * s = x * s + s /\ x * s \in Int
    BY ONLY x \in Int, s \in Nat \ {0}
  <2> QED BY <2>1, <2>2
<1> QED BY <1>1

(* The mean lies among the averages. *)
LEMMA MeanNear ==
  ASSUME NEW list, Window(list), Len(list) # 1, NEW M \in Int,
         HasMean(M, Span(list), Total(Means(list)))
  PROVE  Near(M)
<1> DEFINE n == Len(list) - 1
           a == Total(Means(list))
           s == Span(list)
<1>1. n \in Nat /\ s \in Nat \ {0} /\ s = Total(Lengths(list))
  BY SummedTyped, LengthsTotal, SamplesAssumption
<1>2. a \in Nat
  BY SummedTyped, TotalNonNegative
<1>3. M * s = a
  BY DEF HasMean
<1>4. 0 <= M
  <2> HIDE DEF s, a
  <2> QED BY <1>1, <1>2, <1>3, SignKept
<1>5. ASSUME Circle # 0 PROVE 2 * M < Circle
  <2> DEFINE c == Circle - 2
             x == [i \in 1..n |-> Duration(list, i) * ((Circle - 1) - 2 * Average(list, i))]
  <2>1. Circle \in Nat /\ c \in Int
    BY StatisticsAssumption
  <2>2. ASSUME NEW i \in 1..n
        PROVE  /\ x[i] \in Nat
               /\ x[i] = (Lengths(list)[i] + c * Lengths(list)[i]) + (-2) * Means(list)[i]
               /\ Lengths(list)[i] \in Int /\ Means(list)[i] \in Int
    <3> DEFINE p == Duration(list, i)
               q == Average(list, i)
    <3>1. /\ Lengths(list)[i] = p /\ Means(list)[i] = p * q
          /\ Lengths(list)[i] \in Int /\ Means(list)[i] \in Int /\ i \in Intervals(list)
          /\ Lengths(list)[i] \in Nat
      BY SummedTyped
    <3>2. p \in Nat /\ q \in Nat /\ 2 * q < Circle
      BY <1>5, <3>1, IntervalIs DEF Near
    <3>3. x[i] = p * ((Circle - 1) - 2 * q)
      OBVIOUS
    <3> HIDE DEF p, q
    <3>4. (Circle - 1) - 2 * q \in Nat
      BY ONLY <2>1, <3>2
    <3>5. p * ((Circle - 1) - 2 * q) \in Nat
      BY ONLY <3>2, <3>4
    <3>6. p * ((Circle - 1) - 2 * q) = (p + (Circle - 2) * p) + (-2) * (p * q)
      BY ONLY <2>1, <3>2
    <3> HIDE DEF x
    <3> QED BY <3>1, <3>3, <3>5, <3>6
  <2>3. x \in [1..n -> Nat]
    BY <2>2
  <2> HIDE DEF x, c
  <2>4. Len(x) = n /\ Len(Lengths(list)) = n /\ Len(Means(list)) = n
    BY <1>1, <2>3, SummedTyped, FunctionLength
  <2> HIDE DEF n
  <2>5. -2 \in Int
    OBVIOUS
  <2>6. Total(x) = (Total(Lengths(list)) + c * Total(Lengths(list))) + (-2) * Total(Means(list))
    <3> DEFINE l == Lengths(list)
               z == Means(list)
               m == -2
    <3>1. \A i \in 1..n : /\ l[i] \in Int /\ l[i] \in Int /\ z[i] \in Int
                          /\ x[i] = (l[i] + c * l[i]) + m * z[i]
      BY <2>2
    <3>2. n \in Nat /\ c \in Int /\ m \in Int
      BY <1>1, <2>1
    <3>3. Len(x) = n /\ Len(l) = n /\ Len(z) = n
      BY <2>4
    <3> HIDE DEF l, z, m
    <3>4. Total(x) = (Total(l) + c * Total(l)) + m * Total(z)
      <4>1. Combines(n, x, l, c, l, m, z)
        BY ONLY <3>1, <3>3 DEF Combines
      <4> QED BY ONLY <4>1, <3>2, TotalCombined
    <3> QED BY <3>4 DEF l, z, m
  <2>7. Total(x) \in Nat
    BY <1>1, <2>2, <2>4, TotalNonNegative
  <2>8. Total(x) = (s + c * s) + (-2) * a
    BY <1>1, <2>6
  <2> HIDE DEF s, a
  <2>9. (s + c * s) + (-2) * (M * s) = ((Circle - 1) - 2 * M) * s
    BY ONLY <1>1, <2>1, M \in Int DEF c
  <2>10. 0 <= ((Circle - 1) - 2 * M) * s
    BY <1>3, <2>7, <2>8, <2>9
  <2> DEFINE k == (Circle - 1) - 2 * M
  <2>11. k \in Int
    BY <2>1
  <2>12. 0 <= k
    <3> HIDE DEF k
    <3>1. 0 <= k * s
      BY <2>10 DEF k
    <3> QED BY <1>1, <2>11, <3>1, SignKept
  <2> QED BY <2>1, <2>12
<1> QED BY <1>4, <1>5 DEF Near

-----------------------------------------------------------------------------
(* A statistic that tells.                                                 *)

Figures == [list : Seq(Measured), time : Int, n : Int, mean : Int, variance : Int]

StatisticIs(s) ==
  /\ s \in Figures
  /\ Window(s.list)
  /\ Near(s.mean)
  /\ HasMean(s.mean, Span(s.list), Total(Means(s.list)))
  /\ HasVariance(s.variance, s.mean, Span(s.list), Total(Squares(s.list)))
  /\ Len(s.list) = 1 => s.mean = s.list[1].value /\ s.variance = 0

(* The end of a window that has grown by a sample. *)
Grown(list, v) == Append(list, v)
Since(list, v) == v.stamp - Last(list).stamp
Between(list, v) == (v.value + Last(list).value) \div 2

(* What a later sample adds to a window. *)
LEMMA WindowGrows ==
  ASSUME NEW list, Window(list), NEW v \in Measured, Last(list).stamp < v.stamp,
         v.stamp <= MaxTime
  PROVE  /\ Window(Grown(list, v))
         /\ Len(Grown(list, v)) = Len(list) + 1 /\ Len(Grown(list, v)) # 1
         /\ Since(list, v) \in Nat \ {0} /\ Since(list, v) \in 1..(MaxTime - 1)
         /\ Span(Grown(list, v)) = Since(list, v) + Span(list)
         /\ Total(Means(Grown(list, v)))
              = Total(Means(list)) + Since(list, v) * Between(list, v)
         /\ Total(Squares(Grown(list, v)))
              = Total(Squares(list)) + Since(list, v) * (Between(list, v) * Between(list, v))
<1> DEFINE n == Len(list)
           l == Grown(list, v)
<1>1. /\ n \in Nat \ {0} /\ Last(list) = list[n] /\ Head(list) = list[1]
      /\ \A i \in 1..n : list[i] \in Measured /\ list[i].stamp \in 1..MaxTime
      /\ n - 1 \in Nat
  BY WindowTyped
<1>2. /\ Len(l) = n + 1 /\ l \in Seq(Measured) /\ l # <<>> /\ l[n + 1] = v
      /\ \A i \in 1..n : l[i] = list[i]
  <2>1. list \in Seq(Measured)
    BY DEF Window
  <2> QED BY <2>1 DEF Grown
<1>3. v.stamp \in Nat /\ MaxTime \in Nat /\ list[n].stamp < v.stamp /\ v.stamp <= MaxTime
  BY <1>1, SamplesAssumption DEF Measured
<1> HIDE DEF n, l
<1>4. Window(l)
  <2>1. ASSUME NEW i \in 1..(n + 1) PROVE 1 <= l[i].stamp /\ l[i].stamp <= MaxTime
    <3>1. CASE i \in 1..n
      BY <1>1, <1>2, <1>3, <3>1
    <3>2. CASE i = n + 1
      <4>1. n \in 1..n
        BY <1>1
      <4>2. list[n].stamp \in 1..MaxTime
        BY <1>1, <4>1
      <4> QED BY <1>2, <1>3, <3>2, <4>2
    <3> QED BY <1>1, <3>1, <3>2
  <2>2. ASSUME NEW i \in 1..(n + 1), NEW j \in 1..(n + 1), i < j PROVE l[i].stamp < l[j].stamp
    <3>1. i \in 1..n
      BY <1>1, <2>2
    <3>2. CASE j \in 1..n
      BY <1>2, <2>2, <3>1, <3>2 DEF Window, n
    <3>3. CASE j = n + 1
      <4>1. list[i].stamp <= list[n].stamp
        <5>1. CASE i = n
          BY <1>1, <3>1, <5>1
        <5>2. CASE i < n
          <6>1. n \in 1..n
            BY <1>1
          <6>2. list[i].stamp < list[n].stamp
            BY <3>1, <5>2, <6>1 DEF Window, n
          <6>3. list[i].stamp \in Nat /\ list[n].stamp \in Nat
            BY <1>1, <1>3, <3>1, <6>1
          <6> QED BY <6>2, <6>3
        <5> QED BY <1>1, <3>1, <5>1, <5>2
      <4>2. n \in 1..n
        BY <1>1
      <4>3. list[i].stamp \in Nat /\ list[n].stamp \in Nat
        BY <1>1, <1>3, <3>1, <4>2
      <4> QED BY <1>2, <1>3, <3>1, <3>3, <4>1, <4>3, SMTT(30)
    <3> QED BY <1>1, <3>2, <3>3
  <2> QED BY <1>2, <2>1, <2>2 DEF Window
<1>5. /\ Len(Means(list)) = n - 1 /\ Len(Squares(list)) = n - 1
      /\ Len(Means(l)) = n /\ Len(Squares(l)) = n
  <2>1. (n + 1) - 1 = n
    BY <1>1
  <2> QED BY <1>2, <1>4, <2>1, SummedTyped DEF n
<1>6. ASSUME NEW i \in 1..(n - 1)
      PROVE  Means(list)[i] = Means(l)[i] /\ Squares(list)[i] = Squares(l)[i]
  <2>1. i \in 1..n /\ i + 1 \in 1..n /\ (n + 1) - 1 = n /\ Len(list) = n
    BY <1>1 DEF n
  <2>2. Duration(list, i) = Duration(l, i) /\ Average(list, i) = Average(l, i)
    BY <1>2, <2>1 DEF Duration, Average
  <2>3. /\ Means(list)[i] = Duration(list, i) * Average(list, i)
        /\ Squares(list)[i] = Duration(list, i) * Sqr(Average(list, i))
    BY <2>1, SummedTyped
  <2>4. /\ Means(l)[i] = Duration(l, i) * Average(l, i)
        /\ Squares(l)[i] = Duration(l, i) * Sqr(Average(l, i))
    BY <1>2, <1>4, <2>1, SummedTyped
  <2> QED BY <2>2, <2>3, <2>4
<1>7. (\A i \in 1..n : Means(l)[i] \in Int) /\ (\A i \in 1..n : Squares(l)[i] \in Int)
  <2>1. (n + 1) - 1 = n
    BY <1>1
  <2> QED BY <1>2, <1>4, <2>1, SummedTyped, SMTT(30)
<1>8. /\ Total(Means(l)) = Total(Means(list)) + Means(l)[n]
      /\ Total(Squares(l)) = Total(Squares(list)) + Squares(l)[n]
  <2>1. n = (n - 1) + 1 /\ n - 1 \in Nat
    BY <1>1
  <2>2. Len(Means(list)) \in Nat /\ Len(Squares(list)) \in Nat
    BY <1>5, <2>1
  <2>3. Len(Means(l)) = Len(Means(list)) + 1 /\ Len(Squares(l)) = Len(Squares(list)) + 1
    BY <1>5, <2>1
  <2>4. \A i \in 1..Len(Means(l)) : Means(l)[i] \in Int
    BY <1>5, <1>7
  <2>5. \A i \in 1..Len(Squares(l)) : Squares(l)[i] \in Int
    BY <1>5, <1>7
  <2>6. \A i \in 1..Len(Means(list)) : Means(list)[i] = Means(l)[i]
    BY <1>5, <1>6
  <2>7. \A i \in 1..Len(Squares(list)) : Squares(list)[i] = Squares(l)[i]
    BY <1>5, <1>6
  <2>8. Total(Means(l)) = Total(Means(list)) + Means(l)[Len(Means(l))]
    BY ONLY <2>2, <2>3, <2>4, <2>6, TotalLonger
  <2>9. Total(Squares(l)) = Total(Squares(list)) + Squares(l)[Len(Squares(l))]
    BY ONLY <2>2, <2>3, <2>5, <2>7, TotalLonger
  <2> QED BY <1>5, <2>8, <2>9
<1>9. /\ Means(l)[n] = Since(list, v) * Between(list, v)
      /\ Squares(l)[n] = Since(list, v) * (Between(list, v) * Between(list, v))
  <2>1. n \in 1..n /\ (n + 1) - 1 = n
    BY <1>1
  <2>2. Duration(l, n) = Since(list, v)
    BY <1>1, <1>2, <2>1 DEF Duration, Since
  <2>3. Average(l, n) = Between(list, v)
    <3>1. v.value \in Int /\ list[n].value \in Int
      <4>1. Readings \subseteq Nat
        BY SamplesAssumption
      <4>2. list[n] \in Measured
        BY <1>1, <2>1
      <4>3. \A m \in Measured : m.value \in Readings
        BY ONLY DEF Measured
      <4>4. v.value \in Nat /\ list[n].value \in Nat
        BY <4>1, <4>2, <4>3
      <4> QED BY <4>4
    <3>2. v.value + list[n].value = list[n].value + v.value
      BY <3>1
    <3> QED BY <1>1, <1>2, <2>1, <3>2 DEF Average, Between
  <2> QED BY <1>2, <1>4, <2>1, <2>2, <2>3, SummedTyped DEF Sqr
<1>10. Since(list, v) \in 1..(MaxTime - 1) /\ Since(list, v) \in Nat \ {0}
  <2> DEFINE x == list[n].stamp
             y == v.stamp
  <2>1. x \in 1..MaxTime
    <3>1. n \in 1..n
      BY <1>1
    <3> QED BY <1>1, <3>1
  <2>2. y \in Nat /\ x < y /\ y <= MaxTime
    BY <1>3
  <2> HIDE DEF x, y
  <2>3. y - x \in 1..(MaxTime - 1) /\ y - x \in Nat \ {0}
    BY ONLY <1>3, <2>1, <2>2
  <2> QED BY <1>1, <2>3 DEF Since, x, y
<1>11. Span(l) = Since(list, v) + Span(list)
  <2>1. Head(l) = l[1] /\ Last(l) = v
    BY <1>2, <1>4, WindowTyped
  <2>2. 1 \in 1..n /\ n \in 1..n
    BY <1>1
  <2>3. l[1] = list[1]
    BY <1>2, <2>2
  <2>4. list[1].stamp \in Int /\ list[n].stamp \in Int
    BY <1>1, <1>3, <2>2
  <2>5. v.stamp - list[1].stamp = (v.stamp - list[n].stamp) + (list[n].stamp - list[1].stamp)
    BY <1>3, <2>4
  <2> QED BY <1>1, <2>1, <2>3, <2>5 DEF Span, Since
<1>12. n + 1 # 1
  BY <1>1
<1> QED BY <1>2, <1>4, <1>8, <1>9, <1>10, <1>11, <1>12 DEF n, l

(* What a window of several samples loses with its oldest one. *)
LEMMA WindowShrinks ==
  ASSUME NEW list, Window(list), Len(list) # 1
  PROVE  /\ Window(Tail(list)) /\ Len(list) - 1 \in Nat \ {0}
         /\ Len(Tail(list)) = Len(list) - 1 /\ Last(Tail(list)) = Last(list)
         /\ \A i \in 1..(Len(list) - 1) : Tail(list)[i] = list[i + 1]
         /\ 1 \in Intervals(list) /\ Head(Tail(list)) = list[2] /\ Head(list) = list[1]
         /\ Span(list) = Span(Tail(list)) + Duration(list, 1)
         /\ Total(Means(Tail(list))) = Total(Means(list)) - Duration(list, 1) * Average(list, 1)
         /\ Total(Squares(Tail(list)))
              = Total(Squares(list)) - Duration(list, 1) * (Average(list, 1) * Average(list, 1))
<1> DEFINE n == Len(list)
           l == Tail(list)
<1>1. /\ n \in Nat \ {0} /\ Last(list) = list[n] /\ Head(list) = list[1]
      /\ \A i \in 1..n : list[i] \in Measured /\ list[i].stamp \in 1..MaxTime
      /\ n - 1 \in Nat \ {0}
      /\ Intervals(list) = 1..(n - 1)
  BY WindowTyped
<1>2. /\ Len(l) = n - 1 /\ l \in Seq(Measured) /\ l # <<>>
      /\ \A i \in 1..(n - 1) : l[i] = list[i + 1]
  <2>1. list \in Seq(Measured) /\ list # <<>>
    BY DEF Window
  <2>2. Len(l) = n - 1 /\ l \in Seq(Measured)
    BY <2>1
  <2>3. l # <<>>
    BY <1>1, <2>2
  <2>4. ASSUME NEW i \in 1..(n - 1) PROVE l[i] = list[i + 1]
    BY <2>1
  <2> QED BY <2>2, <2>3, <2>4
<1> HIDE DEF n, l
<1>3. Window(l)
  <2>1. ASSUME NEW i \in 1..(n - 1) PROVE 1 <= l[i].stamp /\ l[i].stamp <= MaxTime
    <3>1. i + 1 \in 1..n
      BY <1>1
    <3>2. list[i + 1].stamp \in 1..MaxTime
      BY <1>1, <3>1
    <3> QED BY <1>2, <3>2, SamplesAssumption
  <2>2. ASSUME NEW i \in 1..(n - 1), NEW j \in 1..(n - 1), i < j PROVE l[i].stamp < l[j].stamp
    <3>1. i + 1 \in 1..n /\ j + 1 \in 1..n /\ i + 1 < j + 1
      BY <1>1, <2>2
    <3>2. list[i + 1].stamp < list[j + 1].stamp
      BY <3>1 DEF Window, n
    <3> QED BY <1>2, <3>2
  <2> QED BY <1>2, <2>1, <2>2 DEF Window
<1>4. n - 1 \in 1..(n - 1) /\ (n - 1) + 1 = n /\ 1 \in 1..(n - 1) /\ 1 + 1 = 2
      /\ n \in 1..n /\ 2 \in 1..n /\ 1 \in 1..n
  BY <1>1
<1>5. Last(l) = Last(list) /\ Head(l) = list[2]
  <2>1. Last(l) = l[n - 1] /\ Head(l) = l[1]
    BY <1>2, <1>3, WindowTyped
  <2>2. l[n - 1] = list[(n - 1) + 1] /\ l[1] = list[1 + 1]
    BY <1>2, <1>4
  <2> QED BY <1>1, <1>4, <2>1, <2>2
<1>6. Span(list) = Span(l) + Duration(list, 1)
  <2>1. list[n].stamp \in Nat /\ list[1].stamp \in Nat /\ list[2].stamp \in Nat
    <3>1. \A i \in 1..n : list[i].stamp \in 1..MaxTime
      BY <1>1
    <3>2. list[n].stamp \in 1..MaxTime /\ list[1].stamp \in 1..MaxTime /\ list[2].stamp \in 1..MaxTime
      BY <1>4, <3>1
    <3> QED BY <3>2, SamplesAssumption
  <2>2. list[n].stamp - list[1].stamp
          = (list[n].stamp - list[2].stamp) + (list[2].stamp - list[1].stamp)
    BY <2>1
  <2>3. Duration(list, 1) = list[2].stamp - list[1].stamp
    BY <1>4 DEF Duration
  <2> QED BY <1>1, <1>5, <2>2, <2>3 DEF Span
<1>7. (n - 1) - 1 \in Nat /\ n - 1 = ((n - 1) - 1) + 1
  BY <1>1
<1>8. /\ Len(Means(list)) = n - 1 /\ Len(Squares(list)) = n - 1
      /\ Len(Means(l)) = (n - 1) - 1 /\ Len(Squares(l)) = (n - 1) - 1
  BY <1>2, <1>3, SummedTyped DEF n
<1>9. ASSUME NEW i \in 1..((n - 1) - 1)
      PROVE  Means(l)[i] = Means(list)[i + 1] /\ Squares(l)[i] = Squares(list)[i + 1]
  <2>1. i \in 1..(n - 1) /\ i + 1 \in 1..(n - 1) /\ Len(list) = n
    BY <1>1 DEF n
  <2>2. Duration(list, i + 1) = Duration(l, i) /\ Average(list, i + 1) = Average(l, i)
    BY <1>2, <2>1 DEF Duration, Average
  <2>3. /\ Means(list)[i + 1] = Duration(list, i + 1) * Average(list, i + 1)
        /\ Squares(list)[i + 1] = Duration(list, i + 1) * Sqr(Average(list, i + 1))
    BY <2>1, SummedTyped
  <2>4. /\ Means(l)[i] = Duration(l, i) * Average(l, i)
        /\ Squares(l)[i] = Duration(l, i) * Sqr(Average(l, i))
    BY <1>2, <1>3, SummedTyped
  <2> QED BY <2>2, <2>3, <2>4
<1>10. \A i \in 1..(n - 1) : Means(list)[i] \in Int /\ Squares(list)[i] \in Int
  BY SummedTyped DEF n
<1>11. /\ Total(Means(l)) = Total(Means(list)) - Means(list)[1]
       /\ Total(Squares(l)) = Total(Squares(list)) - Squares(list)[1]
  <2>1. Len(Means(l)) \in Nat /\ Len(Squares(l)) \in Nat
    BY <1>7, <1>8
  <2>2. Len(Means(list)) = Len(Means(l)) + 1 /\ Len(Squares(list)) = Len(Squares(l)) + 1
    BY <1>7, <1>8
  <2>3. \A i \in 1..Len(Means(list)) : Means(list)[i] \in Int
    BY <1>8, <1>10
  <2>4. \A i \in 1..Len(Squares(list)) : Squares(list)[i] \in Int
    BY <1>8, <1>10
  <2>5. \A i \in 1..Len(Means(l)) : Means(l)[i] = Means(list)[i + 1]
    BY <1>8, <1>9
  <2>6. \A i \in 1..Len(Squares(l)) : Squares(l)[i] = Squares(list)[i + 1]
    BY <1>8, <1>9
  <2>7. Total(Means(l)) = Total(Means(list)) - Means(list)[1]
    BY ONLY <2>1, <2>2, <2>3, <2>5, TotalShorter
  <2>8. Total(Squares(l)) = Total(Squares(list)) - Squares(list)[1]
    BY ONLY <2>1, <2>2, <2>4, <2>6, TotalShorter
  <2> QED BY <2>7, <2>8
<1>12. /\ Means(list)[1] = Duration(list, 1) * Average(list, 1)
       /\ Squares(list)[1] = Duration(list, 1) * (Average(list, 1) * Average(list, 1))
  BY <1>4, SummedTyped DEF Sqr, n
<1> QED BY <1>1, <1>2, <1>3, <1>4, <1>5, <1>6, <1>11, <1>12 DEF n, l

-----------------------------------------------------------------------------
(* Adding a sample to a statistic that tells, and removing one.            *)

(* A statistic that tells still does with a sample more, *)
LEMMA AddedTells ==
  ASSUME NEW s, StatisticIs(s), NEW v \in Measured, Last(s.list).stamp < v.stamp,
         v.stamp <= MaxTime
  PROVE  /\ StatisticIs(Added(s, v)) /\ Added(s, v).list = Grown(s.list, v)
         /\ Added(s, v).time = s.time /\ Added(s, v).n = s.n
<1> DEFINE list == s.list
           l == Grown(list, v)
           span == Span(list)
           t == Since(list, v)
           h == Between(list, v)
           A == Total(Means(list))
           B == Total(Squares(list))
           M == s.mean
           V == s.variance
           diff == ((h - M) * t) \div (t + span)
           N == M + diff
           W == (span * (V + Sqr(M - N)) + t * Sqr(h - N)) \div (span + t)
<1>1. /\ Window(list) /\ list # <<>> /\ s \in Figures /\ Near(M) /\ M \in Int /\ V \in Int
      /\ HasMean(M, span, A) /\ HasVariance(V, M, span, B)
  BY DEF StatisticIs, Near, Figures, Window
<1>2. /\ Window(l) /\ Len(l) = Len(list) + 1 /\ Len(l) # 1
      /\ t \in Nat \ {0} /\ t \in 1..(MaxTime - 1) /\ Span(l) = t + span
      /\ Total(Means(l)) = A + t * h /\ Total(Squares(l)) = B + t * (h * h)
  BY <1>1, WindowGrows
<1>3. span \in Nat
  BY <1>1, LengthsTotal
<1>4. Span(l) \in 1..(MaxTime - 1)
  BY <1>2, LengthsTotal
<1>5. /\ Near(h) /\ h \in Int
      /\ Halfway(v, Last(list)) = h
  <2>1. Last(list).value \in Readings
    BY <1>1, WindowTyped
  <2>2. v.value \in Readings
    BY DEF Measured
  <2>3. Near(h) /\ value_norm(v.value - value_diff(v.value, Last(list).value) \div 2) = h
    BY <1>2, <2>1, <2>2, AverageIs DEF Between
  <2> QED BY <2>3 DEF Near, Halfway
<1>6. A \in Int /\ B \in Int
  <2>1. /\ \A i \in 1..Len(Means(list)) : Means(list)[i] \in Int
        /\ \A i \in 1..Len(Squares(list)) : Squares(list)[i] \in Int
        /\ Len(Means(list)) \in Nat /\ Len(Squares(list)) \in Nat
    BY <1>1, SummedTyped
  <2> QED BY <2>1, TotalExists
<1>7. Divides(t + span, A + t * h) /\ Divides(t + span, B + t * (h * h))
  BY <1>2, <1>4, SumsDivided
<1> HIDE DEF list, l, span, t, h, A, B, M, V
<1>8. N \in Int /\ HasMean(N, t + span, A + t * h)
  BY <1>1, <1>2, <1>3, <1>5, <1>6, <1>7, MeanAdded
<1>9. Near(N)
  BY <1>2, <1>8, MeanNear
<1>10. Added(s, v) = [s EXCEPT !.list = l, !.mean = N, !.variance = W]
  <2>1. value_diff(h, M) = h - M /\ value_diff(h, N) = h - N /\ value_diff(M, N) = M - N
    BY <1>1, <1>5, <1>9, NearDiff
  <2>2. value_norm(N) = N
    BY <1>9, NearNorm
  <2> QED BY <1>5, <2>1, <2>2, ZenonT(60) DEF Added, list, l, span, t, M, V, Grown, Since
<1> HIDE DEF N
<1>11. t + span = span + t
  BY <1>2, <1>3
<1>12. W \in Int /\ HasVariance(W, N, span + t, B + t * (h * h))
  BY <1>1, <1>2, <1>3, <1>5, <1>6, <1>7, <1>8, <1>11, VarianceAdded
<1> HIDE DEF W
<1>13. /\ Added(s, v) \in Figures /\ Added(s, v).list = l /\ Added(s, v).mean = N
       /\ Added(s, v).variance = W /\ Added(s, v).time = s.time /\ Added(s, v).n = s.n
  <2>1. l \in Seq(Measured)
    BY <1>2 DEF Window
  <2> QED BY <1>1, <1>8, <1>10, <1>12, <2>1 DEF Figures
<1> QED BY <1>2, <1>8, <1>9, <1>11, <1>12, <1>13 DEF StatisticIs, l, list

(* The statistic of one sample tells. *)
LEMMA RestartedTells ==
  ASSUME NEW s \in Figures, NEW v \in Measured, 1 <= v.stamp, v.stamp <= MaxTime
  PROVE  /\ StatisticIs(Restarted(s, v)) /\ Restarted(s, v).list = <<v>>
         /\ Restarted(s, v).n = 1 /\ Restarted(s, v).time = s.time
         /\ Restarted(s, v).variance = 0 /\ Restarted(s, v).mean = v.value
<1> DEFINE l == <<v>>
<1>1. l \in Seq(Measured) /\ Len(l) = 1 /\ l[1] = v /\ l # <<>>
  OBVIOUS
<1>2. v.value \in Readings
  BY DEF Measured
<1>3. Near(v.value) /\ v.value \in Nat
  <2>1. CASE 1 \in 1..(MaxTime - 1)
    BY <1>2, <2>1, ReadingIs
  <2>2. v.value \in Nat
    BY <1>2, SamplesAssumption
  <2>3. Circle # 0 => 2 * v.value < Circle
    BY <1>2, FiguresAssumption
  <2> QED BY <2>2, <2>3 DEF Near
<1>4. /\ Restarted(s, v) \in Figures /\ Restarted(s, v).list = l
      /\ Restarted(s, v).n = 1 /\ Restarted(s, v).time = s.time
      /\ Restarted(s, v).variance = 0 /\ Restarted(s, v).mean = v.value
  <2>1. Restarted(s, v) = [s EXCEPT !.list = l, !.n = 1, !.mean = v.value, !.variance = 0]
    BY DEF Restarted
  <2>2. l \in Seq(Measured) /\ v.value \in Int /\ 1 \in Int /\ 0 \in Int
    BY <1>1, <1>3
  <2> HIDE DEF l
  <2> QED BY <2>1, <2>2 DEF Figures
<1> HIDE DEF l
<1>5. Window(l)
  <2>1. \A i, j \in 1..1 : ~(i < j)
    OBVIOUS
  <2>2. \A i \in 1..1 : 1 <= l[i].stamp /\ l[i].stamp <= MaxTime
    BY <1>1
  <2> QED BY <1>1, <2>1, <2>2 DEF Window
<1>6. Span(l) = 0
  BY <1>1, <1>5, LengthsTotal
<1>7. Total(Means(l)) = 0 /\ Total(Squares(l)) = 0
  <2>1. Len(Means(l)) = 1 - 1 /\ Len(Squares(l)) = 1 - 1
    BY <1>1, <1>5, SummedTyped
  <2> QED BY <2>1, TotalEmpty
<1>8. HasMean(v.value, 0, 0) /\ HasVariance(0, v.value, 0, 0)
  <2> DEFINE x == v.value
  <2>1. x \in Nat
    BY <1>3
  <2> HIDE DEF x
  <2>2. x * 0 = 0 /\ 0 * 0 = 0 - 0 * (x * x)
    BY ONLY <2>1
  <2> QED BY <2>2 DEF HasMean, HasVariance, x
<1>9. StatisticIs(Restarted(s, v))
  BY <1>1, <1>3, <1>4, <1>5, <1>6, <1>7, <1>8 DEF StatisticIs
<1> QED BY <1>4, <1>9 DEF l

(* and with its oldest sample taken away. *)
LEMMA RemovedTells ==
  ASSUME NEW s, StatisticIs(s), Len(s.list) # 1
  PROVE  /\ StatisticIs(Removed(s)) /\ Removed(s).list = Tail(s.list)
         /\ Removed(s).time = s.time
         /\ Removed(s).n = IF Len(Tail(s.list)) = 1 THEN 1 ELSE s.n
<1> DEFINE list == s.list
           l == Tail(list)
           span == Span(l)
           t == Duration(list, 1)
           h == Average(list, 1)
           A == Total(Means(list))
           B == Total(Squares(list))
           M == s.mean
           V == s.variance
           diff == ((h - M) * t) \div span
           N == M - diff
           W == ((span + t) * V - t * Sqr(h - M)) \div span - Sqr(M - N)
<1>1. /\ Window(list) /\ list # <<>> /\ s \in Figures /\ Near(M) /\ M \in Int /\ V \in Int
      /\ HasMean(M, Span(list), A) /\ HasVariance(V, M, Span(list), B)
  BY DEF StatisticIs, Near, Figures, Window
<1>2. /\ Window(l) /\ 1 \in Intervals(list) /\ Head(l) = list[2] /\ Head(list) = list[1]
      /\ Span(list) = span + t
      /\ Total(Means(l)) = A - t * h /\ Total(Squares(l)) = B - t * (h * h)
      /\ Len(l) = Len(list) - 1 /\ Len(list) - 1 \in Nat \ {0}
  BY <1>1, WindowShrinks
<1>3. 1 \in 1..Len(list) /\ 1 + 1 = 2 /\ 2 \in 1..Len(list)
      /\ t \in 1..(MaxTime - 1) /\ Near(h)
  BY <1>1, <1>2, IntervalIs
<1>4. t \in Nat \ {0} /\ h \in Int
  BY <1>3, SamplesAssumption DEF Near
<1>5. Halfway(Head(list), Head(l)) = h
  <2>1. list[1].value \in Readings /\ list[2].value \in Readings
    BY <1>1, <1>3, WindowTyped
  <2> DEFINE x == list[1].value
             y == list[2].value
  <2>2. value_norm(x - value_diff(x, y) \div 2) = (x + y) \div 2
    <3> HIDE DEF x, y
    <3>1. x \in Readings /\ y \in Readings
      BY <2>1 DEF x, y
    <3> QED BY <1>3, <3>1, AverageIs
  <2> QED BY <1>2, <1>3, <2>2 DEF Halfway, Average
<1>6. A \in Int /\ B \in Int
  <2>1. /\ \A i \in 1..Len(Means(list)) : Means(list)[i] \in Int
        /\ \A i \in 1..Len(Squares(list)) : Squares(list)[i] \in Int
        /\ Len(Means(list)) \in Nat /\ Len(Squares(list)) \in Nat
    BY <1>1, SummedTyped
  <2> QED BY <2>1, TotalExists
<1>7. t = Head(l).stamp - Head(list).stamp
  BY <1>2, <1>3 DEF Duration
<1> USE DEF Removed
<1> HIDE DEF list, l, span, t, h, A, B, M, V
<1>8. CASE Len(l) = 1
  <2>1. Last(l) \in Measured /\ 1 <= Last(l).stamp /\ Last(l).stamp <= MaxTime /\ l = <<Last(l)>>
    <3>1. Last(l) = l[1] /\ l[1] \in Measured /\ l[1].stamp \in 1..MaxTime /\ l \in Seq(Measured)
      <4>1. 1 \in 1..Len(l)
        BY <1>8
      <4> QED BY <1>2, <1>8, <4>1, WindowTyped DEF Window
    <3>2. l = <<l[1]>>
      BY <1>8, <3>1
    <3> QED BY <3>1, <3>2, SamplesAssumption
  <2>2. Removed(s) = Restarted(s, Last(l))
    BY <1>8 DEF l, list
  <2> HIDE DEF Removed
  <2>3. /\ StatisticIs(Restarted(s, Last(l))) /\ Restarted(s, Last(l)).list = <<Last(l)>>
        /\ Restarted(s, Last(l)).n = 1 /\ Restarted(s, Last(l)).time = s.time
    BY <1>1, <2>1, RestartedTells
  <2>4. /\ StatisticIs(Removed(s)) /\ Removed(s).list = l
        /\ Removed(s).n = 1 /\ Removed(s).time = s.time
    BY <2>1, <2>2, <2>3
  <2> QED BY <1>8, <2>4 DEF l, list
<1>9. CASE Len(l) # 1
  <2>1. span \in 1..(MaxTime - 1)
    BY <1>2, <1>9, LengthsTotal DEF span
  <2>2. span \in Nat \ {0}
    BY <2>1, SamplesAssumption
  <2>3. Divides(span, A - t * h) /\ Divides(span, B - t * (h * h))
    BY <1>2, <2>1, SumsDivided
  <2>4. N \in Int /\ HasMean(N, span, A - t * h)
    BY <1>1, <1>2, <1>4, <1>6, <2>2, <2>3, MeanRemoved
  <2>5. Near(N)
    BY <1>2, <1>9, <2>4, MeanNear DEF span
  <2>6. Removed(s) = [s EXCEPT !.list = l, !.mean = N, !.variance = W]
    <3>1. value_diff(h, M) = h - M /\ value_diff(M, N) = M - N
      BY <1>1, <1>3, <2>5, NearDiff
    <3>2. value_norm(N) = N
      BY <2>5, NearNorm
    <3> QED BY <1>5, <1>7, <1>9, <3>1, <3>2, ZenonT(60) DEF list, l, span, M, V
  <2> HIDE DEF N
  <2>7. W \in Int /\ HasVariance(W, N, span, B - t * (h * h))
    BY <1>1, <1>2, <1>4, <1>6, <2>2, <2>3, <2>4, VarianceRemoved, ZenonT(60)
  <2> HIDE DEF W, Removed
  <2>8. /\ Removed(s) \in Figures /\ Removed(s).list = l /\ Removed(s).mean = N
        /\ Removed(s).variance = W /\ Removed(s).time = s.time /\ Removed(s).n = s.n
    <3>1. l \in Seq(Measured)
      BY <1>2 DEF Window
    <3> QED BY <1>1, <2>4, <2>6, <2>7, <3>1 DEF Figures
  <2> QED BY <1>2, <1>9, <2>4, <2>5, <2>7, <2>8 DEF StatisticIs, l, list, span
<1> QED BY <1>8, <1>9

-----------------------------------------------------------------------------
(* The loop that drops expired samples.                                    *)

(* One turn of the loop. *)
Turned(t, v) == IF v.stamp - Head(t.list).stamp > Period THEN Removed(t) ELSE t

(* The turns of the loop up to the kth. *)
Turns(g, s, v, k) == g[0] = s /\ \A i \in 1..k : g[i] = Turned(g[i - 1], v)

(* The turns of the loop exist, *)
LEMMA TurnsExist == ASSUME NEW s, NEW v, NEW n \in Nat PROVE \E g : Turns(g, s, v, n)
<1> DEFINE P == {k \in 0..n : \E g : Turns(g, s, v, k)}
<1>1. 0 \in P
  <2>1. Turns([i \in {0} |-> s], s, v, 0)
    BY DEF Turns
  <2> QED BY <2>1
<1>2. ASSUME NEW k \in 1..n, k - 1 \in P PROVE k \in P
  <2>1. PICK f : Turns(f, s, v, k - 1)
    BY <1>2
  <2> DEFINE g == [i \in 0..k |-> IF i < k THEN f[i] ELSE Turned(f[k - 1], v)]
  <2>2. g[0] = s
    BY <2>1 DEF Turns
  <2>3. ASSUME NEW i \in 1..k PROVE g[i] = Turned(g[i - 1], v)
    <3>1. i - 1 \in 0..(k - 1) /\ g[i - 1] = f[i - 1] /\ i \in 0..k
      OBVIOUS
    <3>2. CASE i < k
      <4>1. i \in 1..(k - 1) /\ g[i] = f[i]
        BY <3>2
      <4> QED BY <2>1, <3>1, <4>1 DEF Turns
    <3>3. CASE i = k
      <4>1. g[i] = Turned(f[k - 1], v)
        BY <3>3
      <4> QED BY <3>1, <3>3, <4>1
    <3> QED BY <3>2, <3>3
  <2> HIDE DEF g
  <2>4. Turns(g, s, v, k)
    BY <2>2, <2>3 DEF Turns
  <2> QED BY <2>4
<1>3. n \in P
  <2> HIDE DEF P
  <2>1. \A i \in 1..n : i - 1 \in P => i \in P
    BY <1>2
  <2>2. \A i \in 0..n : i \in P
    BY <1>1, <2>1, UpTo
  <2> QED BY <2>2
<1> QED BY <1>3

(* and the recursive function has them. *)
LEMMA DroppingTurns ==
  ASSUME NEW s, NEW v, Len(s.list) \in Nat
  PROVE  Turns(Dropping(s, v), s, v, Len(s.list))
<1> DEFINE n == Len(s.list)
           Equation(f) == f = [i \in 0..n |-> IF i = 0 THEN s ELSE Turned(f[i - 1], v)]
           F == CHOOSE f : Equation(f)
<1>1. Dropping(s, v) = F
  BY DEF Dropping, Turned
<1>2. n \in Nat
  OBVIOUS
<1> HIDE DEF n
<1>3. PICK g : Turns(g, s, v, n)
  BY <1>2, TurnsExist
<1> DEFINE h == [i \in 0..n |-> g[i]]
<1>4. Equation(h)
  <2>1. ASSUME NEW i \in 0..n PROVE h[i] = IF i = 0 THEN s ELSE Turned(h[i - 1], v)
    <3>1. CASE i = 0
      BY <1>3, <3>1 DEF Turns
    <3>2. CASE i # 0
      <4>1. i \in 1..n /\ i - 1 \in 0..n
        BY <1>2, <3>2
      <4> QED BY <1>3, <3>2, <4>1 DEF Turns
    <3> QED BY <3>1, <3>2
  <2> QED BY <2>1
<1>5. Equation(F)
  BY <1>4
<1> HIDE DEF F
<1>6. Turns(F, s, v, n)
  <2>1. F[0] = s
    BY <1>2, <1>5
  <2>2. ASSUME NEW i \in 1..n PROVE F[i] = Turned(F[i - 1], v)
    <3>1. i \in 0..n /\ i # 0
      OBVIOUS
    <3> QED BY <1>5, <3>1
  <2> QED BY <2>1, <2>2 DEF Turns
<1> QED BY <1>1, <1>6 DEF n

(* What the loop has to do after i turns: the samples of t are the newest  *)
(* of those of s, and those that have not expired are among them.          *)
Left(t, s, v) ==
  /\ StatisticIs(t)
  /\ Last(t.list) = v
  /\ t.time = s.time
  /\ Len(t.list) = 1 => t.n = 1
  /\ ToSet(t.list) \subseteq ToSet(s.list)
  /\ \A x \in ToSet(s.list) : v.stamp - x.stamp <= Period => x \in ToSet(t.list)

Stays(t, v) == v.stamp - Head(t.list).stamp <= Period

(* A turn leaves what it should. *)
LEMMA TurnLeaves ==
  ASSUME NEW s, NEW t, NEW v \in Measured, Left(t, s, v)
  PROVE  /\ Left(Turned(t, v), s, v)
         /\ Stays(t, v) => Turned(t, v) = t
         /\ ~Stays(t, v) => Len(Turned(t, v).list) = Len(t.list) - 1
<1>1. /\ StatisticIs(t) /\ Window(t.list) /\ Last(t.list) = v
  BY DEF Left, StatisticIs
<1>2. /\ Period \in Nat /\ v.stamp \in Nat
  BY StatisticsAssumption DEF Measured
<1>3. Head(t.list) = t.list[1] /\ t.list[1].stamp \in Nat
  <2>1. 1 \in 1..Len(t.list)
    BY <1>1, WindowTyped
  <2>2. Head(t.list) = t.list[1] /\ t.list[1].stamp \in 1..MaxTime
    BY <1>1, <2>1, WindowTyped
  <2> QED BY <2>2, SamplesAssumption
<1>4. CASE Stays(t, v)
  <2>1. ~(v.stamp - Head(t.list).stamp > Period)
    BY <1>2, <1>3, <1>4 DEF Stays
  <2>2. Turned(t, v) = t
    BY <2>1 DEF Turned
  <2> QED BY <1>4, <2>2
<1>5. CASE ~Stays(t, v)
  <2> DEFINE list == t.list
             l == Tail(list)
  <2>1. v.stamp - Head(list).stamp > Period
    BY <1>2, <1>3, <1>5 DEF Stays
  <2>2. Turned(t, v) = Removed(t)
    BY <2>1 DEF Turned
  <2>3. Len(list) # 1
    <3>1. ASSUME Len(list) = 1 PROVE FALSE
      <4>1. Last(list) = list[1]
        BY <1>1, <3>1, WindowTyped
      <4>2. v.stamp - v.stamp > Period
        BY <1>1, <1>3, <2>1, <4>1
      <4> QED BY <1>2, <4>2
    <3> QED BY <3>1
  <2>4. /\ Window(l) /\ Len(l) = Len(list) - 1 /\ Last(l) = Last(list) /\ Len(list) - 1 \in Nat \ {0}
        /\ \A i \in 1..(Len(list) - 1) : l[i] = list[i + 1]
    BY <1>1, <2>3, WindowShrinks
  <2>5. /\ StatisticIs(Removed(t)) /\ Removed(t).list = l /\ Removed(t).time = t.time
        /\ Removed(t).n = IF Len(l) = 1 THEN 1 ELSE t.n
    BY <1>1, <2>3, RemovedTells
  <2> DEFINE n == Len(list)
  <2>6. /\ n \in Nat /\ n - 1 \in Nat \ {0} /\ Len(l) = n - 1
        /\ DOMAIN list = 1..n /\ DOMAIN l = 1..(n - 1)
    BY <1>1, <2>4, WindowTyped
  <2>7. \A x \in ToSet(l) : x \in ToSet(list)
    <3> HIDE DEF n, l
    <3>1. ASSUME NEW i \in 1..(n - 1) PROVE l[i] \in ToSet(list)
      <4>1. i + 1 \in 1..n /\ l[i] = list[i + 1]
        BY <2>4, <2>6 DEF n
      <4> QED BY <2>6, <4>1 DEF ToSet
    <3> QED BY <2>6, <3>1 DEF ToSet
  <2>8. \A x \in ToSet(list) : v.stamp - x.stamp <= Period => x \in ToSet(l)
    <3> HIDE DEF n, l
    <3>1. ASSUME NEW i \in 1..n, v.stamp - list[i].stamp <= Period PROVE list[i] \in ToSet(l)
      <4>1. i # 1
        <5>1. ASSUME i = 1 PROVE FALSE
          <6>1. v.stamp - list[1].stamp <= Period
            BY <3>1, <5>1
          <6> QED BY <1>2, <1>3, <2>1, <6>1
        <5> QED BY <5>1
      <4>2. i - 1 \in 1..(n - 1) /\ (i - 1) + 1 = i
        BY <2>6, <4>1
      <4>3. l[i - 1] = list[i]
        BY <2>4, <4>2 DEF n
      <4> QED BY <2>6, <4>2, <4>3 DEF ToSet
    <3> QED BY <2>6, <3>1 DEF ToSet
  <2> HIDE DEF l, list, n
  <2>9. Left(Removed(t), s, v)
    <3>1. Last(l) = v
      BY <1>1, <2>4 DEF list
    <3>2. t.time = s.time /\ ToSet(list) \subseteq ToSet(s.list)
          /\ \A x \in ToSet(s.list) : v.stamp - x.stamp <= Period => x \in ToSet(list)
      BY DEF Left, list
    <3>3. Len(l) = 1 => Removed(t).n = 1
      BY <2>5
    <3>4. Removed(t).time = s.time
      BY <2>5, <3>2
    <3>5. ToSet(l) \subseteq ToSet(s.list)
      BY <2>7, <3>2
    <3>6. \A x \in ToSet(s.list) : v.stamp - x.stamp <= Period => x \in ToSet(l)
      BY <2>8, <3>2
    <3> QED BY <2>5, <3>1, <3>3, <3>4, <3>5, <3>6 DEF Left
  <2> QED BY <1>5, <2>2, <2>4, <2>5, <2>9 DEF list
<1> QED BY <1>4, <1>5

(* The loop ends with the oldest sample that has not expired. *)
LEMMA DroppingLeaves ==
  ASSUME NEW s, NEW v \in Measured, Left(s, s, v)
  PROVE  /\ Left(Dropping(s, v)[Len(s.list)], s, v)
         /\ Stays(Dropping(s, v)[Len(s.list)], v)
<1> DEFINE n == Len(s.list)
           g == Dropping(s, v)
<1>1. n \in Nat
  BY WindowTyped DEF Left, StatisticIs
<1>2. Turns(g, s, v, n)
  BY <1>1, DroppingTurns
<1> HIDE DEF n, g
<1> DEFINE P == {i \in 0..n : Left(g[i], s, v) /\ (Stays(g[i], v) \/ Len(g[i].list) + i <= n)}
<1>3. 0 \in P
  <2>1. g[0] = s
    BY <1>2 DEF Turns
  <2>2. n + 0 <= n
    BY <1>1
  <2> QED BY <1>1, <2>1, <2>2 DEF n
<1>4. ASSUME NEW i \in 1..n, i - 1 \in P PROVE i \in P
  <2>1. g[i] = Turned(g[i - 1], v)
    BY <1>2 DEF Turns
  <2>2. /\ Left(g[i - 1], s, v)
        /\ Stays(g[i - 1], v) \/ Len(g[i - 1].list) + (i - 1) <= n
    BY <1>4
  <2>3. /\ Left(g[i], s, v)
        /\ Stays(g[i - 1], v) => g[i] = g[i - 1]
        /\ ~Stays(g[i - 1], v) => Len(g[i].list) = Len(g[i - 1].list) - 1
    BY <2>1, <2>2, TurnLeaves
  <2>4. Len(g[i - 1].list) \in Nat
    BY <2>2, WindowTyped DEF Left, StatisticIs
  <2>5. CASE Stays(g[i - 1], v)
    <3>1. Stays(g[i], v)
      BY <2>3, <2>5
    <3> QED BY <1>1, <2>3, <3>1
  <2>6. CASE ~Stays(g[i - 1], v)
    <3>1. Len(g[i - 1].list) + (i - 1) <= n /\ Len(g[i].list) = Len(g[i - 1].list) - 1
      BY <2>2, <2>3, <2>6
    <3>2. Len(g[i].list) + i <= n
      BY <1>1, <2>4, <3>1
    <3> QED BY <1>1, <2>3, <3>2
  <2> QED BY <2>5, <2>6
<1>5. n \in P
  <2> HIDE DEF P
  <2>1. \A i \in 1..n : i - 1 \in P => i \in P
    BY <1>4
  <2>2. \A i \in 0..n : i \in P
    BY <1>1, <1>3, <2>1, UpTo
  <2> QED BY <1>1, <2>2
<1>6. Left(g[n], s, v) /\ (Stays(g[n], v) \/ Len(g[n].list) + n <= n)
  BY <1>5
<1>7. Len(g[n].list) \in Nat \ {0}
  BY <1>6, WindowTyped DEF Left, StatisticIs
<1>8. ~(Len(g[n].list) + n <= n)
  BY <1>1, <1>7
<1> QED BY <1>6, <1>8 DEF n, g

-----------------------------------------------------------------------------
(* A statistic at time t, whose last sample came in then.                  *)

Recent(x, t) == t - x.stamp <= Period

TellsAt(s, t) ==
  /\ s \in Figures
  /\ s.n = Len(s.list)
  /\ s.time \in 0..t
  /\ s.list = <<>> => s = NoStatistic
  /\ s.list # <<>> =>
        /\ StatisticIs(s)
        /\ Last(s.list).stamp = t
        /\ \A x \in ToSet(s.list) : Recent(x, t)

(* The samples of the window after v came in. *)
Follows(s, r, v) ==
  /\ s.list = <<>> => ToSet(r.list) = {v}
  /\ s.list # <<>> /\ v.stamp = Last(s.list).stamp => r = s
  /\ s.list # <<>> /\ v.stamp # Last(s.list).stamp =>
       ToSet(r.list) = {x \in ToSet(s.list) \cup {v} : Recent(x, v.stamp)}

(* The elements of a window. *)
LEMMA WindowSet ==
  ASSUME NEW list, Window(list)
  PROVE  /\ \A x \in ToSet(list) : \E i \in 1..Len(list) : x = list[i]
         /\ \A i \in 1..Len(list) : list[i] \in ToSet(list)
         /\ \A x \in ToSet(list) : /\ x \in Measured /\ x.stamp \in Nat
                                   /\ Head(list).stamp <= x.stamp /\ x.stamp <= Last(list).stamp
         /\ Head(list).stamp \in Nat /\ Last(list).stamp \in Nat
<1>1. /\ Len(list) \in Nat \ {0} /\ DOMAIN list = 1..Len(list)
      /\ Head(list) = list[1] /\ Last(list) = list[Len(list)]
      /\ \A i \in 1..Len(list) : list[i] \in Measured /\ list[i].stamp \in 1..MaxTime
  BY WindowTyped
<1>2. \A x \in ToSet(list) : \E i \in 1..Len(list) : x = list[i]
  BY <1>1 DEF ToSet
<1>3. \A i \in 1..Len(list) : list[i] \in ToSet(list)
  BY <1>1 DEF ToSet
<1>4. ASSUME NEW i \in 1..Len(list)
      PROVE  /\ list[i].stamp \in Nat /\ list[1].stamp <= list[i].stamp
             /\ list[i].stamp <= list[Len(list)].stamp
  <2> DEFINE n == Len(list)
  <2>1. 1 \in 1..n /\ n \in 1..n /\ n \in Nat
    BY <1>1
  <2>2. \A j \in 1..n : list[j].stamp \in 1..MaxTime
    BY <1>1
  <2> HIDE DEF n
  <2>3. list[1].stamp \in Nat /\ list[n].stamp \in Nat /\ list[i].stamp \in Nat
    <3>1. i \in 1..n
      BY DEF n
    <3>2. list[1].stamp \in 1..MaxTime /\ list[n].stamp \in 1..MaxTime /\ list[i].stamp \in 1..MaxTime
      BY <2>1, <2>2, <3>1
    <3> QED BY <3>2, SamplesAssumption
  <2>4. i = 1 \/ list[1].stamp < list[i].stamp
    <3>1. CASE 1 < i
      <4>1. list[1].stamp < list[i].stamp
        BY <2>1, <3>1 DEF Window, n
      <4> QED BY <4>1
    <3>2. i = 1 \/ 1 < i
      BY <2>1 DEF n
    <3> QED BY <3>1, <3>2
  <2>5. i = n \/ list[i].stamp < list[n].stamp
    <3>1. CASE i < n
      <4>1. list[i].stamp < list[n].stamp
        BY <2>1, <3>1 DEF Window, n
      <4> QED BY <4>1
    <3>2. i = n \/ i < n
      BY <2>1 DEF n
    <3> QED BY <3>1, <3>2
  <2>6. list[1].stamp <= list[i].stamp
    <3>1. CASE i = 1
      BY <2>3, <3>1
    <3> QED BY <2>3, <2>4, <3>1
  <2>7. list[i].stamp <= list[n].stamp
    <3>1. CASE i = n
      BY <2>3, <3>1
    <3> QED BY <2>3, <2>5, <3>1
  <2> QED BY <2>3, <2>6, <2>7 DEF n
<1>5. Head(list).stamp \in Nat /\ Last(list).stamp \in Nat
  <2>1. 1 \in 1..Len(list) /\ Len(list) \in 1..Len(list)
    BY <1>1
  <2> QED BY <1>1, <1>4, <2>1
<1>6. \A x \in ToSet(list) : /\ x \in Measured /\ x.stamp \in Nat
                             /\ Head(list).stamp <= x.stamp /\ x.stamp <= Last(list).stamp
  BY <1>1, <1>2, <1>4
<1> QED BY <1>2, <1>3, <1>5, <1>6

(* The samples of a window that has grown. *)
LEMMA GrownSet ==
  ASSUME NEW list, Window(list), NEW v \in Measured
  PROVE  ToSet(Grown(list, v)) = ToSet(list) \cup {v} /\ Last(Grown(list, v)) = v
<1> DEFINE n == Len(list)
           l == Grown(list, v)
<1>1. n \in Nat /\ DOMAIN list = 1..n /\ list \in Seq(Measured)
  BY WindowTyped DEF Window
<1>2. /\ DOMAIN l = 1..(n + 1) /\ Len(l) = n + 1 /\ l[n + 1] = v
      /\ \A i \in 1..n : l[i] = list[i]
  BY <1>1 DEF Grown
<1> HIDE DEF n, l
<1>3. Last(l) = v
  BY <1>2 DEF Last
<1>4. ASSUME NEW x \in ToSet(l) PROVE x \in ToSet(list) \cup {v}
  <2>1. PICK i \in 1..(n + 1) : x = l[i]
    BY <1>2 DEF ToSet
  <2>2. CASE i = n + 1
    BY <1>2, <2>1, <2>2
  <2>3. CASE i # n + 1
    <3>1. i \in 1..n
      BY <1>1, <2>3
    <3> QED BY <1>1, <1>2, <2>1, <3>1 DEF ToSet
  <2> QED BY <2>2, <2>3
<1>5. ASSUME NEW x \in ToSet(list) PROVE x \in ToSet(l)
  <2>1. PICK i \in 1..n : x = list[i]
    BY <1>1 DEF ToSet
  <2>2. i \in 1..(n + 1) /\ l[i] = x
    BY <1>1, <1>2, <2>1
  <2> QED BY <1>2, <2>2 DEF ToSet
<1>6. v \in ToSet(l)
  <2>1. n + 1 \in 1..(n + 1)
    BY <1>1
  <2> QED BY <1>2, <2>1 DEF ToSet
<1> QED BY <1>3, <1>4, <1>5, <1>6 DEF l

(* A later sample, and what has expired by then. *)
LEMMA TrimmedTells ==
  ASSUME NEW t \in Nat, NEW s, TellsAt(s, t), s.list # <<>>, NEW v \in Measured,
         t < v.stamp, v.stamp <= MaxTime
  PROVE  LET r == Trimmed(Added(s, v), v)
         IN TellsAt(r, v.stamp) /\ Follows(s, r, v)
<1> DEFINE a == Added(s, v)
           d == Dropping(a, v)[Len(a.list)]
           r == Trimmed(a, v)
<1>1. StatisticIs(s) /\ Window(s.list) /\ Last(s.list).stamp = t /\ s.time \in 0..t
  BY DEF TellsAt, StatisticIs
<1>2. v.stamp \in Nat
  BY DEF Measured
<1>3. /\ StatisticIs(a) /\ a.list = Grown(s.list, v) /\ a.time = s.time
      /\ Len(a.list) # 1
  <2>1. Last(s.list).stamp < v.stamp
    BY <1>1
  <2>2. /\ StatisticIs(a) /\ a.list = Grown(s.list, v) /\ a.time = s.time
    BY <1>1, <2>1, AddedTells
  <2>3. Len(Grown(s.list, v)) # 1
    BY <1>1, <2>1, WindowGrows
  <2> QED BY <2>2, <2>3
<1>4. ToSet(a.list) = ToSet(s.list) \cup {v} /\ Last(a.list) = v
  BY <1>1, <1>3, GrownSet
<1> HIDE DEF a
<1>5. Left(a, a, v)
  BY <1>3, <1>4 DEF Left
<1>6. Left(d, a, v) /\ Stays(d, v)
  BY <1>5, DroppingLeaves
<1>7. r = IF Len(d.list) = 1 THEN d ELSE [d EXCEPT !.n = Len(d.list), !.time = v.stamp]
  BY DEF Trimmed
<1> HIDE DEF d, r
<1>8. StatisticIs(d) /\ Window(d.list) /\ d \in Figures /\ d.time = s.time /\ Last(d.list) = v
  BY <1>3, <1>6 DEF Left, StatisticIs
<1>9. Len(d.list) \in Nat \ {0} /\ d.list # <<>>
  BY <1>8, WindowTyped DEF Window
<1>10. /\ r \in Figures /\ r.list = d.list /\ r.mean = d.mean /\ r.variance = d.variance
       /\ r.n = Len(r.list) /\ r.time \in 0..v.stamp
  <2>1. CASE Len(d.list) = 1
    <3>1. r = d /\ d.n = 1
      BY <1>6, <1>7, <2>1 DEF Left
    <3>2. d.time \in 0..v.stamp
      BY <1>1, <1>2, <1>8
    <3> QED BY <1>8, <2>1, <3>1, <3>2
  <2>2. CASE Len(d.list) # 1
    <3>1. r = [d EXCEPT !.n = Len(d.list), !.time = v.stamp]
      BY <1>7, <2>2
    <3>2. Len(d.list) \in Int /\ v.stamp \in Int /\ v.stamp \in 0..v.stamp
      BY <1>2, <1>9
    <3> QED BY <1>8, <3>1, <3>2 DEF Figures
  <2> QED BY <2>1, <2>2
<1>11. StatisticIs(r)
  BY <1>8, <1>10 DEF StatisticIs
<1>12. \A x \in ToSet(d.list) : Recent(x, v.stamp)
  <2>1. Head(d.list).stamp \in Nat /\ v.stamp - Head(d.list).stamp <= Period
    BY <1>6, <1>8, WindowSet DEF Stays
  <2>2. ASSUME NEW x \in ToSet(d.list) PROVE Recent(x, v.stamp)
    <3>1. x.stamp \in Nat /\ Head(d.list).stamp <= x.stamp
      BY <1>8, WindowSet
    <3>2. v.stamp - x.stamp <= Period
      BY <1>2, <2>1, <3>1, StatisticsAssumption
    <3> QED BY <3>2 DEF Recent
  <2> QED BY <2>2
<1>13. ToSet(d.list) = {x \in ToSet(s.list) \cup {v} : Recent(x, v.stamp)}
  <2>1. ToSet(d.list) \subseteq ToSet(a.list)
    BY <1>6 DEF Left
  <2>2. \A x \in ToSet(a.list) : Recent(x, v.stamp) => x \in ToSet(d.list)
    BY <1>6 DEF Left, Recent
  <2> QED BY <1>4, <1>12, <2>1, <2>2
<1>14. TellsAt(r, v.stamp)
  <2>1. r.list # <<>> /\ Last(r.list).stamp = v.stamp /\ \A x \in ToSet(r.list) : Recent(x, v.stamp)
    BY <1>8, <1>9, <1>10, <1>12
  <2> QED BY <1>10, <1>11, <2>1 DEF TellsAt
<1>15. Follows(s, r, v)
  <2>1. v.stamp # Last(s.list).stamp
    BY <1>1, <1>2
  <2> QED BY <1>10, <1>13, <2>1 DEF Follows
<1> QED BY <1>14, <1>15 DEF a, r

(* A sample comes in. *)
LEMMA StatisticWithTells ==
  ASSUME NEW t \in Nat, NEW s, TellsAt(s, t), NEW v \in Measured,
         1 <= v.stamp, t <= v.stamp, v.stamp <= MaxTime
  PROVE  /\ TellsAt(StatisticWith(s, v), v.stamp) /\ Follows(s, StatisticWith(s, v), v)
         /\ StatisticWith(s, v).list # <<>>
<1> DEFINE r == StatisticWith(s, v)
<1>1. v.stamp \in Nat /\ Period \in Nat
  BY StatisticsAssumption DEF Measured
<1>2. CASE s.list = <<>>
  <2>1. r = Restarted(s, v)
    BY <1>2 DEF StatisticWith
  <2>2. s \in Figures /\ s.time \in 0..t
    BY DEF TellsAt
  <2> HIDE DEF r
  <2>3. /\ StatisticIs(r) /\ r.list = <<v>> /\ r.n = 1 /\ r.time = s.time
    BY <2>1, <2>2, RestartedTells
  <2>4. ToSet(<<v>>) = {v} /\ Last(<<v>>) = v /\ <<v>> # <<>> /\ Len(<<v>>) = 1
    BY DEF ToSet, Last
  <2>5. Recent(v, v.stamp)
    BY <1>1 DEF Recent
  <2>6. r.time \in 0..v.stamp
    BY <1>1, <2>2, <2>3
  <2>7. r \in Figures
    BY <2>3 DEF StatisticIs
  <2>8. r.list # <<>> /\ Last(r.list).stamp = v.stamp /\ ToSet(r.list) = {v} /\ r.n = Len(r.list)
    BY <2>3, <2>4
  <2>9. \A x \in ToSet(r.list) : Recent(x, v.stamp)
    BY <2>5, <2>8
  <2>10. TellsAt(r, v.stamp)
    BY <2>3, <2>6, <2>7, <2>8, <2>9 DEF TellsAt
  <2>11. Follows(s, r, v)
    BY <1>2, <2>8 DEF Follows
  <2> QED BY <2>8, <2>10, <2>11 DEF r
<1>3. CASE s.list # <<>> /\ v.stamp <= Last(s.list).stamp
  <2>1. Last(s.list).stamp = t /\ v.stamp = t
    <3>1. Last(s.list).stamp = t
      BY <1>3 DEF TellsAt
    <3> QED BY <1>1, <1>3, <3>1
  <2>2. r = s
    BY <1>3 DEF StatisticWith
  <2> QED BY <1>3, <2>1, <2>2 DEF Follows
<1>4. CASE s.list # <<>> /\ ~(v.stamp <= Last(s.list).stamp)
  <2>1. t < v.stamp
    <3>1. Last(s.list).stamp = t
      BY <1>4 DEF TellsAt
    <3> QED BY <1>1, <1>4, <3>1
  <2>2. r = Trimmed(Added(s, v), v)
    BY <1>4 DEF StatisticWith
  <2> HIDE DEF r
  <2>3. TellsAt(r, v.stamp) /\ Follows(s, r, v)
    BY <1>4, <2>1, <2>2, TrimmedTells
  <2>4. r.list # <<>>
    <3>1. v \in {x \in ToSet(s.list) \cup {v} : Recent(x, v.stamp)}
      BY <1>1 DEF Recent
    <3>2. v.stamp # Last(s.list).stamp
      BY <1>1, <1>4
    <3>3. v \in ToSet(r.list)
      BY <1>4, <2>3, <3>1, <3>2 DEF Follows
    <3> QED BY <3>3 DEF ToSet
  <2> QED BY <2>3, <2>4 DEF r
<1> QED BY <1>2, <1>3, <1>4

-----------------------------------------------------------------------------
(* What the figures of a statistic mean.                                   *)

Distances(list, M) == [i \in Intervals(list) |-> Duration(list, i) * Sqr(Average(list, i) - M)]

(* The sum of the squared distances to the mean. *)
LEMMA DistancesTotal ==
  ASSUME NEW list, Window(list), NEW M \in Int, NEW V \in Int,
         HasMean(M, Span(list), Total(Means(list))),
         HasVariance(V, M, Span(list), Total(Squares(list)))
  PROVE  /\ V * Span(list) = Total(Distances(list, M))
         /\ Total(Distances(list, M)) \in Nat
<1> DEFINE n == Len(list) - 1
           x == Distances(list, M)
           p == Lengths(list)
           q == Means(list)
           r == Squares(list)
           k == -2 * M
           m == M * M
           A == Total(q)
           B == Total(r)
           s == Span(list)
<1>1. /\ n \in Nat /\ Len(p) = n /\ Len(q) = n /\ Len(r) = n /\ Intervals(list) = 1..n
      /\ \A i \in 1..n : p[i] \in Int /\ q[i] \in Int /\ r[i] \in Int
      /\ s \in Nat /\ s = Total(p)
  BY SummedTyped, WindowTyped, LengthsTotal
<1>2. k \in Int /\ m \in Int
  BY ONLY M \in Int
<1>3. ASSUME NEW i \in 1..n PROVE x[i] \in Nat /\ x[i] = (r[i] + k * q[i]) + m * p[i]
  <2> DEFINE d == Duration(list, i)
             a == Average(list, i)
  <2>1. p[i] = d /\ q[i] = d * a /\ r[i] = d * (a * a) /\ x[i] = d * ((a - M) * (a - M))
    BY <1>1, SummedTyped DEF Distances, Sqr
  <2>2. a \in Nat /\ d \in Nat
    BY <1>1, IntervalIs, SMTT(30)
  <2> HIDE DEF d, a, p, q, r, x
  <2>3. d * ((a - M) * (a - M)) = (d * (a * a) + (-2 * M) * (d * a)) + (M * M) * d
    BY ONLY <2>2, M \in Int
  <2>4. d * ((a - M) * (a - M)) \in Nat
    <3> DEFINE b == a - M
    <3>1. b \in Int
      BY <2>2
    <3> HIDE DEF b
    <3>2. b * b \in Nat
      BY ONLY <3>1
    <3> DEFINE c == b * b
    <3>3. c \in Nat
      BY <3>2
    <3> HIDE DEF c
    <3>4. d * c \in Nat
      BY ONLY <2>2, <3>3
    <3> QED BY <3>4 DEF c, b
  <2> QED BY <2>1, <2>3, <2>4
<1>4. Len(x) = n
  <2>1. x \in [1..n -> Nat]
    <3>1. x = [i \in 1..n |-> Duration(list, i) * Sqr(Average(list, i) - M)]
      BY <1>1 DEF Distances
    <3> QED BY <1>3, <3>1
  <2> HIDE DEF x
  <2> QED BY <1>1, <2>1, FunctionLength
<1>5. HasMean(M, s, A) /\ HasVariance(V, M, s, B)
  OBVIOUS
<1>6. A \in Int /\ B \in Int
  <2> HIDE DEF q, r, n
  <2> QED BY <1>1, TotalExists
<1> HIDE DEF n, x, p, q, r, s
<1>7. Total(x) = (B + k * A) + m * Total(p)
  <2> HIDE DEF k, m
  <2>1. Combines(n, x, r, k, q, m, p)
    BY <1>1, <1>3, <1>4 DEF Combines
  <2> QED BY ONLY <1>1, <1>2, <2>1, TotalCombined
<1> HIDE DEF A, B
<1>8. V * s = Total(x)
  <2>1. M * s = A /\ V * s = B - s * (M * M)
    BY <1>5 DEF HasMean, HasVariance
  <2>2. (-2 * M) * (M * s) = -2 * (s * (M * M)) /\ (M * M) * s = s * (M * M)
    BY ONLY <1>1, M \in Int
  <2>3. Total(x) = (B + (-2 * M) * (M * s)) + (M * M) * s
    BY <1>1, <1>7, <2>1
  <2>4. s * (M * M) \in Int
    BY ONLY <1>1, M \in Int
  <2> QED BY ONLY <1>6, <2>1, <2>2, <2>3, <2>4
<1>9. Total(x) \in Nat
  <2>1. Len(x) \in Nat /\ \A i \in 1..Len(x) : x[i] \in Nat
    BY <1>1, <1>3, <1>4
  <2> QED BY <2>1, TotalNonNegative
<1> QED BY <1>8, <1>9 DEF x, s

(* A statistic that tells has the mean and the variance of its window. *)
LEMMA FiguresMean ==
  ASSUME NEW s, StatisticIs(s)
  PROVE  MeanOf(s) /\ VarianceOf(s) /\ s.variance \in Nat
<1> DEFINE list == s.list
           M == s.mean
           V == s.variance
<1>1. /\ Window(list) /\ M \in Int /\ V \in Int
      /\ HasMean(M, Span(list), Total(Means(list)))
      /\ HasVariance(V, M, Span(list), Total(Squares(list)))
      /\ Len(list) = 1 => M = list[1].value /\ V = 0
  BY DEF StatisticIs, Figures
<1>2. V * Span(list) = Total(Distances(list, M)) /\ Total(Distances(list, M)) \in Nat
  <2> HIDE DEF list, M, V
  <2> QED BY <1>1, DistancesTotal
<1>3. VarianceOf(s)
  BY <1>2 DEF VarianceOf, Distances
<1>4. MeanOf(s)
  <2>1. CASE Len(list) = 1
    BY <1>1, <2>1 DEF MeanOf
  <2>2. CASE Len(list) # 1
    BY <1>1, <2>2 DEF MeanOf, HasMean, Means
  <2> QED BY <2>1, <2>2
<1> HIDE DEF list, M, V
<1>5. V \in Nat
  <2>1. CASE Len(list) = 1
    BY <1>1, <2>1
  <2>2. CASE Len(list) # 1
    <3>1. Span(list) \in Nat \ {0}
      BY <1>1, <2>2, LengthsTotal, SamplesAssumption
    <3>2. 0 <= V * Span(list)
      BY <1>2
    <3>3. 0 <= V
      BY <1>1, <3>1, <3>2, SignKept
    <3> QED BY <1>1, <3>3
  <2> QED BY <2>1, <2>2
<1> QED BY <1>3, <1>4, <1>5 DEF V

-----------------------------------------------------------------------------
(* The cache.                                                              *)

(* The cache is in the order of time, and holds nothing too old. *)
InOrder(queue) ==
  \A i, j \in 1..Len(queue) : i <= j => queue[i].stamp <= queue[j].stamp

Young(queue, moment) ==
  \A i \in 1..Len(queue) :
    1 <= queue[i].stamp /\ queue[i].stamp <= moment /\ moment - queue[i].stamp <= MaxAge

(* What the queue holds but samples with the stamp of the one before. *)
FreshOf(queue) ==
  {x \in ToSet(queue) :
     \E i \in 1..Len(queue) : i > 1 /\ queue[i - 1].stamp # queue[i].stamp /\ x = queue[i]}

(* What there is to know of the samples of a queue. *)
LEMMA QueueTyped ==
  ASSUME NEW queue \in Seq(Measured)
  PROVE  /\ Len(queue) \in Nat /\ DOMAIN queue = 1..Len(queue)
         /\ \A i \in 1..Len(queue) : queue[i] \in Measured /\ queue[i].stamp \in Nat
         /\ queue # <<>> => /\ Len(queue) \in 1..Len(queue) /\ 1 \in 1..Len(queue)
                            /\ Last(queue) = queue[Len(queue)] /\ Head(queue) = queue[1]
<1>1. \A m \in Measured : m.stamp \in Nat
  BY DEF Measured
<1>2. Len(queue) \in Nat /\ DOMAIN queue = 1..Len(queue)
      /\ \A i \in 1..Len(queue) : queue[i] \in Measured
  OBVIOUS
<1>3. ASSUME queue # <<>>
      PROVE  /\ Len(queue) \in 1..Len(queue) /\ 1 \in 1..Len(queue)
             /\ Last(queue) = queue[Len(queue)] /\ Head(queue) = queue[1]
  BY <1>3 DEF Last
<1> QED BY <1>1, <1>2, <1>3

(* Pruning finds a first sample that may stay, since the new one may; then *)
(* those behind it may stay too.                                           *)
LEMMA PrunedFrom ==
  ASSUME NEW queue \in Seq(Measured), queue # <<>>
  PROVE  \E k \in 1..Len(queue) :
           /\ Pruned(queue) \in Seq(Measured)
           /\ Len(queue) - k < MaxCount
           /\ queue[Len(queue)].stamp - queue[k].stamp <= MaxAge
           /\ Len(Pruned(queue)) = (Len(queue) - k) + 1
           /\ \A i \in 1..((Len(queue) - k) + 1) :
                /\ k + (i - 1) \in 1..Len(queue) /\ k <= k + (i - 1)
                /\ Pruned(queue)[i] = queue[k + (i - 1)]
<1> DEFINE n == Len(queue)
           stays(i) == n - i < MaxCount /\ Last(queue).stamp - queue[i].stamp <= MaxAge
           first(i) == stays(i) /\ \A j \in 1..(i - 1) : ~stays(j)
           k == CHOOSE i \in DOMAIN queue : first(i)
<1>1. /\ n \in Nat \ {0} /\ DOMAIN queue = 1..n /\ n \in 1..n
      /\ \A i \in 1..n : queue[i] \in Measured /\ queue[i].stamp \in Nat
      /\ Last(queue) = queue[n]
  BY QueueTyped
<1>2. MaxCount \in Nat \ {0} /\ MaxAge \in Nat
  BY SamplesAssumption
<1>3. Pruned(queue) = SubSeq(queue, k, n)
  BY DEF Pruned
<1> HIDE DEF n
<1>4. \E i \in DOMAIN queue : first(i)
  <2> DEFINE S == {i \in DOMAIN queue : stays(i)}
  <2>1. n \in S
    <3>1. queue[n].stamp \in Nat
      BY <1>1
    <3>2. n - n < MaxCount /\ queue[n].stamp - queue[n].stamp <= MaxAge
      BY <1>1, <1>2, <3>1
    <3> QED BY <1>1, <3>2
  <2>2. S \in SUBSET Nat /\ S # {}
    BY <1>1, <2>1
  <2>3. PICK m \in S : \A i \in S : m <= i
    <3> HIDE DEF S
    <3> QED BY <2>2, LeastExists
  <2>4. ASSUME NEW j \in 1..(m - 1) PROVE j \in DOMAIN queue /\ j \notin S
    <3>1. m \in 1..n
      BY <1>1, <2>3
    <3>2. j \in 1..n /\ ~(m <= j)
      BY <1>1, <3>1
    <3> HIDE DEF S
    <3> QED BY <1>1, <2>3, <3>2
  <2>5. first(m)
    BY <2>3, <2>4
  <2> QED BY <2>3, <2>5
<1>5. k \in 1..n /\ stays(k)
  BY <1>1, <1>4
<1> HIDE DEF k
<1>6. /\ SubSeq(queue, k, n) \in Seq(Measured)
      /\ Len(SubSeq(queue, k, n)) = (n - k) + 1
      /\ \A i \in 1..((n - k) + 1) : SubSeq(queue, k, n)[i] = queue[k + (i - 1)]
  BY <1>1, <1>5 DEF n
<1>7. ASSUME NEW i \in 1..((n - k) + 1) PROVE k + (i - 1) \in 1..n /\ k <= k + (i - 1)
  BY <1>1, <1>5
<1>8. queue[n].stamp - queue[k].stamp <= MaxAge /\ n - k < MaxCount
  BY <1>1, <1>5
<1> QED BY <1>3, <1>5, <1>6, <1>7, <1>8 DEF n

(* What pruning keeps of an ordered queue. *)
LEMMA PrunedKeeps ==
  ASSUME NEW queue \in Seq(Measured), queue # <<>>, InOrder(queue),
         \A i \in 1..Len(queue) : 1 <= queue[i].stamp
  PROVE  /\ Pruned(queue) \in Seq(Measured) /\ Pruned(queue) # <<>>
         /\ Len(Pruned(queue)) <= MaxCount
         /\ InOrder(Pruned(queue))
         /\ Young(Pruned(queue), Last(queue).stamp)
         /\ Head(queue).stamp <= Head(Pruned(queue)).stamp
         /\ FreshOf(Pruned(queue)) = {x \in FreshOf(queue) : x.stamp > Head(Pruned(queue)).stamp}
<1> DEFINE n == Len(queue)
           p == Pruned(queue)
<1>1. /\ n \in Nat \ {0} /\ n \in 1..n /\ 1 \in 1..n /\ DOMAIN queue = 1..n
      /\ \A i \in 1..n : queue[i] \in Measured /\ queue[i].stamp \in Nat
      /\ Last(queue) = queue[n] /\ Head(queue) = queue[1]
  BY QueueTyped
<1>2. PICK k \in 1..n :
           /\ p \in Seq(Measured)
           /\ n - k < MaxCount
           /\ queue[n].stamp - queue[k].stamp <= MaxAge
           /\ Len(p) = (n - k) + 1
           /\ \A i \in 1..((n - k) + 1) :
                /\ k + (i - 1) \in 1..n /\ k <= k + (i - 1)
                /\ p[i] = queue[k + (i - 1)]
  BY PrunedFrom
<1>3. \A i, j \in 1..n : i <= j => queue[i].stamp <= queue[j].stamp
  BY DEF InOrder
<1>4. MaxCount \in Nat \ {0} /\ MaxAge \in Nat
  BY SamplesAssumption
<1>5. \A i \in 1..n : 1 <= queue[i].stamp
  OBVIOUS
<1> HIDE DEF n, p
<1> DEFINE len == (n - k) + 1
<1>6. len \in Nat \ {0} /\ 1 \in 1..len /\ k + (1 - 1) = k /\ Len(p) = len
  BY <1>1, <1>2
<1>7. \A i \in 1..len : k + (i - 1) \in 1..n /\ k <= k + (i - 1) /\ p[i] = queue[k + (i - 1)]
  BY <1>2
<1>8. Len(p) <= MaxCount
  BY <1>1, <1>2, <1>4
<1>9. p # <<>> /\ Head(p) = queue[k] /\ DOMAIN p = 1..len
  <2>1. p # <<>>
    BY <1>2, <1>6
  <2>2. Head(p) = p[1] /\ p[1] = queue[k] /\ DOMAIN p = 1..len
    BY <1>2, <1>6, <1>7, <2>1, QueueTyped
  <2> QED BY <2>1, <2>2
<1>10. k + (len - 1) = n
  BY <1>1, <1>2
<1>11. n = k + (n - k) /\ \A i \in 1..n : k <= i => (i - k) + 1 \in 1..len /\ k + (((i - k) + 1) - 1) = i
  BY <1>1, <1>2
<1> HIDE DEF len
<1>12. InOrder(p)
  <2>1. ASSUME NEW i \in 1..len, NEW j \in 1..len, i <= j PROVE p[i].stamp <= p[j].stamp
    <3>1. k + (i - 1) <= k + (j - 1)
      BY <1>6, <2>1
    <3> QED BY <1>3, <1>7, <3>1
  <2> QED BY <1>6, <2>1 DEF InOrder
<1>13. Young(p, Last(queue).stamp)
  <2>1. ASSUME NEW i \in 1..len
        PROVE  /\ 1 <= p[i].stamp /\ p[i].stamp <= queue[n].stamp
               /\ queue[n].stamp - p[i].stamp <= MaxAge
    <3> DEFINE j == k + (i - 1)
    <3>1. j \in 1..n /\ k <= j /\ p[i] = queue[j]
      BY <1>7
    <3> HIDE DEF j
    <3>2. j <= n
      BY <1>1, <3>1
    <3> DEFINE x == queue[k].stamp
               y == queue[j].stamp
               z == queue[n].stamp
    <3>3. x <= y /\ y <= z /\ z - x <= MaxAge /\ 1 <= y
      BY <1>1, <1>2, <1>3, <1>5, <3>1, <3>2
    <3>4. x \in Nat /\ y \in Nat /\ z \in Nat
      BY <1>1, <1>2, <3>1
    <3> HIDE DEF x, y, z
    <3>5. z - y <= MaxAge
      BY <1>4, <3>3, <3>4
    <3> QED BY <3>1, <3>3, <3>5 DEF x, y, z
  <2> QED BY <1>1, <1>6, <2>1 DEF Young
<1>14. Head(queue).stamp <= Head(p).stamp
  <2>1. 1 <= k
    BY <1>2
  <2> QED BY <1>1, <1>2, <1>3, <1>9, <2>1
<1>15. ASSUME NEW x \in FreshOf(p) PROVE x \in FreshOf(queue) /\ x.stamp > Head(p).stamp
  <2>1. PICK i \in 1..len : i > 1 /\ p[i - 1].stamp # p[i].stamp /\ x = p[i]
    BY <1>6 DEF FreshOf
  <2> DEFINE j == k + (i - 1)
  <2>2. i - 1 \in 1..len /\ k + ((i - 1) - 1) = j - 1 /\ j > 1 /\ k <= j - 1
    BY <1>2, <1>6, <2>1, SMTT(30)
  <2>3. /\ j \in 1..n /\ p[i] = queue[j]
        /\ j - 1 \in 1..n /\ p[i - 1] = queue[j - 1]
    BY <1>7, <2>2
  <2> HIDE DEF j
  <2>4. x \in FreshOf(queue)
    <3>1. x \in ToSet(queue)
      BY <1>1, <2>1, <2>3 DEF ToSet
    <3> QED BY <2>1, <2>2, <2>3, <3>1 DEF FreshOf, n
  <2>5. queue[k].stamp <= queue[j - 1].stamp /\ queue[j - 1].stamp <= queue[j].stamp
    <3>1. j - 1 <= j
      BY <2>3
    <3> QED BY <1>2, <1>3, <2>2, <2>3, <3>1
  <2>6. queue[j - 1].stamp # queue[j].stamp
    BY <2>1, <2>3
  <2>7. queue[k].stamp \in Nat /\ queue[j - 1].stamp \in Nat /\ queue[j].stamp \in Nat
    BY <1>1, <1>2, <2>3
  <2>8. queue[j].stamp > queue[k].stamp
    BY <2>5, <2>6, <2>7, SMTT(30)
  <2> QED BY <1>9, <2>1, <2>3, <2>4, <2>8
<1>16. ASSUME NEW x \in FreshOf(queue), x.stamp > Head(p).stamp PROVE x \in FreshOf(p)
  <2>1. PICK j \in 1..n : j > 1 /\ queue[j - 1].stamp # queue[j].stamp /\ x = queue[j]
    BY DEF FreshOf, n
  <2>2. k < j
    <3>1. CASE j <= k
      <4>1. queue[j].stamp <= queue[k].stamp
        BY <1>2, <1>3, <3>1
      <4>2. queue[j].stamp > queue[k].stamp
        BY <1>9, <1>16, <2>1
      <4>3. queue[k].stamp \in Nat /\ queue[j].stamp \in Nat
        BY <1>1, <1>2
      <4> QED BY <4>1, <4>2, <4>3
    <3> QED BY <1>1, <1>2, <3>1
  <2> DEFINE i == (j - k) + 1
  <2>3. j - 1 \in 1..n /\ k <= j - 1 /\ k <= j /\ ((j - 1) - k) + 1 = i - 1 /\ i > 1
    BY <1>1, <1>2, <2>1, <2>2
  <2>4. /\ i \in 1..len /\ k + (i - 1) = j
        /\ i - 1 \in 1..len /\ k + ((i - 1) - 1) = j - 1
    BY <1>11, <2>3
  <2> HIDE DEF i
  <2>5. p[i] = queue[j] /\ p[i - 1] = queue[j - 1]
    BY <1>7, <2>4
  <2>6. x \in ToSet(p)
    BY <1>9, <2>1, <2>4, <2>5 DEF ToSet
  <2> QED BY <1>6, <2>1, <2>3, <2>4, <2>5, <2>6 DEF FreshOf
<1>17. FreshOf(p) = {x \in FreshOf(queue) : x.stamp > Head(p).stamp}
  BY <1>15, <1>16
<1> QED BY <1>2, <1>8, <1>9, <1>12, <1>13, <1>14, <1>17 DEF p

(* A sample that comes in at the end of the queue. *)
LEMMA AppendKeeps ==
  ASSUME NEW queue \in Seq(Measured), InOrder(queue), NEW moment \in Nat, Young(queue, moment),
         NEW v \in Measured, moment <= v.stamp, 1 <= v.stamp
  PROVE  LET q == Append(queue, v)
         IN /\ q \in Seq(Measured) /\ q # <<>> /\ InOrder(q) /\ Last(q) = v
            /\ \A i \in 1..Len(q) : 1 <= q[i].stamp
            /\ queue # <<>> => Head(q) = Head(queue)
            /\ queue = <<>> => FreshOf(q) = {}
            /\ queue # <<>> /\ Last(queue).stamp = v.stamp => FreshOf(q) = FreshOf(queue)
            /\ queue # <<>> /\ Last(queue).stamp # v.stamp => FreshOf(q) = FreshOf(queue) \cup {v}
<1> DEFINE n == Len(queue)
           q == Append(queue, v)
<1>1. /\ n \in Nat /\ DOMAIN queue = 1..n
      /\ \A i \in 1..n : queue[i] \in Measured /\ queue[i].stamp \in Nat
      /\ queue # <<>> => /\ n \in 1..n /\ 1 \in 1..n
                         /\ Last(queue) = queue[n] /\ Head(queue) = queue[1]
      /\ queue = <<>> <=> n = 0
  BY QueueTyped
<1>2. /\ q \in Seq(Measured) /\ Len(q) = n + 1 /\ q[n + 1] = v /\ DOMAIN q = 1..(n + 1)
      /\ \A i \in 1..n : q[i] = queue[i]
  OBVIOUS
<1>3. v.stamp \in Nat
  BY DEF Measured
<1>4. \A i \in 1..n : 1 <= queue[i].stamp /\ queue[i].stamp <= moment
  BY DEF Young
<1>5. \A i, j \in 1..n : i <= j => queue[i].stamp <= queue[j].stamp
  BY DEF InOrder
<1> HIDE DEF n, q
<1>6. q # <<>>
  BY <1>1, <1>2
<1>7. Last(q) = v /\ (queue # <<>> => Head(q) = Head(queue))
  <2>1. Last(q) = q[n + 1] /\ Head(q) = q[1]
    BY <1>2, <1>6, QueueTyped
  <2> QED BY <1>1, <1>2, <2>1
<1>8. \A i \in 1..(n + 1) : 1 <= q[i].stamp
  <2>1. ASSUME NEW i \in 1..(n + 1) PROVE 1 <= q[i].stamp
    <3>1. CASE i \in 1..n
      BY <1>2, <1>4, <3>1
    <3>2. CASE i = n + 1
      BY <1>2, <3>2
    <3> QED BY <1>1, <3>1, <3>2
  <2> QED BY <2>1
<1>9. InOrder(q)
  <2>1. ASSUME NEW i \in 1..(n + 1), NEW j \in 1..(n + 1), i <= j PROVE q[i].stamp <= q[j].stamp
    <3>1. CASE j \in 1..n
      <4>1. i \in 1..n
        BY <1>1, <2>1, <3>1
      <4> QED BY <1>2, <1>5, <2>1, <3>1, <4>1
    <3>2. CASE j = n + 1
      <4>1. CASE i \in 1..n
        <5>1. queue[i].stamp \in Nat /\ queue[i].stamp <= moment
          BY <1>1, <1>4, <4>1
        <5>2. queue[i].stamp <= v.stamp
          BY <1>3, <5>1
        <5> QED BY <1>2, <3>2, <4>1, <5>2
      <4>2. CASE i = n + 1
        BY <1>2, <1>3, <3>2, <4>2
      <4> QED BY <1>1, <4>1, <4>2
    <3> QED BY <1>1, <3>1, <3>2
  <2> QED BY <1>2, <2>1 DEF InOrder
<1>10. ASSUME NEW x \in FreshOf(queue) PROVE x \in FreshOf(q)
  <2>1. PICK i \in 1..n : i > 1 /\ queue[i - 1].stamp # queue[i].stamp /\ x = queue[i]
    BY DEF FreshOf, n
  <2>2. i - 1 \in 1..n /\ i \in 1..(n + 1)
    BY <1>1, <2>1
  <2>3. x = q[i] /\ q[i - 1].stamp # q[i].stamp
    BY <1>2, <2>1, <2>2
  <2>4. x \in ToSet(q)
    BY <1>2, <2>2, <2>3 DEF ToSet
  <2> QED BY <1>2, <2>1, <2>2, <2>3, <2>4 DEF FreshOf
<1>11. ASSUME NEW x \in FreshOf(q)
       PROVE  x \in FreshOf(queue) \/ (x = v /\ queue # <<>> /\ Last(queue).stamp # v.stamp)
  <2>1. PICK i \in 1..(n + 1) : i > 1 /\ q[i - 1].stamp # q[i].stamp /\ x = q[i]
    BY <1>2 DEF FreshOf
  <2>2. CASE i \in 1..n
    <3>1. i - 1 \in 1..n
      BY <1>1, <2>1, <2>2
    <3>2. x = queue[i] /\ queue[i - 1].stamp # queue[i].stamp
      BY <1>2, <2>1, <2>2, <3>1
    <3>3. x \in ToSet(queue)
      BY <1>1, <2>2, <3>2 DEF ToSet
    <3> QED BY <2>1, <2>2, <3>2, <3>3 DEF FreshOf, n
  <2>3. CASE i = n + 1
    <3>1. i - 1 = n /\ n \in 1..n /\ queue # <<>>
      BY <1>1, <2>1, <2>3
    <3> QED BY <1>1, <1>2, <2>1, <2>3, <3>1
  <2> QED BY <1>1, <2>2, <2>3
<1>12. ASSUME queue # <<>>, Last(queue).stamp # v.stamp PROVE v \in FreshOf(q)
  <2>1. n \in 1..n /\ n + 1 \in 1..(n + 1) /\ n + 1 > 1 /\ (n + 1) - 1 = n
    BY <1>1, <1>12
  <2>2. q[(n + 1) - 1].stamp # q[n + 1].stamp
    BY <1>1, <1>2, <1>12, <2>1
  <2>3. v \in ToSet(q)
    BY <1>2, <2>1 DEF ToSet
  <2> QED BY <1>2, <2>1, <2>2, <2>3 DEF FreshOf
<1>13. queue = <<>> => FreshOf(q) = {}
  <2>1. queue = <<>> => FreshOf(queue) = {}
    BY <1>1 DEF FreshOf, ToSet
  <2> QED BY <1>11, <2>1
<1>14. queue # <<>> /\ Last(queue).stamp = v.stamp => FreshOf(q) = FreshOf(queue)
  BY <1>10, <1>11
<1>15. queue # <<>> /\ Last(queue).stamp # v.stamp => FreshOf(q) = FreshOf(queue) \cup {v}
  BY <1>10, <1>11, <1>12
<1> QED BY <1>2, <1>6, <1>7, <1>8, <1>9, <1>13, <1>14, <1>15 DEF q

-----------------------------------------------------------------------------
(* The cache and the statistic, of which the one has what the other has of *)
(* the last Period.                                                        *)

Agree(queue, list, moment) ==
  {x \in ToSet(list) : x.stamp > Head(queue).stamp} = {x \in FreshOf(queue) : Recent(x, moment)}

StatisticPart ==
  /\ now \in Nat \ {0}
  /\ processor \in {"statistics", "acceleration_history"}
  /\ TellsAt(statistic, now)
  /\ cache \in Seq(Measured) /\ Len(cache) <= MaxCount
  /\ InOrder(cache) /\ Young(cache, now)
  /\ processor = "acceleration_history" => cache = <<>>
  /\ cache = <<>> <=> statistic.list = <<>>
  /\ cache # <<>> => Last(cache).stamp = now /\ Agree(cache, statistic.list, now)

(* A sample comes in, and they agree again. *)
LEMMA InsertAgrees ==
  ASSUME NEW queue \in Seq(Measured), InOrder(queue), NEW t \in Nat, Young(queue, t),
         NEW s, TellsAt(s, t), queue = <<>> <=> s.list = <<>>,
         queue # <<>> => Last(queue).stamp = t /\ Agree(queue, s.list, t),
         NEW v \in Measured, 1 <= v.stamp, t <= v.stamp, v.stamp <= MaxTime
  PROVE  LET p == Pruned(Append(queue, v))
             r == StatisticWith(s, v)
         IN /\ p \in Seq(Measured) /\ p # <<>> /\ Len(p) <= MaxCount /\ InOrder(p)
            /\ Young(p, v.stamp) /\ r.list # <<>> /\ TellsAt(r, v.stamp)
            /\ Last(p).stamp = v.stamp /\ Agree(p, r.list, v.stamp)
<1> DEFINE q == Append(queue, v)
           p == Pruned(q)
           r == StatisticWith(s, v)
<1>1. /\ q \in Seq(Measured) /\ q # <<>> /\ InOrder(q) /\ Last(q) = v
      /\ \A i \in 1..Len(q) : 1 <= q[i].stamp
      /\ queue # <<>> => Head(q) = Head(queue)
      /\ queue = <<>> => FreshOf(q) = {}
      /\ queue # <<>> /\ Last(queue).stamp = v.stamp => FreshOf(q) = FreshOf(queue)
      /\ queue # <<>> /\ Last(queue).stamp # v.stamp => FreshOf(q) = FreshOf(queue) \cup {v}
  BY AppendKeeps
<1> HIDE DEF q
<1>2. /\ p \in Seq(Measured) /\ p # <<>> /\ Len(p) <= MaxCount /\ InOrder(p)
      /\ Young(p, v.stamp) /\ Head(q).stamp <= Head(p).stamp
      /\ FreshOf(p) = {x \in FreshOf(q) : x.stamp > Head(p).stamp}
  BY <1>1, PrunedKeeps
<1>3. TellsAt(r, v.stamp) /\ Follows(s, r, v) /\ r.list # <<>>
  BY StatisticWithTells
<1> HIDE DEF p, r
<1>4. v.stamp \in Nat /\ \A m \in Measured : m.stamp \in Nat
  BY DEF Measured
<1>5. Head(p).stamp \in Nat
  <2>1. Head(p) = p[1] /\ 1 \in 1..Len(p)
    BY <1>2, QueueTyped
  <2> QED BY <1>2, <2>1, QueueTyped
<1>6. ASSUME queue = <<>> PROVE Agree(p, r.list, v.stamp)
  <2>1. q = <<v>> /\ s.list = <<>>
    BY <1>6 DEF q
  <2>2. ToSet(r.list) = {v}
    BY <1>3, <2>1 DEF Follows
  <2>3. FreshOf(p) = {}
    BY <1>1, <1>2, <1>6
  <2>4. Head(q) = v
    BY <2>1
  <2>5. ~(v.stamp > Head(p).stamp)
    BY <1>2, <1>4, <1>5, <2>4
  <2>6. \A x \in ToSet(r.list) : ~(x.stamp > Head(p).stamp)
    BY <2>2, <2>5
  <2> QED BY <2>3, <2>6 DEF Agree
<1>7. ASSUME queue # <<>> PROVE Agree(p, r.list, v.stamp)
  <2>1. /\ Last(queue).stamp = t /\ s.list # <<>> /\ Head(q) = Head(queue)
        /\ {x \in ToSet(s.list) : x.stamp > Head(queue).stamp} = {x \in FreshOf(queue) : Recent(x, t)}
    BY <1>1, <1>7 DEF Agree
  <2>2. Last(s.list).stamp = t /\ \A x \in ToSet(s.list) : Recent(x, t)
    BY <2>1 DEF TellsAt
  <2>3. Head(queue).stamp \in Nat /\ Head(queue).stamp <= Head(p).stamp
    <3>1. Head(queue) = queue[1] /\ 1 \in 1..Len(queue)
      BY <1>7, QueueTyped
    <3> QED BY <1>2, <2>1, <3>1, QueueTyped
  <2>4. Window(s.list)
    BY <2>1 DEF TellsAt, StatisticIs
  <2>5. \A x \in ToSet(s.list) : x.stamp \in Nat
    BY <2>4, WindowSet
  <2>6. \A x \in FreshOf(queue) : x.stamp \in Nat
    <3>1. \A x \in ToSet(queue) : x \in Measured
      BY QueueTyped DEF ToSet
    <3> QED BY <1>4, <3>1 DEF FreshOf
  <2>7. \A x \in ToSet(s.list) : x.stamp > Head(p).stamp => x \in FreshOf(queue)
    <3>1. ASSUME NEW x \in ToSet(s.list), x.stamp > Head(p).stamp PROVE x \in FreshOf(queue)
      <4>1. x.stamp > Head(queue).stamp
        BY <1>5, <2>3, <2>5, <3>1
      <4> QED BY <2>1, <4>1
    <3> QED BY <3>1
  <2>8. \A x \in FreshOf(queue) : Recent(x, t) => x \in ToSet(s.list)
    BY <2>1
  <2>9. CASE v.stamp = t
    <3>1. r = s /\ FreshOf(q) = FreshOf(queue)
      BY <1>1, <1>3, <1>7, <2>1, <2>2, <2>9 DEF Follows
    <3>2. ASSUME NEW x \in ToSet(r.list), x.stamp > Head(p).stamp
          PROVE  x \in FreshOf(p) /\ Recent(x, v.stamp)
      BY <1>2, <2>2, <2>7, <2>9, <3>1, <3>2
    <3>3. ASSUME NEW x \in FreshOf(p), Recent(x, v.stamp)
          PROVE  x \in ToSet(r.list) /\ x.stamp > Head(p).stamp
      BY <1>2, <2>8, <2>9, <3>1, <3>3
    <3>4. \A x : (x \in ToSet(r.list) /\ x.stamp > Head(p).stamp)
                   <=> (x \in FreshOf(p) /\ Recent(x, v.stamp))
      BY <3>2, <3>3
    <3> QED BY <3>4 DEF Agree
  <2>10. CASE v.stamp # t
    <3>1. /\ ToSet(r.list) = {x \in ToSet(s.list) \cup {v} : Recent(x, v.stamp)}
          /\ FreshOf(q) = FreshOf(queue) \cup {v}
      BY <1>1, <1>3, <1>7, <2>1, <2>2, <2>10 DEF Follows
    <3>2. ASSUME NEW x \in FreshOf(queue), Recent(x, v.stamp) PROVE x \in ToSet(s.list)
      <4>1. x.stamp \in Nat
        BY <2>6
      <4>2. v.stamp - x.stamp <= Period
        BY <3>2 DEF Recent
      <4>3. t - x.stamp <= Period
        BY <1>4, <4>1, <4>2, StatisticsAssumption
      <4>4. Recent(x, t)
        BY <4>3 DEF Recent
      <4> QED BY <2>8, <4>4
    <3>3. ASSUME NEW x \in ToSet(r.list), x.stamp > Head(p).stamp
          PROVE  x \in FreshOf(p) /\ Recent(x, v.stamp)
      BY <1>2, <2>7, <3>1, <3>3
    <3>4. ASSUME NEW x \in FreshOf(p), Recent(x, v.stamp)
          PROVE  x \in ToSet(r.list) /\ x.stamp > Head(p).stamp
      BY <1>2, <3>1, <3>2, <3>4
    <3>5. \A x : (x \in ToSet(r.list) /\ x.stamp > Head(p).stamp)
                   <=> (x \in FreshOf(p) /\ Recent(x, v.stamp))
      BY <3>3, <3>4
    <3> QED BY <3>5 DEF Agree
  <2> QED BY <2>9, <2>10
<1>8. Agree(p, r.list, v.stamp)
  BY <1>6, <1>7
<1>9. Last(p).stamp = v.stamp
  <2>1. PICK k \in 1..Len(q) :
           /\ Len(p) = (Len(q) - k) + 1
           /\ \A i \in 1..((Len(q) - k) + 1) : p[i] = q[k + (i - 1)]
    BY <1>1, PrunedFrom DEF p
  <2>2. Last(p) = p[Len(p)] /\ Last(q) = q[Len(q)] /\ Len(q) \in Nat
    BY <1>1, <1>2, QueueTyped
  <2>3. Len(p) \in 1..((Len(q) - k) + 1) /\ k + (Len(p) - 1) = Len(q)
    BY <2>1, <2>2
  <2> QED BY <1>1, <2>1, <2>2, <2>3
<1> QED BY <1>2, <1>3, <1>8, <1>9 DEF p, q, r

(* A statistic of nothing tells at any time. *)
LEMMA NothingTells == ASSUME NEW t \in Nat PROVE TellsAt(NoStatistic, t)
<1>1. NoStatistic = [list |-> <<>>, time |-> 0, n |-> 0, mean |-> 0, variance |-> 0]
  BY DEF NoStatistic
<1>2. <<>> \in Seq(Measured) /\ Len(<<>>) = 0
  OBVIOUS
<1>3. NoStatistic \in Figures
  BY <1>1, <1>2 DEF Figures
<1>4. NoStatistic.list = <<>> /\ NoStatistic.n = 0 /\ NoStatistic.time \in 0..t
  BY <1>1
<1> QED BY <1>2, <1>3, <1>4 DEF TellsAt

(* At first there is nothing to tell. *)
LEMMA InitStatisticPart == Init => StatisticPart
<1> SUFFICES ASSUME Init PROVE StatisticPart OBVIOUS
<1>1. /\ now = 1 /\ cache = <<>> /\ statistic = NoStatistic
      /\ processor \in {"statistics", "acceleration_history"}
  BY DEF Init
<1>2. TellsAt(statistic, now) /\ statistic.list = <<>>
  BY <1>1, NothingTells DEF NoStatistic
<1>3. Len(cache) <= MaxCount /\ cache \in Seq(Measured) /\ Len(cache) = 0
  BY <1>1, SamplesAssumption
<1>4. InOrder(cache) /\ Young(cache, now)
  BY <1>3 DEF InOrder, Young
<1> QED BY <1>1, <1>2, <1>3, <1>4 DEF StatisticPart

(* Every step keeps what is known of the cache and the statistic. *)
LEMMA NextStatisticPart == StatisticPart /\ [Next]_vars => StatisticPart'
<1> SUFFICES ASSUME StatisticPart, [Next]_vars PROVE StatisticPart' OBVIOUS
<1>1. /\ now \in Nat \ {0}
      /\ processor \in {"statistics", "acceleration_history"}
      /\ TellsAt(statistic, now)
      /\ cache \in Seq(Measured) /\ Len(cache) <= MaxCount
      /\ InOrder(cache) /\ Young(cache, now)
      /\ processor = "acceleration_history" => cache = <<>>
      /\ cache = <<>> <=> statistic.list = <<>>
      /\ cache # <<>> => Last(cache).stamp = now /\ Agree(cache, statistic.list, now)
  BY DEF StatisticPart
<1>2. CASE UNCHANGED vars
  <2>1. now' = now /\ processor' = processor /\ statistic' = statistic /\ cache' = cache
    BY <1>2 DEF vars
  <2> QED BY <1>1, <2>1 DEF StatisticPart
<1>3. CASE InsertValue
  <2>1. /\ now' \in Nat \ {0} /\ now <= now' /\ now' <= MaxTime
        /\ processor' = "statistics"
    BY <1>1, <1>3, TimeGoesOn DEF InsertValue
  <2>2. PICK x \in Readings :
          /\ cache' = Pruned(Append(cache, Stamped(x)))
          /\ statistic' = StatisticWith(statistic, Stamped(x))
    BY <1>3 DEF InsertValue
  <2> DEFINE v == Stamped(x)
  <2>3. v \in Measured /\ v.stamp = now'
    BY <2>1 DEF Stamped, Measured
  <2> HIDE DEF v
  <2>4. cache' = Pruned(Append(cache, v)) /\ statistic' = StatisticWith(statistic, v)
    BY <2>2 DEF v
  <2>5. 1 <= v.stamp /\ now <= v.stamp /\ v.stamp <= MaxTime /\ now \in Nat
    BY <1>1, <2>1, <2>3
  <2>6. /\ cache' \in Seq(Measured) /\ cache' # <<>> /\ Len(cache') <= MaxCount /\ InOrder(cache')
        /\ Young(cache', now') /\ statistic'.list # <<>> /\ TellsAt(statistic', now')
        /\ Last(cache').stamp = now' /\ Agree(cache', statistic'.list, now')
    BY <1>1, <2>3, <2>4, <2>5, InsertAgrees
  <2> QED BY <2>1, <2>6 DEF StatisticPart
<1>4. CASE InsertAcceleration \/ InsertComponent
  <2>1. /\ processor = "acceleration_history" /\ TimePasses
        /\ cache' = cache /\ statistic' = statistic
    BY <1>4 DEF InsertAcceleration, InsertComponent
  <2>2. now' \in Nat \ {0} /\ processor' = processor
    BY <1>1, <2>1, TimeGoesOn
  <2>3. cache = <<>> /\ statistic.list = <<>>
    BY <1>1, <2>1
  <2>4. statistic = NoStatistic
    BY <1>1, <2>3 DEF TellsAt
  <2>5. TellsAt(statistic', now')
    BY <2>1, <2>2, <2>4, NothingTells
  <2>6. Young(cache', now') /\ InOrder(cache')
    BY <2>1, <2>3 DEF Young, InOrder
  <2> QED BY <1>1, <2>1, <2>2, <2>3, <2>5, <2>6 DEF StatisticPart
<1> QED BY <1>2, <1>3, <1>4 DEF Next

(* The inductive invariant of the cache and the statistic. *)
LEMMA StatisticPartHolds == Spec => []StatisticPart
<1>1. StatisticPart /\ [Next]_vars => StatisticPart'
  BY NextStatisticPart
<1> QED BY <1>1, InitStatisticPart, PTL DEF Spec

-----------------------------------------------------------------------------
(* A sequence of measured samples is one of samples. *)
LEMMA MeasuredAreSamples == ASSUME NEW queue \in Seq(Measured) PROVE queue \in Seq(Samples)
<1>1. \A m \in Measured : m \in Samples
  <2>1. Readings \subseteq Int
    BY SamplesAssumption
  <2> QED BY <2>1 DEF Measured, Samples
<1>2. \A i \in 1..Len(queue) : queue[i] \in Samples
  BY <1>1
<1> QED BY <1>2

(* The types of the variables, and the figures that must not be negative  *)
(* or beyond the circle.                                                  *)
THEOREM TypeCorrect == Spec => []TypeOK
<1>1. StatisticPart /\ HistoryPart => TypeOK
  <2> SUFFICES ASSUME StatisticPart, HistoryPart PROVE TypeOK OBVIOUS
  <2>1. /\ now \in Nat /\ processor \in {"statistics", "acceleration_history"}
        /\ TellsAt(statistic, now) /\ cache \in Seq(Measured)
    BY DEF StatisticPart
  <2>2. cache \in Seq(Samples)
    BY <2>1, MeasuredAreSamples
  <2>3. /\ statistic \in Figures /\ statistic.time \in 0..now
        /\ statistic.n = Len(statistic.list)
    BY <2>1 DEF TellsAt
  <2>4. statistic.list \in Seq(Samples)
    <3>1. statistic.list \in Seq(Measured)
      BY <2>3 DEF Figures
    <3> QED BY <3>1, MeasuredAreSamples
  <2>5. statistic.variance \in Nat /\ (Circle = 0 \/ statistic.mean \in 0..(Circle - 1))
    <3>1. CASE statistic.list = <<>>
      <4>1. statistic.variance = 0 /\ statistic.mean = 0
        BY <2>1, <3>1 DEF TellsAt, NoStatistic
      <4> QED BY <4>1, StatisticsAssumption
    <3>2. CASE statistic.list # <<>>
      <4>1. StatisticIs(statistic)
        BY <2>1, <3>2 DEF TellsAt
      <4>2. statistic.mean \in Nat /\ (Circle # 0 => 2 * statistic.mean < Circle)
        BY <4>1 DEF StatisticIs, Near
      <4>3. Circle = 0 \/ statistic.mean \in 0..(Circle - 1)
        BY <4>2, StatisticsAssumption
      <4> QED BY <4>1, <4>3, FiguresMean
    <3> QED BY <3>1, <3>2
  <2>6. history.fa \in [Direction -> Samples] /\ Len(history.peaks) <= ItemCount
        /\ lone \in BOOLEAN
    BY DEF HistoryPart, HistoryInv, Histories
  <2> QED BY <2>1, <2>2, <2>3, <2>4, <2>5, <2>6 DEF TypeOK
<1> QED BY <1>1, StatisticPartHolds, HistoryPartHolds, PTL

(* The cache never exceeds its count and holds nothing too old, however    *)
(* irregularly samples come (device.h:255-285).                            *)
THEOREM CacheIsBounded == Spec => []CacheBounded
<1>1. StatisticPart => CacheBounded
  <2> SUFFICES ASSUME StatisticPart PROVE CacheBounded OBVIOUS
  <2>1. DOMAIN cache = 1..Len(cache)
    BY QueueTyped DEF StatisticPart
  <2> QED BY <2>1 DEF StatisticPart, Young, CacheBounded
<1> QED BY <1>1, StatisticPartHolds, PTL

(* However many samples came in and expired since (statistics.h:57-136),   *)
(* the mean and the variance of a statistic are those of the samples in    *)
(* its window, and the window is what the cache (device.h:255-285) holds   *)
(* of the last Period.                                                     *)
THEOREM StatisticIsRight == Spec => []StatisticTells
<1>1. StatisticPart => SummaryOfWindow
  <2> SUFFICES ASSUME StatisticPart, statistic.list # <<>>
               PROVE  MeanOf(statistic) /\ VarianceOf(statistic)
    BY DEF SummaryOfWindow
  <2>1. StatisticIs(statistic)
    BY DEF StatisticPart, TellsAt
  <2> QED BY <2>1, FiguresMean
<1>2. StatisticPart => WindowIsCached
  <2> SUFFICES ASSUME StatisticPart, statistic.list # <<>> PROVE WindowIsCached
    BY DEF WindowIsCached
  <2> DEFINE list == statistic.list
             fresh == {i \in DOMAIN cache : i > 1 /\ cache[i - 1].stamp # cache[i].stamp}
             recent(v) == now - v.stamp <= Period
  <2>1. /\ StatisticIs(statistic) /\ Window(list) /\ \A x \in ToSet(list) : Recent(x, now)
        /\ Agree(cache, list, now) /\ cache \in Seq(Measured)
    BY DEF StatisticPart, TellsAt, StatisticIs
  <2>2. DOMAIN cache = 1..Len(cache) /\ DOMAIN list = 1..Len(list)
    BY <2>1, QueueTyped, WindowTyped
  <2>3. {v \in {cache[i] : i \in fresh} : recent(v)} = {x \in FreshOf(cache) : Recent(x, now)}
    <3>1. {cache[i] : i \in fresh} = FreshOf(cache)
      BY <2>2 DEF FreshOf, ToSet
    <3> HIDE DEF fresh
    <3> QED BY <3>1 DEF Recent
  <2>4. {v \in ToSet(list) : v.stamp > Head(cache).stamp} = {v \in {cache[i] : i \in fresh} : recent(v)}
    BY <2>1, <2>3 DEF Agree
  <2>5. ASSUME NEW i \in DOMAIN list
        PROVE  recent(list[i]) /\ (i > 1 => list[i - 1].stamp < list[i].stamp)
    <3>1. list[i] \in ToSet(list)
      BY DEF ToSet
    <3>2. recent(list[i])
      BY <2>1, <3>1 DEF Recent
    <3>3. ASSUME i > 1 PROVE list[i - 1].stamp < list[i].stamp
      <4>1. i \in 1..Len(list) /\ Len(list) \in Nat
        BY <2>1, <2>2, WindowTyped
      <4>2. i - 1 \in 1..Len(list) /\ i - 1 < i
        BY <3>3, <4>1
      <4> QED BY <2>1, <4>1, <4>2 DEF Window
    <3> QED BY <3>2, <3>3
  <2> QED BY <2>4, <2>5 DEF WindowIsCached
<1>3. StatisticPart /\ CacheBounded => StatisticTells
  BY <1>1, <1>2 DEF StatisticTells
<1> QED BY <1>3, StatisticPartHolds, CacheIsBounded, PTL
=============================================================================
