----------------------------- MODULE Statistics -----------------------------
(***************************************************************************)
(* The statistics processor (processors/statistics.h): the time-weighted   *)
(* mean and variance of the samples of one quantity over the last Period,  *)
(* maintained by adding the newest sample and taking away expired ones.    *)
(*                                                                         *)
(* A statistic s has the list of samples in its window next to the fields  *)
(* of struct Statistic.  Values and the mean are integers in units of      *)
(* 1/Scale, variances in units of 1/Scale^2; Scale is a multiple of twice  *)
(* every span that occurs, so that each division below is exact as long    *)
(* as no difference wraps round the circle.                                *)
(***************************************************************************)
EXTENDS Integers, SequencesExt, Sums

CONSTANTS
  Period,   (* period_                                                       *)
  Circle,   (* 2 * M_PI for an angle such as hdg, 0 for a plain quantity     *)
  Scale     (* the units of a value                                          *)

ASSUME StatisticsAssumption ==
  /\ Period \in Nat \ {0}
  /\ Circle \in Nat
  /\ Circle % 2 = 0
  /\ Scale \in Nat \ {0}

Sqr(x) == x * x

(* The representative of x in [low, low + Circle). *)
Wrapped(x, low) == IF Circle = 0 THEN x ELSE low + ((x - low) % Circle)

value_norm(x) == Wrapped(x, 0)

value_diff(x, y) == Wrapped(x - y, -(Circle \div 2))

NoStatistic == [list |-> <<>>, time |-> 0, n |-> 0, mean |-> 0, variance |-> 0]

Span(list) == Last(list).stamp - Head(list).stamp

(* The mean over the interval that ends (or begins) with sample v, the     *)
(* other end being w.                                                      *)
Halfway(v, w) == value_norm(v.value - value_diff(v.value, w.value) \div 2)

-----------------------------------------------------------------------------

(* Mutant: a restart leaves the number of samples alone. *)
RestartedKeepsCount(s, v) == [s EXCEPT !.list = <<v>>, !.mean = v.value, !.variance = 0]

(* The statistic of one sample.  Its time of reception is left alone. *)
Restarted(s, v) ==
  [s EXCEPT !.list = <<v>>, !.n = 1, !.mean = v.value, !.variance = 0]

(* Mutant: the variance is not corrected for the shift of the mean. *)
AddedWithoutShift(s, v) ==
  LET span == Span(s.list)
      interval == v.stamp - Last(s.list).stamp
      avg == Halfway(v, Last(s.list))
      mean == value_norm(s.mean + (value_diff(avg, s.mean) * interval) \div (interval + span))
  IN [s EXCEPT !.list = Append(@, v),
               !.mean = mean,
               !.variance = (span * @ + interval * Sqr(value_diff(avg, mean)))
                              \div (span + interval)]

Added(s, v) ==
  LET span == Span(s.list)
      interval == v.stamp - Last(s.list).stamp
      avg == Halfway(v, Last(s.list))
      mean == value_norm(s.mean + (value_diff(avg, s.mean) * interval) \div (interval + span))
  IN [s EXCEPT !.list = Append(@, v),
               !.mean = mean,
               !.variance = (span * (@ + Sqr(value_diff(s.mean, mean)))
                               + interval * Sqr(value_diff(avg, mean)))
                              \div (span + interval)]

(* The oldest sample has expired.  When the newest one is all that is left *)
(* the statistic starts again.                                             *)
Removed(s) ==
  LET popped == Head(s.list)
      list == Tail(s.list)
      span == Span(list)
      interval == Head(list).stamp - popped.stamp
      diff == value_diff(Halfway(popped, Head(list)), s.mean)
      mean == value_norm(s.mean - (diff * interval) \div span)
  IN IF Len(list) = 1
     THEN Restarted(s, Last(list))
     ELSE [s EXCEPT !.list = list,
                    !.mean = mean,
                    !.variance = ((span + interval) * @ - interval * Sqr(diff)) \div span
                                   - Sqr(value_diff(s.mean, mean))]

(* The loop that drops samples that have expired when v comes in: what is  *)
(* left of s after each turn.                                              *)
Dropping(s, v) ==
  LET left[i \in 0..Len(s.list)] ==
        IF i = 0 THEN s
        ELSE LET t == left[i - 1]
             IN IF v.stamp - Head(t.list).stamp > Period THEN Removed(t) ELSE t
  IN left

(* If the loop ended in a restart, n and time are not set again.           *)
Trimmed(s, v) ==
  LET trimmed == Dropping(s, v)[Len(s.list)]
  IN IF Len(trimmed.list) = 1
     THEN trimmed
     ELSE [trimmed EXCEPT !.n = Len(trimmed.list), !.time = v.stamp]

(* Statistics::insert_value.  Sample times must increase strictly. *)
StatisticWith(s, v) ==
  IF s.list = <<>> THEN Restarted(s, v)
  ELSE IF v.stamp <= Last(s.list).stamp THEN s
  ELSE Trimmed(Added(s, v), v)

-----------------------------------------------------------------------------

(* The intervals between successive samples of a list: how long each is,   *)
(* and its mean for a quantity that is no angle.                           *)
Intervals(list) == 1..(Len(list) - 1)
Duration(list, i) == list[i + 1].stamp - list[i].stamp
Average(list, i) == (list[i].value + list[i + 1].value) \div 2

(* The mean field is the mean of the samples in the window: the single     *)
(* sample of a new statistic, and otherwise the average of the intervals'  *)
(* means, weighted with their lengths, for a quantity that is no angle.    *)
MeanOf(s) ==
  IF Len(s.list) = 1
  THEN s.mean = s.list[1].value
  ELSE s.mean * Span(s.list) =
         Total([i \in Intervals(s.list) |-> Duration(s.list, i) * Average(s.list, i)])

(* The variance field is the weighted mean of the squared distances of the *)
(* intervals' means to the mean.                                           *)
VarianceOf(s) ==
  s.variance * Span(s.list) =
    Total([i \in Intervals(s.list) |-> Duration(s.list, i) * Sqr(Average(s.list, i) - s.mean)])
=============================================================================
