------------------------------ MODULE Samples ------------------------------
(***************************************************************************)
(* What becomes of a sample (Device::insert_value, device.h): it goes into *)
(* the device's cache, to each processor of the device, and the cache is   *)
(* pruned.  A packet's samples are inserted one after the other without a  *)
(* suspension, so that delivering a packet is one step.                    *)
(*                                                                         *)
(* The device has either a statistics or an acceleration history           *)
(* processor: processors do not see each other.  Quantities do not either, *)
(* but for the components of an acceleration: the cache and the statistic  *)
(* are those of one other quantity.  Time is in steps of the application's *)
(* clock, which begins long after 0.                                       *)
(***************************************************************************)
EXTENDS Statistics, AccelerationHistory

CONSTANTS
  Readings,   (* of the one quantity that is no acceleration, times Scale    *)
  Fax, Fay,   (* of the components of the acceleration                       *)
  MaxCount,   (* samples of a quantity in the cache: 0x40000                 *)
  MaxAge,     (* age of a sample in the cache: 3600 seconds                  *)
  Steps,      (* time between two packets                                    *)
  MaxTime,    (* bound on the time in the model                              *)
  MaxRun      (* bound on the moments of one run of large accelerations      *)

ASSUME SamplesAssumption ==
  /\ Readings \subseteq Nat /\ Fax \subseteq Int /\ Fay \subseteq Int
  /\ MaxCount \in Nat \ {0} /\ MaxAge \in Nat
  /\ Steps \subseteq Nat /\ MaxTime \in Nat

(* What makes the figures of the model exact: no span is longer than the   *)
(* model's time, readings are less than half a circle apart, and the       *)
(* lengths of accelerations are whole.                                     *)
ASSUME FiguresAssumption ==
  /\ \A d \in 1..(MaxTime - 1) : Scale % (2 * d) = 0 /\ Unit % d = 0
  /\ \A x \in Readings : x % Scale = 0 /\ (Circle # 0 => 2 * x < Circle)
  /\ \A x \in Fax \cup {0}, y \in Fay \cup {0} :
        \E r \in 0..(x * x + y * y) : r * r = x * x + y * y

VARIABLES
  processor,  (* the kind of processor the device has                        *)
  now,        (* Clock::value_, the time of the last packet                  *)
  cache,      (* Device::data_ of the one quantity                           *)
  statistic,  (* of the one quantity in a statistics processor               *)
  history,    (* an acceleration history processor                           *)
  lone        (* history variable: a packet had only one of fax and fay      *)

vars == <<processor, now, cache, statistic, history, lone>>

Samples == [value : Int, stamp : Nat]

TypeOK ==
  /\ processor \in {"statistics", "acceleration_history"}
  /\ now \in Nat
  /\ cache \in Seq(Samples)
  /\ statistic.list \in Seq(Samples)
  /\ statistic.time \in 0..now
  /\ statistic.n = Len(statistic.list)
  /\ statistic.variance \in Nat
  /\ Circle = 0 \/ statistic.mean \in 0..(Circle - 1)
  /\ history.fa \in [Direction -> Samples]
  /\ Len(history.peaks) <= ItemCount
  /\ lone \in BOOLEAN

Init ==
  /\ processor \in {"statistics", "acceleration_history"}
  /\ now = 1
  /\ cache = <<>>
  /\ statistic = NoStatistic
  /\ history = NoHistory
  /\ lone = FALSE

-----------------------------------------------------------------------------

(* The samples from the first one on that may stay. *)
Pruned(queue) ==
  LET stays(i) == Len(queue) - i < MaxCount /\ Last(queue).stamp - queue[i].stamp <= MaxAge
  IN SubSeq(queue, CHOOSE i \in DOMAIN queue : stays(i) /\ \A j \in 1..(i - 1) : ~stays(j),
            Len(queue))

Stamped(x) == [value |-> x, stamp |-> now']

(* The clock never goes back.  It stands still between packets that come   *)
(* together, and while it waits for a time it was adjusted back from.      *)
TimePasses ==
  /\ \E t \in Steps : now' = now + t
  /\ now' <= MaxTime
  /\ UNCHANGED processor

(* A sample of the one quantity. *)
InsertValue ==
  /\ processor = "statistics"
  /\ TimePasses
  /\ \E x \in Readings :
        /\ cache' = Pruned(Append(cache, Stamped(x)))
        /\ statistic' = StatisticWith(statistic, Stamped(x))
  /\ UNCHANGED <<history, lone>>

(* The whole acceleration, as in a packet of an Xsens. *)
InsertAcceleration ==
  /\ processor = "acceleration_history"
  /\ Len(history.run) < MaxRun
  /\ TimePasses
  /\ \E x \in Fax, y \in Fay :
        history' = HistoryWith(HistoryWith(history, "fax", Stamped(x)), "fay", Stamped(y))
  /\ UNCHANGED <<cache, statistic, lone>>

(* One component, as a regex device may send it. *)
InsertComponent ==
  /\ processor = "acceleration_history"
  /\ Len(history.run) < MaxRun
  /\ TimePasses
  /\ \/ \E x \in Fax : history' = HistoryWith(history, "fax", Stamped(x))
     \/ \E y \in Fay : history' = HistoryWith(history, "fay", Stamped(y))
  /\ lone' = TRUE
  /\ UNCHANGED <<cache, statistic>>

Next == InsertValue \/ InsertAcceleration \/ InsertComponent

Spec == Init /\ [][Next]_vars

-----------------------------------------------------------------------------
(* Properties                                                              *)

(* The mean and the variance of the window. *)
SummaryOfWindow == statistic.list # <<>> => MeanOf(statistic) /\ VarianceOf(statistic)

(* The window of the statistic is what the cache (device.h:273) holds of   *)
(* the last Period, less the samples that had the stamp of the one before; *)
(* the cache may have had to drop the oldest.                              *)
WindowIsCached ==
  statistic.list # <<>> =>
    LET list == statistic.list
        recent(v) == now - v.stamp <= Period
        fresh == {i \in DOMAIN cache : i > 1 /\ cache[i - 1].stamp # cache[i].stamp}
    IN /\ {v \in ToSet(list) : v.stamp > Head(cache).stamp} =
            {v \in {cache[i] : i \in fresh} : recent(v)}
       /\ \A i \in DOMAIN list :
            recent(list[i]) /\ (i > 1 => list[i - 1].stamp < list[i].stamp)

(* A cache that has its full count holds nothing too old, even after a gap *)
(* in which nothing was pruned (device.h:273).                             *)
CacheBounded ==
  /\ Len(cache) <= MaxCount
  /\ \A i \in DOMAIN cache : now - cache[i].stamp <= MaxAge

(* However many samples came in and expired since, and although adding and *)
(* removing are not each other's inverse at first sight                    *)
(* (statistics.h:104-136), the mean and the variance are those of the      *)
(* window, and the window is that of the cache, which stays bounded.       *)
StatisticTells == SummaryOfWindow /\ WindowIsCached /\ CacheBounded

(* When a run of large accelerations ends, its peak is listed if it lasted *)
(* long enough, with the figures of all of its moments                     *)
(* (acceleration_history.h:163-194); nothing else touches the list.  As    *)
(* long as packets have all components, only components of one moment are  *)
(* ever put together (acceleration_history.h:83-102).                      *)
PeaksRecorded ==
  [][ LET run == history.run
          ended == run # <<>> /\ history'.run = <<>>
      IN /\ history'.mixed => lone'
         /\ IF ended /\ RunDuration(run) > DurationThreshold
            THEN /\ IsPeakOf(history.current, run)
                 /\ history'.peaks = Listed(history.peaks, history.current)
            ELSE history'.peaks = history.peaks ]_vars
=============================================================================
