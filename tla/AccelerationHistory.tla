------------------------ MODULE AccelerationHistory ------------------------
(***************************************************************************)
(* The acceleration history processor                                      *)
(* (processors/acceleration_history.h): the components of an acceleration  *)
(* that belong to one moment are put together, and the runs of moments     *)
(* with an acceleration above a threshold become a list of peaks.          *)
(*                                                                         *)
(* A history h has the members of the class, and two history variables     *)
(* that the processor does not have: in "run" the moments that current_    *)
(* summarises, and "mixed" once components with different stamps were      *)
(* taken for one moment.  Means are integers in units of 1/Unit.  rms      *)
(* stays a mean square: the root that is taken when a peak is listed is    *)
(* left out.                                                               *)
(***************************************************************************)
EXTENDS Integers, SequencesExt, Sums

CONSTANTS
  Direction,          (* the components in direction_, of {"fax", "fay"}     *)
  ValueThreshold,     (* value_threshold_                                    *)
  DurationThreshold,  (* duration_threshold_                                 *)
  ItemCount,          (* item_count_                                         *)
  Unit                (* the units of a mean                                 *)

ASSUME AccelerationHistoryAssumption ==
  /\ Direction \subseteq {"fax", "fay"}
  /\ ValueThreshold \in Nat
  /\ DurationThreshold \in Nat
  /\ ItemCount \in Nat
  /\ Unit \in Nat \ {0}

Zero == [value |-> 0, stamp |-> 0]

PeakZero == [start |-> 0, duration |-> 0, peak |-> 0, mean |-> 0, rms |-> 0]

NoHistory ==
  [fa |-> [q \in Direction |-> Zero], current |-> PeakZero, peaks |-> <<>>,
   run |-> <<>>, mixed |-> FALSE]

Abs(x) == IF x < 0 THEN -x ELSE x

(* The model's components are such that the root exists. *)
Root(x) == CHOOSE r \in 0..x : r * r = x

(* The acceleration at the moment the components are of: signed for one    *)
(* direction, otherwise the length of the vector.                          *)
Amplitude(fa) ==
  IF \E q \in Direction : Direction = {q}
  THEN fa[CHOOSE q \in Direction : TRUE].value
  ELSE Root(fa["fax"].value * fa["fax"].value + fa["fay"].value * fa["fay"].value)

LatestStamp(fa) ==
  CHOOSE t \in {fa[q].stamp : q \in Direction} : \A q \in Direction : fa[q].stamp <= t

Mixes(fa) ==
  \E p, q \in Direction : fa[p].stamp # 0 /\ fa[q].stamp # 0 /\ fa[p].stamp # fa[q].stamp

-----------------------------------------------------------------------------

PeakStarts(amp, stamp) ==
  [start |-> stamp, duration |-> 0, peak |-> amp, mean |-> amp * Unit, rms |-> amp * amp * Unit]

PeakGoesOn(c, amp, stamp) ==
  LET duration == stamp - c.start
      interval == duration - c.duration
      peak == IF Abs(amp) > Abs(c.peak) THEN amp ELSE c.peak
  IN IF duration <= 0
     THEN [c EXCEPT !.peak = peak]
     ELSE [c EXCEPT !.peak = peak,
                    !.duration = duration,
                    !.mean = @ + ((amp * Unit - @) * interval) \div duration,
                    !.rms = @ + ((amp * amp * Unit - @) * interval) \div duration]

(* The newest peak comes first. *)
Listed(peaks, peak) ==
  LET longer == <<peak>> \o peaks
  IN SubSeq(longer, 1, IF Len(longer) > ItemCount THEN ItemCount ELSE Len(longer))

(* handle_value: the components at hand are a moment. *)
Handled(h) ==
  LET amp == Amplitude(h.fa)
      stamp == LatestStamp(h.fa)
      c == h.current
      fresh == [q \in Direction |-> Zero]
  IN IF Abs(amp) > ValueThreshold
     THEN [h EXCEPT !.fa = fresh,
                    !.current = IF c.start = 0 THEN PeakStarts(amp, stamp)
                                               ELSE PeakGoesOn(c, amp, stamp),
                    !.run = Append(@, [amp |-> amp, stamp |-> stamp]),
                    !.mixed = @ \/ Mixes(h.fa)]
     ELSE [h EXCEPT !.fa = fresh,
                    !.current = PeakZero,
                    !.peaks = IF c.duration > DurationThreshold THEN Listed(@, c) ELSE @,
                    !.run = <<>>,
                    !.mixed = @ \/ Mixes(h.fa)]

(* Mutant: handle_value leaves the other component to the next moment. *)
HistoryWithMissedReset(h, q, v) ==
  IF q \notin Direction THEN h
  ELSE [(IF h.fa[q].stamp # 0 THEN [Handled(h) EXCEPT !.fa = h.fa] ELSE h) EXCEPT !.fa[q] = v]

(* Acceleration_history::insert_value of quantity q.  A component that is  *)
(* already there shows that a new moment has begun.                        *)
HistoryWith(h, q, v) ==
  IF q \notin Direction THEN h
  ELSE [(IF h.fa[q].stamp # 0 THEN Handled(h) ELSE h) EXCEPT !.fa[q] = v]

-----------------------------------------------------------------------------

RunDuration(run) == Last(run).stamp - Head(run).stamp

(* The sum of the figures x of the moments of a run, each with the time    *)
(* since the one before it as its weight, so that the first one has none.  *)
OverRun(x, run) ==
  Total([i \in 1..(Len(run) - 1) |-> x[i + 1] * (run[i + 1].stamp - run[i].stamp)])

(* What the peak of a run that took some time should be. *)
IsPeakOf(c, run) ==
  /\ c.start = Head(run).stamp
  /\ c.duration = RunDuration(run)
  /\ \E i \in DOMAIN run :
        /\ c.peak = run[i].amp
        /\ \A j \in DOMAIN run : Abs(run[j].amp) <= Abs(c.peak)
  /\ c.mean * c.duration = Unit * OverRun([i \in DOMAIN run |-> run[i].amp], run)
  /\ c.rms * c.duration = Unit * OverRun([i \in DOMAIN run |-> run[i].amp * run[i].amp], run)
=============================================================================
