-------------------------- MODULE SignalKConverter --------------------------
(***************************************************************************)
(* From a sample to a SignalK delta (signalk_converter.cpp).  The          *)
(* converter keeps the last sample of every quantity, here of those that   *)
(* it reads again: the position and the attitude are put together from     *)
(* samples of one stamp.                                                   *)
(***************************************************************************)
EXTENDS Integers

Position == {"la", "lo"}
Attitude == {"ro", "pi", "ya"}

get_path(q) ==
  CASE q = "ut" -> "datetime"
    [] q \in Position -> "position"
    [] q = "vog" -> "speedOverGround"
    [] q = "vtw" -> "speedThroughWater"
    [] q = "hdg" -> "headingTrue"
    [] q = "crs" -> "courseOverGroundTrue"
    [] q = "mn" -> "headingMagnetic"
    [] q \in Attitude -> "attitude"
    [] q = "wtmp" -> "temperature"
    [] OTHER -> ""

(* The quantities whose values are in a delta for quantity q. *)
Components(q) ==
  CASE q \in Position -> Position
    [] q \in Attitude -> Attitude
    [] OTHER -> {q}

(* add_to_cache *)
WithSample(cache, s) ==
  IF s.quantity \in DOMAIN cache THEN [cache EXCEPT ![s.quantity] = s] ELSE cache

(* Mutant: the position is sent whenever a component of it comes in. *)
produces_deltaAlways(cache, s) ==
  IF s.quantity \in Attitude
  THEN \A q \in Attitude : cache[q].stamp = s.stamp
  ELSE get_path(s.quantity) # ""

(* Whether the sample s, which is in the cache by now, leads to a delta:   *)
(* the other components have its stamp.                                    *)
produces_delta(cache, s) ==
  IF s.quantity \in Position \cup Attitude
  THEN \A q \in Components(s.quantity) : cache[q].stamp = s.stamp
  ELSE get_path(s.quantity) # ""

(* The delta of sample s: its stamp, its path, and the components with the *)
(* values of the cache.                                                    *)
get_delta(cache, s) ==
  [timestamp |-> s.stamp, path |-> get_path(s.quantity),
   value |-> [q \in Components(s.quantity) |-> IF q = s.quantity THEN s ELSE cache[q]]]

=============================================================================
