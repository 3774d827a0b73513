-------------------------------- MODULE Sums --------------------------------
(***************************************************************************)
(* The sum of a sequence of numbers, with which Statistics and             *)
(* AccelerationHistory say what their figures should be.                   *)
(***************************************************************************)
EXTENDS Integers, Sequences

Total(x) ==
  LET sum[i \in 0..Len(x)] == IF i = 0 THEN 0 ELSE sum[i - 1] + x[i]
  IN sum[Len(x)]
=============================================================================
