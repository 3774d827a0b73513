----------------------------- MODULE MCSamples -----------------------------
(* Values for a statistic of period 3 and for accelerations (3, 4) whose   *)
(* lengths are whole numbers.  The one quantity is an angle, and its values *)
(* are within half a circle, so that the figures are also those of a plain  *)
(* quantity.                                                                *)
EXTENDS Samples

MCCircle == 16 * Scale
MCValues == {0, Scale, 6 * Scale}
MCFax == {3}
MCFay == {0, 4}
MCSteps == {0, 1, 2, 4}
=============================================================================
