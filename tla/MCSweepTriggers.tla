--------------------------- MODULE MCSweepTriggers ---------------------------
(* Model-checking instances of SweepTriggers: two goroutines of a sweeper   *)
(* can race, a third lets one more be late with its report.                 *)
EXTENDS SweepTriggers

CONSTANTS g1, g2, g3
=============================================================================
