---------------------------- MODULE MCCheckQueue ----------------------------
(* The instance of CheckQueue for TLC.                                     *)
EXTENDS CheckQueue

CONSTANTS w1, w2, m1, c1, c2

OneMaster == {m1}
TwoWorkers == {w1, w2}
TwoChecks == {c1, c2}
OneBad == {c2}
=============================================================================
