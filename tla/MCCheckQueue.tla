---------------------------- MODULE MCCheckQueue ----------------------------
(***************************************************************************)
(* CheckQueue with its threads and checks as model values.                 *)
(***************************************************************************)
EXTENDS CheckQueue

CONSTANTS w1, w2, m, c1, c2, c3, c4

TwoWorkers == {w1, w2}
FewChecks  == {c1, c2}
ManyChecks == {c1, c2, c3, c4}
OneBad     == {c1}
=============================================================================
