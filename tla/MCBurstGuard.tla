---------------------------- MODULE MCBurstGuard ----------------------------
(* BurstGuard with two threads that call trigger().                          *)
EXTENDS BurstGuard

CONSTANTS c1, c2

(* The callers are interchangeable. Symmetry is not used all the same: the   *)
(* run has liveness properties, for which TLC's symmetry is unsound.         *)
MCCallers == {c1, c2}

(* Duration 0 makes the worker's wait time out at once. *)
MCDurations == {0, 2}

(* Interval 0 disables interference; 1 is shorter than a burst and 3 is      *)
(* longer than one wait, so that a burst has to be extended to reach it.     *)
MCIntervals == {0, 1, 3}

=============================================================================
