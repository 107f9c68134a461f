---------------------------- MODULE MCTimedSched ----------------------------
(* TimedSched with two tasks, an earlier and a later one than the timer is   *)
(* set for, in either order, and two sched goroutines to take them.          *)
EXTENDS TimedSched
=============================================================================
