---------------------------- MODULE MCScheduler ----------------------------
(* Small instances of Scheduler for TLC. *)
EXTENDS Scheduler

\* At once and at two later times.
SmallDelays == 0..2
=============================================================================
