---------------------------- MODULE MCScheduler -----------------------------
(* Small instances of the scheduler for TLC. *)
EXTENDS Scheduler

CONSTANTS t1, t2, t3

ThreeTasks == {t1, t2, t3}
=============================================================================
