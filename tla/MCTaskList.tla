----------------------------- MODULE MCTaskList -----------------------------
(* A small instance of the list of tasks for TLC. *)
EXTENDS TaskList, TLC

CONSTANTS t1, t2, t3

ThreeTasks == {t1, t2, t3}

Alike == Permutations(ThreeTasks)
=============================================================================
