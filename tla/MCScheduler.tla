---------------------------- MODULE MCScheduler -----------------------------
(***************************************************************************)
(* Model values for Scheduler alone: a task that is always due, as the     *)
(* watchdog has, and one of an interval.  MCLibraries has three tasks.     *)
(***************************************************************************)
EXTENDS Scheduler

MCTwo         == {"first", "ping"}
MCIntervalTwo == [t \in MCTwo |-> IF t = "first" THEN 0 ELSE 1]
=============================================================================
