---------------------------- MODULE MCLibraries -----------------------------
(***************************************************************************)
(* Bounds of the libraries; for the scheduler a task that is always due,   *)
(* as the watchdog has, and two of different intervals.                    *)
(***************************************************************************)
EXTENDS Libraries

MCTasks    == {"first", "ping", "slow"}
MCInterval == [t \in MCTasks |-> CASE t = "first" -> 0 [] t = "ping" -> 1
                                   [] t = "slow" -> 2]
MCValues   == 0..2
=============================================================================
