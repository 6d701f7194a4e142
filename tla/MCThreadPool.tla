---------------------------- MODULE MCThreadPool ----------------------------
(***************************************************************************)
(* Model values and bounds for ThreadPool.                                 *)
(***************************************************************************)
EXTENDS ThreadPool, TLC

CONSTANTS w1, w2, w3

MCTwoWorkers   == {w1, w2}
MCThreeWorkers == {w1, w2, w3}

\* One task below, one at and one above the priority of the control tasks.
MCTasks == {"low", "bad", "high"}
MCPrio  == [t \in MCTasks |-> CASE t = "low" -> LOW [] t = "bad" -> MEDIUM
                                [] t = "high" -> HIGH]

MCOneTask == {"medium"}
MCPrioOne == [t \in MCOneTask |-> MEDIUM]

MCSymmetry == Permutations(MCThreeWorkers)
=============================================================================
