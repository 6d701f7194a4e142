\* Every operation in any order; low throws what nobody catches.
CONSTANTS
    w1 = w1
    w2 = w2
    w3 = w3
    Tasks <- MCTasks
    Prio <- MCPrio
    Throws = {"bad"}
    Fatal = {"low"}
    Workers <- MCThreeWorkers
    InitialSize = 2
    MaxCalls = 4
    MaxSpurious = 1
    Ops = {"AddTask", "SetSize", "Pause", "Resume", "Stop", "StopTimeout"}
SPECIFICATION Spec
SYMMETRY MCSymmetry
INVARIANTS TypeOK StopAccounting EnoughStopTasks ConcurrencyBound
PROPERTIES StopDrainsUrgentTasks
\* The pool ends in std::terminate, and Stop can hang (see ThreadPool_hang).
CHECK_DEADLOCK FALSE
