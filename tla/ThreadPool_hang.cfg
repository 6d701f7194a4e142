\* Pause, Resume and a graceful Stop of a pool of one thread.
CONSTANTS
    w1 = w1
    w2 = w2
    w3 = w3
    Tasks <- MCOneTask
    Prio <- MCPrioOne
    Throws = {}
    Fatal = {}
    Workers <- MCTwoWorkers
    InitialSize = 1
    MaxCalls = 3
    MaxSpurious = 0
    Ops = {"Pause", "Resume", "Stop"}
SPECIFICATION LiveSpec
PROPERTIES StopReturns
\* A Stop that hangs is the point.
CHECK_DEADLOCK FALSE
