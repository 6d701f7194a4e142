\* A client that never pauses or resizes the pool; bad throws.
CONSTANTS
    w1 = w1
    w2 = w2
    w3 = w3
    Tasks <- MCTasks
    Prio <- MCPrio
    Throws = {"bad"}
    Fatal = {}
    Workers <- MCTwoWorkers
    InitialSize = 2
    MaxCalls = 2
    MaxSpurious = 1
    Ops = {"AddTask", "Stop"}
SPECIFICATION LiveSpec
PROPERTIES StopReturns TasksAreTaken
\* The client is done once it called Stop twice.
CHECK_DEADLOCK FALSE
