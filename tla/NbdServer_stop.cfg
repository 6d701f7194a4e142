\* Does Stop end the reactor?
CONSTANTS
    w1 = w1
    w2 = w2
    Requests <- MCOneWrite
    Writes <- MCOneWrite
    Workers <- MCWorkers
    Line <- MCQ
    NoRequest = NoRequest
    Garbage = Garbage
SPECIFICATION LiveSpec
PROPERTIES StopEndsReactor
CHECK_DEADLOCK FALSE
