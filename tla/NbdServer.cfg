\* Two requests and a line with q, two workers.
CONSTANTS
    w1 = w1
    w2 = w2
    Requests <- MCTwo
    Writes <- MCOneWrite
    Workers <- MCWorkers
    Line <- MCLine
    NoRequest = NoRequest
    Garbage = Garbage
SPECIFICATION LiveSpec
INVARIANTS TypeOK NewestIsNotForgotten AcknowledgedWritesAreStored
PROPERTIES NewestIsServed
\* The server stops: by q, by std::terminate, or with nothing left to do.
CHECK_DEADLOCK FALSE
