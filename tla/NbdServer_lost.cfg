\* Is every request of the driver served, if q is never typed?
CONSTANTS
    w1 = w1
    w2 = w2
    Requests <- MCTwo
    Writes <- MCOneWrite
    Workers <- MCWorkers
    Line <- MCNothing
    NoRequest = NoRequest
    Garbage = Garbage
SPECIFICATION LiveSpec
PROPERTIES EveryRequestIsServed
CHECK_DEADLOCK FALSE
