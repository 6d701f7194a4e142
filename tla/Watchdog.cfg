\* Two seconds between pings: the thread wakes as the first one comes.
CONSTANTS
    Interval = 2
    MaxFails = 3
    MaxCrashes = 2
    MaxLosses = 3
SPECIFICATION LiveSpec
INVARIANTS TypeOK
PROPERTIES TheLivingAreSpared UserIsRevived WatchdogIsRevived DoNotResuscitateReturns
\* All processes may end.
CHECK_DEADLOCK FALSE
