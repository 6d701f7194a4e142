\* Does SchedRun run all tasks?  Two tasks are enough, as in the watchdog.
CONSTANTS
    Tasks <- MCTwo
    Interval <- MCIntervalTwo
    NoTask = NoTask
    MaxInterval = 1
    MaxLate = 2
SPECIFICATION LiveSpec
PROPERTIES EveryTaskRuns
CHECK_DEADLOCK FALSE
