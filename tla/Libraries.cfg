\* The scheduler with three tasks; the other libraries with three blocks.
CONSTANTS
    Tasks <- MCTasks
    Interval <- MCInterval
    NoTask = NoTask
    MaxInterval = 2
    MaxLate = 2
    Cells = 3
    Values <- MCValues
    StrNames = {1, 2, 3}
    StrTexts = {1, 2}
    FsaBlockSizes = {1, 12, 16}
    LeakRows = 2
    INT_MAX = 3
    SoRadix = 2
    SoDigits = 2
SPECIFICATION LibrariesSpec
INVARIANTS TypeOK TasksAreOwned NoTaskIsLost NeverTooSoon
    StructuresHoldData SortsSort MemoryIsAccountedFor FrameworkIsRight ProgramsAreRight
PROPERTIES StopEndsRun RunGoesOn
\* A task may destroy the scheduler, a sort ends, a library may be misused.
CHECK_DEADLOCK FALSE
