\* Three consumers, as in the program, for ever; and the other exercises.
CONSTANTS
    c1 = c1
    c2 = c2
    c3 = c3
    Consumers <- MCConsumers
    Producer = Producer
    Nobody = Nobody
    Numbers = 3
    PgFiles = 2
    ExSize = 1
    SemTop = 2
    PpCount = 3
    CsLast = 1
    CsSize = 3
    TkTasks = 2
    SpItems = 3
    BUFFER_SIZE = 3
    LgLines = 2
    NbdRequests = 2
    NbdHeader = 2
    RpAsked <- MCAsked
    RpWorkers = {1, 2}
    RpHeader = 2
    RpData = 2
    NtRounds = 2
    NtLen = 2
    SgThreads = {1, 2, 3}
    RamSize = 2
    RamWord = 8
    RamOffsets = {0, 1, 7}
    RamLengths = {1, 2}
    RamWorkers = {1, 2}
SPECIFICATION ExercisesSpec
INVARIANTS TypeOK ReadsEachMessageOnce NoOverwrite
    ExercisesAreSafe PluginsAreSafe
PROPERTIES RoundsGoOn ExercisesGoOn PluginsEnd
\* Most of the programs end.
CHECK_DEADLOCK FALSE
