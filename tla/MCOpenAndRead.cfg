SPECIFICATION AllSpec
CONSTANTS
    t1 = t1
    t2 = t2
    Threads = {t1, t2}
    Disks <- AllDisks
    Indexes <- AnyIndex
    MaxCalls = 3
    AreaSize = 5
    MaxTransaction = 6
    TornWrites = TRUE
    BlocksAfter <- AnyAfter
    Handles = {h1, h2}
    Files <- AllFiles
    BlockSize = 2
    MaxOffset = 4
    MaxRead = 4
INVARIANTS
    AllOrNothing
    HandlesGivenBack
    LockHeldInsideOnly
    OpensAtNewestCheckpoint
    MapIsNotOlder
    CrashDoesNoHarm
    ReadsAreRight
    ErrorsHaveCauses
    ShortReadsAreAtTheEnd
PROPERTIES
    EveryCallReturns
    EveryReadEnds
\* A query that follows a NULL pointer ends the program; Checkpoint opens once.
CHECK_DEADLOCK FALSE
