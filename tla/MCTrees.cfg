SPECIFICATION AllSpec
CONSTANTS
    t1 = t1
    t2 = t2
    h1 = h1
    h2 = h2
    h3 = h3
    h4 = h4
    h5 = h5
    Threads = {t1}
    ObjectIds = {0, 1, 2, 3}
    TransactionIds = {0, 1, 2, 3}
    Blocks = {1, 2, 3, 4, 5, 6}
    Trees <- AllTrees
    Targets <- AllTargets
    Handles = {h1, h2}
    CacheSize = 1
    MaxDepth = 3
    Exclusive = TRUE
    Volumes <- AllVolumes
    CacheEntries = 3
    RecursionLimit = 3
    Width = 64
INVARIANTS
    LookupIsSnapshotRead
    SharedNodesAreOwned
    AllSnapshotsOrNone
    HeldUntilFull
PROPERTIES
    EveryLookupReturns
    ImplementsStore
    OpenEnds
\* A look-up that uses a freed node ends the program.
CHECK_DEADLOCK FALSE
