SPECIFICATION FairSpec
CONSTANTS
    t1 = t1
    t2 = t2
    Threads = {t1, t2}
    Disks <- PlainDisks
    Texts = {"right"}
    Files = {"file"}
    SnapshotIndexes <- AnyIndex
    CheckedIndexes = FALSE
    KeylessCrypt = {"fails"}
    MaxCalls = 2
PROPERTIES
    EveryCallReturns
\* An application may stop calling.
CHECK_DEADLOCK FALSE
