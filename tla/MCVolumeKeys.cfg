SPECIFICATION Spec
CONSTANTS
    t1 = t1
    t2 = t2
    Threads = {t1, t2}
    Disks <- KeylessDisks
    Texts = {"right", "rescue"}
    Files = {"file", "missing"}
    SnapshotIndexes <- AnyIndex
    CheckedIndexes = TRUE
    KeylessCrypt = {"fails", "garbage"}
    MaxCalls = 3
INVARIANTS
    UnlockedHasKeys
\* An application may stop calling.
CHECK_DEADLOCK FALSE
