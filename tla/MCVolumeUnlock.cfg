SPECIFICATION Spec
CONSTANTS
    t1 = t1
    t2 = t2
    Threads = {t1, t2}
    Disks <- AllDisks
    Texts = {"right", "rescue"}
    Files = {"file", "missing"}
    SnapshotIndexes <- AnyIndex
    CheckedIndexes = TRUE
    KeylessCrypt = {"fails", "garbage"}
    MaxCalls = 3
INVARIANTS
    NothingLeftBehind
    KeyBagKeepsLocked
    AnswersComeFromPlaintext
    LockHeldOnlyInside
PROPERTIES
    StaysUnlocked
    RefusalIsHonest
\* An application may stop calling.
CHECK_DEADLOCK FALSE
