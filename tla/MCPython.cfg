CONSTANTS
    t1 = t1
    t2 = t2
    Threads <- MCThreads
    Objects <- MCObjects
    NoThread = NoThread
    NoObject = 0
    MaxOfKind <- MCMaxOfKind
    NumberOfItems = 2
    MaxReads = 1
    MaxHeld = 2
SPECIFICATION Spec
INVARIANTS
    OnlyReopeningFreesWhatIsUsed
    ReferencesAreCounted
    IterationIsExact
    ReadsAreWhereAsked
    CallsGoOn
