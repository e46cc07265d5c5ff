SPECIFICATION Spec
\* A look-up that uses a freed node does not go on.
CHECK_DEADLOCK FALSE
CONSTANTS
    t1 = t1
    t2 = t2
    h1 = h1
    h2 = h2
    h3 = h3
    h4 = h4
    h5 = h5
    ObjectIds = {0, 1, 2, 3}
    TransactionIds = {0, 1, 2, 3}
    Threads = {t1, t2}
    Blocks = {1, 2, 3, 4, 5, 6}
    Trees <- OneTree
    Targets <- FewTargets
    Handles = {h1, h2, h3, h4, h5}
    CacheSize = 1
    MaxDepth = 3
    Exclusive = FALSE
INVARIANTS
    NoFreedNodeIsUsed
