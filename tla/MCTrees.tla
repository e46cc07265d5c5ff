------------------------------ MODULE MCTrees -------------------------------
(***************************************************************************)
(* The trees that a container and its volumes are opened with, for TLC:    *)
(* the object map, walked under a lock for writing and under one for       *)
(* reading (ObjectMapBTree, twice), and the snapshot metadata tree         *)
(* (Snapshot).  They share no state: a behaviour is one of the component   *)
(* it starts with, while the others stay as they begin.                    *)
(***************************************************************************)
EXTENDS MCObjectMapBTree, SnapshotState

VARIABLES
    component,  \* whose behaviour it is
    sharedTree, sharedHeap, sharedCache, sharedLock, sharedPc, sharedTarget,
    sharedBlock, sharedNode, sharedDepth, sharedResult, sharedFound

Shared == INSTANCE ObjectMapBTree WITH
    Threads <- {t1, t2}, Handles <- {h1, h2, h3}, Exclusive <- FALSE,
    Trees <- OneTree, Targets <- FewTargets,
    tree <- sharedTree, heap <- sharedHeap, cache <- sharedCache, lock <- sharedLock,
    pc <- sharedPc, target <- sharedTarget, block <- sharedBlock, node <- sharedNode,
    depth <- sharedDepth, result <- sharedResult, found <- sharedFound

Snap == INSTANCE Snapshot

Small == INSTANCE MCSnapshot
AllVolumes == Small!MCVolumes
TranslatedRoots == Small!TranslatedRoots

sharedVars == <<sharedTree, sharedHeap, sharedCache, sharedLock, sharedPc, sharedTarget,
                sharedBlock, sharedNode, sharedDepth, sharedResult, sharedFound>>
snapVars == <<disk, phase, hasTree, cached, walk, snapshots, snapshot, answer>>
allVars == <<component, vars, sharedVars, snapVars>>

AllInit ==
    /\ component \in {"lookup", "shared", "snapshot"}
    /\ Init /\ (component # "lookup" => tree \in OneTree)
    /\ Shared!Init
    /\ Snap!Init /\ (component # "snapshot" => disk \in TranslatedRoots)

AllNext ==
    \/ component = "lookup" /\ Next /\ UNCHANGED <<component, sharedVars, snapVars>>
    \/ component = "shared" /\ Shared!Next /\ UNCHANGED <<component, vars, snapVars>>
    \/ component = "snapshot" /\ Snap!Next /\ UNCHANGED <<component, vars, sharedVars>>

\* The fairness of the components.
Fairness ==
    /\ \A t \in Threads :
         WF_allVars(component = "lookup" /\ Step(t) /\ UNCHANGED <<component, sharedVars, snapVars>>)
    /\ WF_allVars(component = "snapshot" /\ Snap!Walk /\ UNCHANGED <<component, vars, sharedVars>>)

AllSpec == AllInit /\ [][AllNext]_allVars /\ Fairness

----------------------------------------------------------------------------

\* No node is leaked, also not by two look-ups under a lock for reading
\* (ObjectMapBTree: the node cache).
SharedNodesAreOwned == Shared!NodesAreOwned
=============================================================================
