------------------------------ MODULE Snapshot ------------------------------
(***************************************************************************)
(* The snapshots of a volume (libfsapfs_snapshot_metadata_tree.c,          *)
(* libfsapfs_snapshot_metadata.c, libfsapfs_snapshot.c and what            *)
(* libfsapfs_volume.c makes of them).  Opening a volume walks the snapshot *)
(* metadata tree and collects the metadata of every snapshot; when that    *)
(* fails the volume is opened all the same, without snapshots.  A snapshot *)
(* refers to metadata that belongs to the volume.                          *)
(*                                                                         *)
(* The nodes of the tree are kept in a cache that owns them.  The walk     *)
(* holds on to a branch while it reads the nodes below it into the same    *)
(* cache, which frees a node when it is full: a tree of more nodes than    *)
(* the cache holds may lose the branch.  Any read may fail.                *)
(***************************************************************************)
EXTENDS SnapshotState

vars == <<disk, phase, hasTree, cached, walk, snapshots, snapshot, answer>>

NoWalk == [node |-> 0, depth |-> 0, todo |-> <<>>, failed |-> FALSE]
NoSnapshot == [open |-> FALSE]
NoAnswer == [op |-> "none"]

Init ==
    /\ disk \in Volumes
    /\ phase = "closed"
    /\ hasTree = FALSE
    /\ cached = {}
    /\ walk = NoWalk
    /\ snapshots = <<>>
    /\ snapshot = NoSnapshot
    /\ answer = NoAnswer

----------------------------------------------------------------------------
(* Nodes.                                                                  *)

\* Fault: the last entry of the cache is never used.
CacheWithOneLess(block, evicted) ==
    IF block \in cached THEN cached
    ELSE IF Cardinality(cached) < CacheEntries - 1 THEN cached \cup {block}
    ELSE (cached \ {evicted}) \cup {block}

\* A cache that is full frees a node to make room for another.
CacheWith(block, evicted) ==
    IF block \in cached THEN cached
    ELSE IF Cardinality(cached) < CacheEntries THEN cached \cup {block}
    ELSE (cached \ {evicted}) \cup {block}

IsRootNode(block) == IsNode(disk, block, "root")
IsSubNode(block) == IsNode(disk, block, "sub")

get_sub_node_block_number_from_entry(entry) == SubBlock(disk, entry)

----------------------------------------------------------------------------
(* Opening the volume.                                                     *)

snapshot_metadata_tree_initialize ==
    /\ phase = "closed"
    /\ snapshots' = <<>>
    /\ hasTree' = (disk.root # 0)
    /\ phase' = IF disk.root = 0 THEN "open" ELSE "root"
    /\ walk' = NoWalk
    /\ UNCHANGED <<disk, cached, snapshot, answer>>

\* An error anywhere empties the array; the volume then frees the tree and goes on.
WalkEnds(failed) ==
    /\ snapshots' = <<>>
    /\ hasTree' = FALSE
    /\ cached' = {}
    /\ walk' = [NoWalk EXCEPT !.failed = failed]
    /\ phase' = "open"
    /\ UNCHANGED <<disk, snapshot, answer>>

ReadFails ==
    /\ phase \in {"root", "next"}
    /\ phase = "next" => walk.todo # <<>> /\ Head(walk.todo).node \in cached
    /\ WalkEnds(TRUE)

\* A block of zeros is a tree that is not there, which ends the walk as an error
\* does.  The node goes into the cache under its block number, and is then asked
\* for under its identifier.
get_root_node ==
    /\ phase = "root"
    /\ \E evicted \in cached \cup {0} :
         LET now == CacheWith(RootBlock, evicted)
         IN  IF ~IsRootNode(RootBlock) \/ disk.root \notin now
             THEN WalkEnds(FALSE)
             ELSE /\ cached' = now
                  /\ walk' = [walk EXCEPT !.node = disk.root]
                  /\ phase' = "node"
                  /\ UNCHANGED <<disk, hasTree, snapshots, snapshot, answer>>

\* Fault: a record that cannot be read is left out.
LeafSkipsDamaged ==
    LET entries == SelectSeq(disk.nodes[walk.node].entries, IsMetadata)
    IN  [ok |-> TRUE,
         found |-> [i \in DOMAIN entries |-> snapshot_metadata_read_value_data(entries[i])]]

get_snapshots_from_leaf_node == Metadata(disk.nodes[walk.node].entries)

\* All sub nodes of a branch are walked through, in order.
get_snapshots_from_branch_node ==
    [i \in DOMAIN disk.nodes[walk.node].entries |->
        [node |-> walk.node, index |-> i, depth |-> walk.depth + 1]]

\* Fault: a leaf that cannot be read is read again.
SearchNodeAgain ==
    /\ phase = "node"
    /\ IF disk.nodes[walk.node].level > 0
       THEN IF walk.depth > RecursionLimit THEN WalkEnds(FALSE)
            ELSE /\ walk' = [walk EXCEPT !.todo = get_snapshots_from_branch_node \o @]
                 /\ phase' = "next"
                 /\ UNCHANGED <<disk, hasTree, cached, snapshots, snapshot, answer>>
       ELSE IF get_snapshots_from_leaf_node.ok
       THEN /\ snapshots' = snapshots \o get_snapshots_from_leaf_node.found
            /\ phase' = "next"
            /\ UNCHANGED <<disk, hasTree, cached, walk, snapshot, answer>>
       ELSE UNCHANGED vars

SearchNode ==
    LET leaf == disk.nodes[walk.node].level = 0
    IN  /\ phase = "node"
        /\ IF leaf
           THEN IF get_snapshots_from_leaf_node.ok
                THEN /\ snapshots' = snapshots \o get_snapshots_from_leaf_node.found
                     /\ phase' = "next"
                     /\ UNCHANGED <<disk, hasTree, cached, walk, snapshot, answer>>
                ELSE WalkEnds(FALSE)
           ELSE IF walk.depth > RecursionLimit THEN WalkEnds(FALSE)
           ELSE /\ walk' = [walk EXCEPT !.todo = get_snapshots_from_branch_node \o @]
                /\ phase' = "next"
                /\ UNCHANGED <<disk, hasTree, cached, snapshots, snapshot, answer>>

\* Goes on with the next entry of a branch that is still held.  A node that is in
\* the cache is returned as it is, also when it is not a sub node.
get_sub_node ==
    LET at == Head(walk.todo)
        entry == disk.nodes[at.node].entries[at.index]
        block == get_sub_node_block_number_from_entry(entry)
    IN  /\ phase = "next" /\ walk.todo # <<>> /\ at.node \in cached
        /\ IF block \notin cached /\ ~IsSubNode(block) THEN WalkEnds(FALSE)
           ELSE /\ \E evicted \in cached : cached' = CacheWith(block, evicted)
                /\ walk' = [walk EXCEPT !.node = block, !.depth = at.depth,
                                        !.todo = Tail(@)]
                /\ phase' = "node"
                /\ UNCHANGED <<disk, hasTree, snapshots, snapshot, answer>>

\* The branch was freed to make room for a node below it: what the walk does with
\* it is undefined, and is taken to end the program.
UseFreed ==
    /\ phase = "next" /\ walk.todo # <<>> /\ Head(walk.todo).node \notin cached
    /\ phase' = "crashed"
    /\ UNCHANGED <<disk, hasTree, cached, walk, snapshots, snapshot, answer>>

\* The program is started again.
Restart ==
    /\ phase = "crashed"
    /\ phase' = "closed"
    /\ hasTree' = FALSE
    /\ cached' = {}
    /\ snapshots' = <<>>
    /\ walk' = NoWalk
    /\ UNCHANGED <<disk, snapshot, answer>>

get_snapshots_ends ==
    /\ phase = "next" /\ walk.todo = <<>>
    /\ phase' = "open"
    /\ walk' = NoWalk
    /\ UNCHANGED <<disk, hasTree, cached, snapshots, snapshot, answer>>

----------------------------------------------------------------------------
(* The volume is open.                                                     *)

Ready == phase = "open" /\ answer = NoAnswer

volume_get_number_of_snapshots ==
    /\ Ready
    /\ answer' = [op |-> "count", result |-> 1, value |-> Len(snapshots)]
    /\ UNCHANGED <<disk, phase, hasTree, cached, walk, snapshots, snapshot>>

internal_snapshot_open_read(metadata) ==
    metadata.superblock \in DOMAIN disk.superblocks

\* Indexes outside the array are in Volume.  The superblock is read; when that
\* fails the snapshot is freed.
volume_get_snapshot_by_index ==
    /\ Ready /\ ~snapshot.open
    /\ \E i \in 0 .. Len(snapshots) - 1, readable \in BOOLEAN :
         LET metadata == snapshots[i + 1]
         IN  IF readable /\ internal_snapshot_open_read(metadata)
             THEN /\ snapshot' = [open |-> TRUE, index |-> i, metadata |-> metadata,
                                  superblock |-> metadata.superblock]
                  /\ answer' = [op |-> "snapshot", result |-> 1]
             ELSE /\ answer' = [op |-> "snapshot", result |-> -1]
                  /\ UNCHANGED snapshot
    /\ UNCHANGED <<disk, phase, hasTree, cached, walk, snapshots>>

SnapshotName(op) ==
    /\ Ready /\ snapshot.open
    /\ answer' = [op |-> op, result |-> 1, value |-> snapshot.metadata.name]
    /\ UNCHANGED <<disk, phase, hasTree, cached, walk, snapshots, snapshot>>

snapshot_get_utf8_name_size == SnapshotName("name size")

snapshot_get_utf8_name == SnapshotName("name")

snapshot_get_utf16_name_size == SnapshotName("name size")

snapshot_get_utf16_name == SnapshotName("name")

snapshot_free ==
    /\ Ready /\ snapshot.open
    /\ snapshot' = NoSnapshot
    /\ UNCHANGED <<disk, phase, hasTree, cached, walk, snapshots, answer>>

\* The application frees its snapshot first.
volume_close ==
    /\ Ready /\ ~snapshot.open
    /\ phase' = "closed"
    /\ hasTree' = FALSE
    /\ cached' = {}
    /\ snapshots' = <<>>
    /\ walk' = NoWalk
    /\ UNCHANGED <<disk, snapshot, answer>>

Return ==
    /\ answer # NoAnswer
    /\ answer' = NoAnswer
    /\ UNCHANGED <<disk, phase, hasTree, cached, walk, snapshots, snapshot>>

Walk ==
    \/ get_root_node
    \/ SearchNode
    \/ get_sub_node
    \/ UseFreed
    \/ get_snapshots_ends

Next ==
    \/ snapshot_metadata_tree_initialize
    \/ Walk
    \/ ReadFails
    \/ Restart
    \/ volume_get_number_of_snapshots
    \/ volume_get_snapshot_by_index
    \/ snapshot_get_utf8_name_size
    \/ snapshot_get_utf8_name
    \/ snapshot_get_utf16_name_size
    \/ snapshot_get_utf16_name
    \/ snapshot_free
    \/ volume_close
    \/ Return

\* The walk is one call, which goes on until it ends.
Spec == Init /\ [][Next]_vars /\ WF_vars(Walk)

----------------------------------------------------------------------------

\* The variables have their types; the cache does not outgrow its size and goes
\* with the tree.
TypeOK ==
    /\ disk \in Volumes
    /\ phase \in {"closed", "root", "node", "next", "open", "crashed"}
    /\ hasTree \in BOOLEAN
    /\ cached \subseteq DOMAIN disk.nodes /\ Cardinality(cached) <= CacheEntries
    /\ ~hasTree => cached = {}
    /\ walk.depth \in 0 .. RecursionLimit + 1

============================================================================
