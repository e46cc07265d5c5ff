---------------------------- MODULE SnapshotState ----------------------------
(* Snapshot metadata trees as they are on the disk, what a volume has in    *)
(* memory of one, and what is to be true of it.                             *)
EXTENDS Integers, Sequences, FiniteSets

CONSTANTS
    Volumes,         \* the volumes that may be on the disk
    CacheEntries,    \* LIBFSAPFS_MAXIMUM_CACHE_ENTRIES_BTREE_NODES
    RecursionLimit,  \* LIBFSAPFS_MAXIMUM_BTREE_NODE_RECURSION_DEPTH
    Width            \* block numbers of superblocks are read modulo this

ASSUME CacheEntriesAssumption == CacheEntries \in Nat \ {0} /\ RecursionLimit \in Nat
ASSUME WidthAssumption == Width \in Nat \ {0}

\* A disk is [root, omap, nodes, superblocks, content, cuts, damaged]:
\*   root         the identifier of the tree, 0 for none
\*   omap         object identifiers to block numbers
\*   nodes        block numbers to nodes [kind, level, entries]; an entry is
\*                [type, name, superblock, damaged] in a leaf, [child] in a branch
\*   superblocks  block numbers to the snapshot they are of
\*   content      the snapshots [name, superblock] the tree holds, in order
\*   cuts         how the nodes share the content: a leaf has <<k, l>> for numbers
\*                k + 1 to l, a branch a cut before every entry and one at the end
\*   damaged      whether some node or record of it is

\* The entries of a node are a sequence, and so are the snapshots.
ASSUME VolumesAssumption ==
    \A d \in Volumes :
        /\ IsFiniteSet(DOMAIN d.nodes)
        /\ \A b \in DOMAIN d.nodes :
             /\ Len(d.nodes[b].entries) \in Nat
             /\ DOMAIN d.nodes[b].entries = 1 .. Len(d.nodes[b].entries)
        /\ d.content \in Seq({d.content[i] : i \in DOMAIN d.content})

----------------------------------------------------------------------------
(* Nodes.                                                                  *)

\* The identifier of the root is a block number unless the object map has it.
RootBlockOf(d) == IF d.root \in DOMAIN d.omap THEN d.omap[d.root] ELSE d.root

IsNode(d, block, kind) == block \in DOMAIN d.nodes /\ d.nodes[block].kind = kind

IsBTreeNode(d, block) == IsNode(d, block, "root") \/ IsNode(d, block, "sub")

SubBlock(d, entry) == IF entry.child \in DOMAIN d.omap THEN d.omap[entry.child] ELSE 0

\* A record gives its name and where the superblock of the snapshot is.
snapshot_metadata_read_value_data(entry) ==
    [name |-> entry.name, superblock |-> entry.superblock % Width]

IsMetadata(entry) == entry.type = "metadata"

\* The metadata of a leaf; records of other types are left out.
Metadata(entries) ==
    LET records == SelectSeq(entries, IsMetadata)
    IN  [ok |-> \A i \in DOMAIN records : ~records[i].damaged,
         found |-> [i \in DOMAIN records |-> snapshot_metadata_read_value_data(records[i])]]

----------------------------------------------------------------------------
(* What a volume that was written by a file system looks like.             *)

FirstCut(d, b) == d.cuts[b][1]
LastCut(d, b) == d.cuts[b][Len(d.cuts[b])]

\* The leaves hold the content and the branches share it out among their entries,
\* in order.  Damage makes a node or a record unreadable, and so does not change
\* what the others hold.
HoldsContent(d) ==
    /\ d.root = 0 => d.content = <<>>
    /\ d.root # 0 /\ IsNode(d, RootBlockOf(d), "root") =>
           FirstCut(d, RootBlockOf(d)) = 0 /\ LastCut(d, RootBlockOf(d)) = Len(d.content)
    /\ \A b \in DOMAIN d.nodes :
         LET entries == d.nodes[b].entries
         IN  /\ d.cuts[b] \in Seq(0 .. Len(d.content)) \ {<<>>}
             /\ d.nodes[b].level = 0 /\ Metadata(entries).ok =>
                    /\ FirstCut(d, b) <= LastCut(d, b)
                    /\ Metadata(entries).found = SubSeq(d.content, FirstCut(d, b) + 1, LastCut(d, b))
             /\ d.nodes[b].level # 0 =>
                    /\ Len(d.cuts[b]) = Len(entries) + 1
                    /\ \A i \in DOMAIN entries :
                         LET sub == SubBlock(d, entries[i])
                         IN  IsBTreeNode(d, sub) =>
                                FirstCut(d, sub) = d.cuts[b][i] /\ LastCut(d, sub) = d.cuts[b][i + 1]

\* Without damage every record can be read and every entry of a branch leads to a
\* node of a lower level; the recursion limit is higher than any tree.
IsSound(d) ==
    /\ d.root # 0 => /\ IsNode(d, RootBlockOf(d), "root")
                     /\ d.nodes[RootBlockOf(d)].level <= RecursionLimit
    /\ \A b \in DOMAIN d.nodes :
         LET entries == d.nodes[b].entries
         IN  /\ d.nodes[b].level \in Nat
             /\ d.nodes[b].level = 0 => Metadata(entries).ok
             /\ d.nodes[b].level # 0 =>
                    \A i \in DOMAIN entries :
                        LET sub == SubBlock(d, entries[i])
                        IN  IsNode(d, sub, "sub") /\ d.nodes[sub].level < d.nodes[b].level

ASSUME ContentAssumption == \A d \in Volumes : HoldsContent(d) /\ (~d.damaged => IsSound(d))

----------------------------------------------------------------------------
(* What a volume has in memory, and what is to be true of it.              *)

VARIABLES
    disk,       \* the volume on the disk
    phase,      \* of the volume: "closed", "root", "node", "next", "open", "crashed"
    hasTree,    \* whether there is a snapshot metadata tree
    cached,     \* the block numbers of the nodes in its cache
    walk,       \* the walk: [node, depth, todo, failed]
    snapshots,  \* the metadata that was collected
    snapshot,   \* the snapshot of the application, or NoSnapshot
    answer      \* what a call returned, or NoAnswer

RootBlock == RootBlockOf(disk)

\* The object map has the root at another block than its identifier.
TranslatedRoot == RootBlock # disk.root

\* A volume that is open has all of its snapshots, in order, unless a read failed
\* or its tree is damaged, and has none then.  So says the comment of get_root_node
\* also of a root that the object map translates.
SnapshotsAreAllOrNone ==
    phase = "open" =>
        \/ snapshots = disk.content
        \/ snapshots = <<>> /\ (walk.failed \/ disk.damaged)

\* What the code does: a volume that is open has all of its snapshots, in order,
\* or none.  It has none after a read that failed, and whenever the object map
\* translates the root (get_root_node puts it in the cache under another number
\* than it asks for); otherwise it has none only when there is damage, which
\* never costs it just some of them (get_snapshots empties the array).
AllSnapshotsOrNone ==
    phase = "open" =>
        IF walk.failed \/ TranslatedRoot THEN snapshots = <<>>
        ELSE snapshots = disk.content \/ (disk.damaged /\ snapshots = <<>>)

\* The nodes that the walk holds pointers to are in the cache, which owns them,
\* until the cache is full; and so the walk uses a freed node only in a tree of
\* more nodes than the cache has room for (get_snapshots_from_branch_node).
HeldUntilFull ==
    /\ phase = "node" => walk.node \in cached
    /\ phase \in {"node", "next", "crashed"} =>
         \A i \in DOMAIN walk.todo :
            walk.todo[i].node \in cached \/ Cardinality(cached) = CacheEntries
    /\ phase = "crashed" => Cardinality(DOMAIN disk.nodes) > CacheEntries

\* Opening a volume ends, whatever the tree (get_snapshots_from_branch_node
\* limits the recursion).
OpenEnds == phase = "root" ~> phase \in {"open", "crashed"}
=============================================================================
