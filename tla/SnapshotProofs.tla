--------------------------- MODULE SnapshotProofs ---------------------------
(***************************************************************************)
(* Proofs about Snapshot, for every set of disks, every cache size and     *)
(* every recursion limit: the cache keeps to its size and the recursion to *)
(* its limit, the walk loses a node that it holds only when the cache is   *)
(* full, and a volume gets all of its snapshots or none.                   *)
(***************************************************************************)
EXTENDS Snapshot, FiniteSetTheorems, SequenceTheorems, TLAPS

\* What the walk has to do: an entry of a branch, and the depth it leads to.
Place == [node : DOMAIN disk.nodes, index : Nat, depth : 0 .. RecursionLimit + 1]

\* The walk is a walk of this disk.
WalkOK ==
    walk \in [node : DOMAIN disk.nodes \cup {0}, depth : 0 .. RecursionLimit + 1,
              todo : Seq(Place), failed : BOOLEAN]

\* The cache is that of the walk: empty before it starts, and of a tree during it.
CacheOK ==
    /\ IsFiniteSet(cached)
    /\ phase \in {"closed", "root"} => cached = {}
    /\ phase \in {"root", "node", "next"} => hasTree
    /\ phase = "node" => walk.node \in DOMAIN disk.nodes
    /\ \A b \in cached : IsBTreeNode(disk, b)

Shape == TypeOK /\ WalkOK /\ CacheOK

----------------------------------------------------------------------------

\* Whatever is evicted, a cache with another node in it is finite, within its
\* size, and a set of blocks of the disk.
LEMMA CacheWithShape ==
    ASSUME NEW block, NEW evicted, IsFiniteSet(cached), Cardinality(cached) <= CacheEntries,
           evicted \in cached \/ cached = {}
    PROVE  /\ IsFiniteSet(CacheWith(block, evicted))
           /\ Cardinality(CacheWith(block, evicted)) <= CacheEntries
           /\ CacheWith(block, evicted) \subseteq cached \cup {block}
           /\ block \in CacheWith(block, evicted)
           /\ \/ cached \subseteq CacheWith(block, evicted)
              \/ Cardinality(CacheWith(block, evicted)) = CacheEntries
<1>0. Cardinality(cached) \in Nat /\ CacheEntries \in Nat \ {0}
  BY FS_CardinalityType, CacheEntriesAssumption
<1>1. CASE block \in cached
  BY <1>1 DEF CacheWith
<1>2. CASE block \notin cached /\ Cardinality(cached) < CacheEntries
  <2>1. CacheWith(block, evicted) = cached \cup {block}
    BY <1>2 DEF CacheWith
  <2>2. IsFiniteSet(cached \cup {block}) /\ Cardinality(cached \cup {block}) = Cardinality(cached) + 1
    BY <1>2, FS_AddElement
  <2> QED BY <2>1, <2>2, <1>0, <1>2
<1>3. CASE block \notin cached /\ ~(Cardinality(cached) < CacheEntries)
  <2>1. CacheWith(block, evicted) = (cached \ {evicted}) \cup {block}
    BY <1>3 DEF CacheWith
  <2>2. cached # {}
    BY <1>3, <1>0, FS_EmptySet
  <2>3. IsFiniteSet(cached \ {evicted}) /\ Cardinality(cached \ {evicted}) = Cardinality(cached) - 1
    BY <2>2, FS_RemoveElement
  <2>4. /\ IsFiniteSet((cached \ {evicted}) \cup {block})
        /\ Cardinality((cached \ {evicted}) \cup {block}) = Cardinality(cached \ {evicted}) + 1
    BY <2>3, <1>3, FS_AddElement
  <2>5. Cardinality(cached) = CacheEntries
    BY <1>0, <1>3
  <2>6. Cardinality((cached \ {evicted}) \cup {block}) = CacheEntries
    BY <2>3, <2>4, <2>5, <1>0
  <2> QED BY <2>1, <2>4, <2>6, <1>0
<1> QED BY <1>1, <1>2, <1>3

\* An empty cache is within its size.
LEMMA EmptyCache == Cardinality({}) <= CacheEntries
<1>1. Cardinality({}) = 0 BY FS_EmptySet
<1> QED BY <1>1, CacheEntriesAssumption

\* No walk is a walk of every disk.
LEMMA EmptyWalk ==
    ASSUME walk' = NoWalk
    PROVE  WalkOK'
<1>1. <<>> \in Seq(Place)' OBVIOUS
<1> QED BY <1>1, CacheEntriesAssumption DEF WalkOK, NoWalk

\* An error empties the cache and drops the tree.
LEMMA WalkEndsShape ==
    ASSUME Shape, NEW failed \in BOOLEAN, WalkEnds(failed)
    PROVE  Shape'
<1>0. walk' = [node |-> 0, depth |-> 0, todo |-> <<>>, failed |-> failed]
  BY DEF WalkEnds, NoWalk
<1>1. TypeOK'
  <2>2. cached' = {} /\ disk' = disk /\ phase' = "open" /\ hasTree' = FALSE
    BY DEF WalkEnds
  <2>3. walk'.depth = 0 BY <1>0
  <2>4. Cardinality(cached') <= CacheEntries BY <2>2, EmptyCache
  <2>5. walk'.depth \in 0 .. RecursionLimit + 1 BY <2>3, CacheEntriesAssumption
  <2>6. disk' \in Volumes /\ cached' \subseteq DOMAIN disk'.nodes BY <2>2 DEF Shape, TypeOK
  <2>7. hasTree' \in BOOLEAN /\ phase' \in {"closed", "root", "node", "next", "open", "crashed"} BY <2>2
  <2> QED BY <2>2, <2>4, <2>5, <2>6, <2>7 DEF TypeOK
<1>2. WalkOK'
  BY <1>0, CacheEntriesAssumption DEF WalkOK
<1>3. CacheOK'
  BY FS_EmptySet DEF Shape, CacheOK, WalkEnds
<1> QED BY <1>1, <1>2, <1>3 DEF Shape

\* The places that a branch adds are places of this disk.
LEMMA BranchPlaces ==
    ASSUME Shape, phase = "node", ~(walk.depth > RecursionLimit)
    PROVE  get_snapshots_from_branch_node \in Seq(Place)
<1> DEFINE n == Len(disk.nodes[walk.node].entries)
<1>1. n \in Nat /\ DOMAIN disk.nodes[walk.node].entries = 1 .. n
  BY VolumesAssumption DEF Shape, TypeOK, CacheOK
<1>2. walk.depth + 1 \in 0 .. RecursionLimit + 1
  BY CacheEntriesAssumption DEF Shape, TypeOK
<1>3. walk.node \in DOMAIN disk.nodes
  BY DEF Shape, CacheOK
<1>4. \A i \in 1 .. n : [node |-> walk.node, index |-> i, depth |-> walk.depth + 1] \in Place
  BY <1>1, <1>2, <1>3 DEF Place
<1> HIDE DEF n
<1>5. get_snapshots_from_branch_node
        = [i \in 1 .. n |-> [node |-> walk.node, index |-> i, depth |-> walk.depth + 1]]
  BY <1>1 DEF get_snapshots_from_branch_node
<1>6. get_snapshots_from_branch_node \in [1 .. n -> Place]
  BY <1>4, <1>5
<1> QED BY <1>6, <1>1

----------------------------------------------------------------------------

LEMMA InitShape == Init => Shape
<1> SUFFICES ASSUME Init PROVE Shape OBVIOUS
<1>1. TypeOK
  <2>1. cached = {} BY DEF Init
  <2>2. Cardinality(cached) <= CacheEntries BY <2>1, EmptyCache
  <2>3. walk.depth \in 0 .. RecursionLimit + 1 BY CacheEntriesAssumption DEF Init, NoWalk
  <2>4. disk \in Volumes /\ cached \subseteq DOMAIN disk.nodes BY <2>1 DEF Init
  <2>5. hasTree \in BOOLEAN /\ phase \in {"closed", "root", "node", "next", "open", "crashed"} BY DEF Init
  <2> QED BY <2>1, <2>2, <2>3, <2>4, <2>5 DEF TypeOK
<1>2. WalkOK
  <2>1. <<>> \in Seq(Place) OBVIOUS
  <2> QED BY <2>1, CacheEntriesAssumption DEF Init, WalkOK, NoWalk
<1>3. CacheOK
  BY FS_EmptySet DEF Init, CacheOK
<1> QED BY <1>1, <1>2, <1>3 DEF Shape

LEMMA InitializeShape ==
    ASSUME Shape, snapshot_metadata_tree_initialize
    PROVE  Shape'
<1>1. TypeOK'
  BY CacheEntriesAssumption DEF Shape, TypeOK, CacheOK, snapshot_metadata_tree_initialize, NoWalk
<1>2. WalkOK'
  BY EmptyWalk DEF snapshot_metadata_tree_initialize
<1>3. CacheOK'
  BY DEF Shape, CacheOK, snapshot_metadata_tree_initialize
<1> QED BY <1>1, <1>2, <1>3 DEF Shape

LEMMA RootShape ==
    ASSUME Shape, get_root_node
    PROVE  Shape'
<1>1. PICK evicted \in cached \cup {0} :
        LET now == CacheWith(RootBlock, evicted)
        IN  IF ~IsRootNode(RootBlock) \/ disk.root \notin now
            THEN WalkEnds(FALSE)
            ELSE /\ cached' = now
                 /\ walk' = [walk EXCEPT !.node = disk.root]
                 /\ phase' = "node"
                 /\ UNCHANGED <<disk, hasTree, snapshots, snapshot, answer>>
  BY DEF get_root_node
<1> DEFINE now == CacheWith(RootBlock, evicted)
<1>2. cached = {} /\ phase = "root" /\ hasTree
  BY DEF Shape, CacheOK, get_root_node
<1>3. /\ IsFiniteSet(now) /\ Cardinality(now) <= CacheEntries
      /\ now \subseteq cached \cup {RootBlock}
  BY <1>2, CacheWithShape DEF Shape, TypeOK, CacheOK
<1> HIDE DEF now
<1>4. CASE WalkEnds(FALSE)
  BY <1>4, WalkEndsShape
<1>5. CASE /\ IsRootNode(RootBlock) /\ disk.root \in now
           /\ cached' = now
           /\ walk' = [walk EXCEPT !.node = disk.root]
           /\ phase' = "node"
           /\ UNCHANGED <<disk, hasTree, snapshots, snapshot, answer>>
  <2>1. now \subseteq DOMAIN disk.nodes /\ disk.root \in DOMAIN disk.nodes
    BY <1>2, <1>3, <1>5 DEF IsRootNode, IsNode
  <2>2. TypeOK'
    BY <1>2, <1>3, <1>5, <2>1 DEF Shape, TypeOK, WalkOK
  <2>3. WalkOK'
    BY <1>5, <2>1 DEF Shape, WalkOK, Place
  <2>4. CacheOK'
    BY <1>2, <1>3, <1>5, <2>1 DEF Shape, CacheOK, WalkOK, IsRootNode, IsBTreeNode, RootBlock
  <2> QED BY <2>2, <2>3, <2>4 DEF Shape
<1> QED BY <1>1, <1>4, <1>5 DEF now

LEMMA SearchNodeShape ==
    ASSUME Shape, SearchNode
    PROVE  Shape'
<1>0. phase = "node" /\ hasTree
  BY DEF SearchNode, Shape, CacheOK
<1>1. CASE \E failed \in BOOLEAN : WalkEnds(failed)
  BY <1>1, WalkEndsShape
<1>2. CASE phase' = "next" /\ UNCHANGED <<disk, hasTree, cached, walk, snapshot, answer>>
  BY <1>0, <1>2 DEF Shape, TypeOK, WalkOK, CacheOK, Place
<1>3. CASE /\ ~(walk.depth > RecursionLimit)
           /\ walk' = [walk EXCEPT !.todo = get_snapshots_from_branch_node \o @]
           /\ phase' = "next"
           /\ UNCHANGED <<disk, hasTree, cached, snapshots, snapshot, answer>>
  <2>1. get_snapshots_from_branch_node \o walk.todo \in Seq(Place)
    BY <1>0, <1>3, BranchPlaces DEF Shape, WalkOK
  <2>2. walk' = [node |-> walk.node, depth |-> walk.depth,
                 todo |-> get_snapshots_from_branch_node \o walk.todo, failed |-> walk.failed]
    BY <1>3 DEF Shape, WalkOK
  <2>3. Place' = Place
    BY <1>3 DEF Place
  <2>4. WalkOK'
    BY <2>1, <2>2, <2>3, <1>3 DEF Shape, WalkOK
  <2>5. TypeOK'
    BY <1>0, <1>3, <2>2 DEF Shape, TypeOK
  <2>6. CacheOK'
    BY <1>0, <1>3 DEF Shape, CacheOK
  <2> QED BY <2>4, <2>5, <2>6 DEF Shape
<1> QED BY <1>1, <1>2, <1>3 DEF SearchNode

LEMMA SubNodeShape ==
    ASSUME Shape, get_sub_node
    PROVE  Shape'
<1> DEFINE at == Head(walk.todo)
           block == get_sub_node_block_number_from_entry(disk.nodes[at.node].entries[at.index])
<1>0. phase = "next" /\ hasTree /\ walk.todo # <<>> /\ walk.todo \in Seq(Place)
  BY DEF get_sub_node, Shape, CacheOK, WalkOK
<1>1. at \in Place /\ Tail(walk.todo) \in Seq(Place)
  BY <1>0
<1>2. CASE WalkEnds(FALSE)
  BY <1>2, WalkEndsShape
<1>3. CASE /\ block \in cached \/ IsSubNode(block)
           /\ \E evicted \in cached : cached' = CacheWith(block, evicted)
           /\ walk' = [walk EXCEPT !.node = block, !.depth = at.depth, !.todo = Tail(@)]
           /\ phase' = "node"
           /\ UNCHANGED <<disk, hasTree, snapshots, snapshot, answer>>
  <2> HIDE DEF at, block
  <2>1. PICK evicted \in cached : cached' = CacheWith(block, evicted)
    BY <1>3
  <2>2. block \in DOMAIN disk.nodes /\ IsBTreeNode(disk, block)
    BY <1>3 DEF IsSubNode, IsBTreeNode, IsNode, Shape, CacheOK
  <2>3. /\ IsFiniteSet(cached') /\ Cardinality(cached') <= CacheEntries
        /\ cached' \subseteq cached \cup {block}
    BY <2>1, CacheWithShape DEF Shape, TypeOK, CacheOK
  <2>4. walk' = [node |-> block, depth |-> at.depth, todo |-> Tail(walk.todo),
                 failed |-> walk.failed]
    BY <1>3 DEF Shape, WalkOK
  <2>5. at.depth \in 0 .. RecursionLimit + 1
    BY <1>1 DEF Place
  <2>6. Place' = Place
    BY <1>3 DEF Place
  <2>7. WalkOK'
    BY <1>1, <1>3, <2>2, <2>4, <2>5, <2>6 DEF Shape, WalkOK
  <2>8. TypeOK'
    BY <1>0, <1>3, <2>2, <2>3, <2>4, <2>5 DEF Shape, TypeOK
  <2>9. CacheOK'
    BY <1>0, <1>3, <2>2, <2>3, <2>4 DEF Shape, CacheOK
  <2> QED BY <2>7, <2>8, <2>9 DEF Shape
<1> QED BY <1>2, <1>3 DEF get_sub_node

\* A step that leaves the walk and the cache alone.
LEMMA IdleShape ==
    ASSUME Shape, UNCHANGED <<disk, phase, hasTree, cached, walk>>
    PROVE  Shape'
BY DEF Shape, TypeOK, WalkOK, CacheOK, Place

LEMMA EndsShape ==
    ASSUME Shape, get_snapshots_ends
    PROVE  Shape'
<1>1. TypeOK'
  BY CacheEntriesAssumption DEF Shape, TypeOK, get_snapshots_ends, NoWalk
<1>2. WalkOK'
  BY EmptyWalk DEF get_snapshots_ends
<1>3. CacheOK'
  BY DEF Shape, CacheOK, get_snapshots_ends
<1> QED BY <1>1, <1>2, <1>3 DEF Shape

LEMMA CrashShape ==
    ASSUME Shape, UseFreed
    PROVE  Shape'
BY DEF Shape, TypeOK, WalkOK, CacheOK, Place, UseFreed

LEMMA CloseShape ==
    ASSUME Shape, volume_close \/ Restart
    PROVE  Shape'
<1>1. TypeOK'
  <2>1. cached' = {} BY DEF volume_close, Restart
  <2>2. Cardinality(cached') <= CacheEntries BY <2>1, EmptyCache
  <2>3. walk'.depth \in 0 .. RecursionLimit + 1 BY CacheEntriesAssumption DEF volume_close, Restart, NoWalk
  <2>4. disk' \in Volumes /\ cached' \subseteq DOMAIN disk'.nodes
    BY <2>1 DEF Shape, TypeOK, volume_close, Restart
  <2>5. hasTree' \in BOOLEAN /\ phase' \in {"closed", "root", "node", "next", "open", "crashed"}
    BY DEF volume_close, Restart
  <2> QED BY <2>1, <2>2, <2>3, <2>4, <2>5 DEF TypeOK
<1>2. WalkOK'
  BY EmptyWalk DEF volume_close, Restart
<1>3. CacheOK'
  BY FS_EmptySet DEF Shape, CacheOK, volume_close, Restart
<1> QED BY <1>1, <1>2, <1>3 DEF Shape

LEMMA NextShape ==
    ASSUME Shape, [Next]_vars
    PROVE  Shape'
<1>1. CASE snapshot_metadata_tree_initialize
  BY <1>1, InitializeShape
<1>2. CASE get_root_node
  BY <1>2, RootShape
<1>3. CASE SearchNode
  BY <1>3, SearchNodeShape
<1>4. CASE get_sub_node
  BY <1>4, SubNodeShape
<1>5. CASE get_snapshots_ends
  BY <1>5, EndsShape
<1>6. CASE ReadFails
  BY <1>6, WalkEndsShape DEF ReadFails
<1>7. CASE volume_close \/ Restart
  BY <1>7, CloseShape
<1>9. CASE UseFreed
  BY <1>9, CrashShape
<1>8. CASE \/ volume_get_number_of_snapshots \/ volume_get_snapshot_by_index
           \/ snapshot_get_utf8_name_size \/ snapshot_get_utf8_name
           \/ snapshot_get_utf16_name_size \/ snapshot_get_utf16_name
           \/ snapshot_free \/ Return \/ UNCHANGED vars
  BY <1>8, IdleShape DEF volume_get_number_of_snapshots, volume_get_snapshot_by_index,
     snapshot_get_utf8_name_size, snapshot_get_utf8_name, snapshot_get_utf16_name_size,
     snapshot_get_utf16_name, SnapshotName, snapshot_free, Return, vars
<1> QED BY <1>1, <1>2, <1>3, <1>4, <1>5, <1>6, <1>7, <1>8, <1>9 DEF Next, Walk

\* The cache of the snapshot metadata tree keeps to its size and goes with the
\* tree, and the walk keeps to the recursion limit, whatever tree is on the disk.
THEOREM TypeCorrect == Spec => []TypeOK
<1>1. Init => Shape
  BY InitShape
<1>2. Shape /\ [Next]_vars => Shape'
  BY NextShape
<1>3. Shape => TypeOK
  BY DEF Shape
<1> QED BY <1>1, <1>2, <1>3, PTL DEF Spec

----------------------------------------------------------------------------
(* Nodes that are held.                                                    *)

\* A node that the walk still needs is in the cache, or the cache is full.
Kept(b) == b \in cached \/ Cardinality(cached) = CacheEntries

\* In a crash there is a node that was freed.
Held ==
    /\ phase = "root" => walk.todo = <<>>
    /\ phase = "node" => walk.node \in cached
    /\ phase \in {"node", "next", "crashed"} =>
         \A i \in DOMAIN walk.todo : Kept(walk.todo[i].node)
    /\ phase = "crashed" => \E i \in DOMAIN walk.todo : walk.todo[i].node \notin cached

LEMMA RootHeld ==
    ASSUME Shape, Held, get_root_node
    PROVE  Held'
<1>1. CASE phase' = "open"
  BY <1>1 DEF Held
<1>2. CASE /\ disk.root \in cached' /\ phase' = "node"
           /\ walk' = [walk EXCEPT !.node = disk.root]
  <2>1. walk.todo = <<>> /\ walk'.todo = walk.todo /\ walk'.node = disk.root
    BY <1>2 DEF get_root_node, Held, Shape, WalkOK
  <2> QED BY <1>2, <2>1 DEF Held
<1> QED BY <1>1, <1>2 DEF get_root_node, WalkEnds

LEMMA SearchNodeHeld ==
    ASSUME Shape, Held, SearchNode
    PROVE  Held'
<1>0. phase = "node" /\ walk.node \in cached
  BY DEF SearchNode, Held
<1>1. CASE phase' = "open"
  BY <1>1 DEF Held
<1>2. CASE phase' = "next" /\ UNCHANGED <<disk, hasTree, cached, walk, snapshot, answer>>
  BY <1>0, <1>2 DEF Held, Kept
<1>3. CASE /\ ~(walk.depth > RecursionLimit)
           /\ walk' = [walk EXCEPT !.todo = get_snapshots_from_branch_node \o @]
           /\ phase' = "next"
           /\ UNCHANGED <<disk, hasTree, cached, snapshots, snapshot, answer>>
  <2> DEFINE new == get_snapshots_from_branch_node
  <2>1. new \in Seq(Place) /\ walk.todo \in Seq(Place)
    BY <1>0, <1>3, BranchPlaces DEF Shape, WalkOK
  <2>2. walk'.todo = new \o walk.todo
    BY <1>3 DEF Shape, WalkOK
  <2>3. \A i \in DOMAIN new : new[i].node = walk.node
    BY DEF get_snapshots_from_branch_node
  <2> HIDE DEF new
  <2>4. \A i \in DOMAIN (new \o walk.todo) : Kept((new \o walk.todo)[i].node)
    <3> SUFFICES ASSUME NEW i \in DOMAIN (new \o walk.todo)
                 PROVE  Kept((new \o walk.todo)[i].node)
      OBVIOUS
    <3>1. CASE i \in 1 .. Len(new)
      <4>1. (new \o walk.todo)[i] = new[i] /\ i \in DOMAIN new
        BY <2>1, <3>1
      <4> QED BY <4>1, <2>3, <1>0 DEF Kept
    <3>2. CASE i \notin 1 .. Len(new)
      <4>1. (new \o walk.todo)[i] = walk.todo[i - Len(new)] /\ i - Len(new) \in DOMAIN walk.todo
        BY <2>1, <3>2
      <4> QED BY <4>1, <1>0 DEF Held
    <3> QED BY <3>1, <3>2
  <2> QED BY <1>3, <2>2, <2>4 DEF Held, Kept
<1> QED BY <1>1, <1>2, <1>3 DEF SearchNode, WalkEnds

LEMMA SubNodeHeld ==
    ASSUME Shape, Held, get_sub_node
    PROVE  Held'
<1> DEFINE at == Head(walk.todo)
           block == get_sub_node_block_number_from_entry(disk.nodes[at.node].entries[at.index])
<1>1. CASE phase' = "open"
  BY <1>1 DEF Held
<1>2. CASE /\ \E evicted \in cached : cached' = CacheWith(block, evicted)
           /\ walk' = [walk EXCEPT !.node = block, !.depth = at.depth, !.todo = Tail(@)]
           /\ phase' = "node"
  <2>0. phase = "next" /\ walk.todo # <<>> /\ walk.todo \in Seq(Place)
    BY DEF get_sub_node, Shape, WalkOK
  <2> HIDE DEF at, block
  <2>1. block \in cached' /\ (cached \subseteq cached' \/ Cardinality(cached') = CacheEntries)
    BY <1>2, CacheWithShape DEF Shape, TypeOK, CacheOK
  <2>2. walk'.node = block /\ walk'.todo = Tail(walk.todo)
    BY <1>2 DEF Shape, WalkOK
  <2>3. \A i \in DOMAIN Tail(walk.todo) :
            i + 1 \in DOMAIN walk.todo /\ Tail(walk.todo)[i] = walk.todo[i + 1]
    BY <2>0
  <2>4. \A i \in DOMAIN walk.todo : Kept(walk.todo[i].node)
    BY <2>0 DEF Held
  <2>5. \A b : Kept(b) => Kept(b)'
    <3> SUFFICES ASSUME NEW b, Kept(b) PROVE Kept(b)'
      OBVIOUS
    <3>1. CASE Cardinality(cached) = CacheEntries /\ cached \subseteq cached'
      <4>1. IsFiniteSet(cached') /\ Cardinality(cached') <= CacheEntries
        BY SubNodeShape DEF Shape, TypeOK, CacheOK
      <4>2. Cardinality(cached) <= Cardinality(cached')
        BY <3>1, <4>1, FS_Subset
      <4>3. Cardinality(cached') \in Nat /\ CacheEntries \in Nat
        BY <4>1, FS_CardinalityType, CacheEntriesAssumption
      <4> QED BY <3>1, <4>1, <4>2, <4>3 DEF Kept
    <3> QED BY <2>1, <3>1 DEF Kept
  <2> QED BY <1>2, <2>1, <2>2, <2>3, <2>4, <2>5 DEF Held
<1> QED BY <1>1, <1>2 DEF get_sub_node, WalkEnds

LEMMA CrashHeld ==
    ASSUME Shape, Held, UseFreed
    PROVE  Held'
<1>1. /\ phase = "next" /\ phase' = "crashed" /\ UNCHANGED <<cached, walk>>
      /\ walk.todo # <<>> /\ walk.todo \in Seq(Place) /\ Head(walk.todo).node \notin cached
  BY DEF UseFreed, Shape, WalkOK
<1>2. 1 \in DOMAIN walk.todo /\ walk.todo[1].node \notin cached
  BY <1>1
<1> QED BY <1>1, <1>2 DEF Held, Kept

\* A set of blocks that is full, and a block outside it, are more than the cache
\* has room for.
LEMMA LargeTree ==
    ASSUME Shape, Held, phase = "crashed"
    PROVE  Cardinality(DOMAIN disk.nodes) > CacheEntries
<1>1. PICK i \in DOMAIN walk.todo : walk.todo[i].node \notin cached
  BY DEF Held
<1>2. Cardinality(cached) = CacheEntries
  BY <1>1 DEF Held, Kept
<1>3. walk.todo[i].node \in DOMAIN disk.nodes
  <2>1. walk.todo \in Seq(Place)
    BY DEF Shape, WalkOK
  <2>2. walk.todo[i] \in Place
    BY <1>1, <2>1
  <2> QED BY <2>2 DEF Place
<1>4. cached \subseteq DOMAIN disk.nodes /\ cached # DOMAIN disk.nodes
  BY <1>1, <1>3 DEF Shape, TypeOK
<1>5. IsFiniteSet(DOMAIN disk.nodes)
  BY VolumesAssumption DEF Shape, TypeOK
<1>7. Cardinality(DOMAIN disk.nodes) \in Nat /\ CacheEntries \in Nat
  BY <1>5, FS_CardinalityType, CacheEntriesAssumption
<1>6. Cardinality(cached) < Cardinality(DOMAIN disk.nodes)
  BY <1>2, <1>4, <1>5, <1>7, FS_Subset
<1> QED BY <1>2, <1>6, <1>7

LEMMA NextHeld ==
    ASSUME Shape, Held, [Next]_vars
    PROVE  Held'
<1>1. CASE snapshot_metadata_tree_initialize
  BY <1>1 DEF snapshot_metadata_tree_initialize, NoWalk, Held
<1>2. CASE get_root_node
  BY <1>2, RootHeld
<1>3. CASE SearchNode
  BY <1>3, SearchNodeHeld
<1>4. CASE get_sub_node
  BY <1>4, SubNodeHeld
<1>5. CASE get_snapshots_ends \/ ReadFails \/ volume_close \/ Restart
  BY <1>5 DEF get_snapshots_ends, ReadFails, WalkEnds, volume_close, Restart, Held
<1>7. CASE UseFreed
  BY <1>7, CrashHeld
<1>6. CASE \/ volume_get_number_of_snapshots \/ volume_get_snapshot_by_index
           \/ snapshot_get_utf8_name_size \/ snapshot_get_utf8_name
           \/ snapshot_get_utf16_name_size \/ snapshot_get_utf16_name
           \/ snapshot_free \/ Return \/ UNCHANGED vars
  <2>1. UNCHANGED <<phase, cached, walk>>
    BY <1>6 DEF volume_get_number_of_snapshots, volume_get_snapshot_by_index,
       snapshot_get_utf8_name_size, snapshot_get_utf8_name, snapshot_get_utf16_name_size,
       snapshot_get_utf16_name, SnapshotName, snapshot_free, Return, vars
  <2> QED BY <2>1 DEF Held, Kept
<1> QED BY <1>1, <1>2, <1>3, <1>4, <1>5, <1>6, <1>7 DEF Next, Walk

\* However large the tree, a node that the walk holds a pointer to is in the cache
\* until the cache is full; a freed one is used only in a tree of more nodes than
\* the cache has room for (get_snapshots_from_branch_node, get_sub_node).
THEOREM NodesAreHeldUntilFull == Spec => []HeldUntilFull
<1>1. Init => Shape /\ Held
  BY InitShape DEF Init, Held, NoWalk
<1>2. Shape /\ Held /\ [Next]_vars => (Shape /\ Held)'
  BY NextShape, NextHeld
<1>3. Shape /\ Held => HeldUntilFull
  BY LargeTree DEF Held, Kept, HeldUntilFull
<1> QED BY <1>1, <1>2, <1>3, PTL DEF Spec

----------------------------------------------------------------------------
(* All snapshots or none.                                                  *)

\* Where the content of what the walk still has to do starts: of an entry, or the
\* end of the content after the last one.
Point(i) ==
    IF i \in DOMAIN walk.todo THEN disk.cuts[walk.todo[i].node][walk.todo[i].index]
    ELSE Len(disk.content)

\* The entries that are still to be walked through hold the content from k on, each
\* one from where the one before it ends.
Continues(k) ==
    /\ k = Point(1)
    /\ \A i \in DOMAIN walk.todo :
         LET at == walk.todo[i]
         IN  /\ disk.nodes[at.node].level # 0
             /\ at.index \in DOMAIN disk.nodes[at.node].entries
             /\ disk.cuts[at.node][at.index + 1] = Point(i + 1)

\* The first k snapshots have been collected.
Collected(k) == snapshots = SubSeq(disk.content, 1, k)

\* What is collected and what is still to be walked through make up the content.
Progress ==
    /\ phase \in {"root", "node", "next"} => disk.root # 0
    /\ phase \in {"node", "next"} => ~TranslatedRoot
    /\ phase = "root" => snapshots = <<>> /\ walk = NoWalk
    /\ phase = "node" => Collected(FirstCut(disk, walk.node)) /\ Continues(LastCut(disk, walk.node))
    /\ phase = "next" => Collected(Point(1)) /\ Continues(Point(1))

\* In a tree without damage the levels of the nodes go down as the depth goes up.
Descends ==
    ~disk.damaged =>
        LET height == disk.nodes[RootBlock].level
        IN  /\ phase = "node" => walk.depth + disk.nodes[walk.node].level <= height
            /\ phase \in {"node", "next"} =>
                 \A i \in DOMAIN walk.todo :
                    walk.todo[i].depth + disk.nodes[walk.todo[i].node].level <= height + 1
\* A first part of a sequence and what follows it.
LEMMA NextPart ==
    ASSUME NEW S, NEW s \in Seq(S), NEW k \in 0 .. Len(s), NEW l \in 0 .. Len(s), k <= l
    PROVE  SubSeq(s, 1, k) \o SubSeq(s, k + 1, l) = SubSeq(s, 1, l)
<1> DEFINE a == SubSeq(s, 1, k)
           b == SubSeq(s, k + 1, l)
           c == SubSeq(s, 1, l)
<1>0. Len(s) \in Nat /\ k \in Nat /\ l \in Nat
  OBVIOUS
<1>1. a \in Seq(S) /\ Len(a) = k /\ \A i \in 1 .. k : a[i] = s[i]
  BY <1>0
<1>2. b \in Seq(S) /\ Len(b) = l - k /\ \A i \in 1 .. l - k : b[i] = s[k + i]
  BY <1>0
<1>3. c \in Seq(S) /\ Len(c) = l /\ \A i \in 1 .. l : c[i] = s[i]
  BY <1>0
<1> HIDE DEF a, b, c
<1>4. a \o b \in Seq(S) /\ Len(a \o b) = l
  <2>1. a \o b \in Seq(S) /\ Len(a \o b) = Len(a) + Len(b)
    BY <1>1, <1>2, ConcatProperties
  <2>2. k + (l - k) = l
    BY <1>0
  <2> QED BY <2>1, <2>2, <1>1, <1>2
<1>5. ASSUME NEW i \in 1 .. l PROVE (a \o b)[i] = c[i]
  <2>1. CASE i <= k
    BY <2>1, <1>0, <1>1, <1>2, <1>3
  <2>2. CASE i > k
    <3>1. (a \o b)[i] = b[i - k] /\ i - k \in 1 .. l - k
      BY <2>2, <1>0, <1>1, <1>2
    <3>2. b[i - k] = s[k + (i - k)]
      BY <3>1, <1>2
    <3>3. k + (i - k) = i
      BY <1>0
    <3> QED BY <3>1, <3>2, <3>3, <1>3
  <2>3. i <= k \/ i > k
    BY <1>0
  <2> QED BY <2>1, <2>2, <2>3
<1> QED BY <1>3, <1>4, <1>5, SeqEqual DEF a, b, c

\* What the disk of a state is assumed to be.
LEMMA DiskFacts ==
    ASSUME Shape
    PROVE  /\ HoldsContent(disk) /\ (~disk.damaged => IsSound(disk))
           /\ disk.content \in Seq({disk.content[i] : i \in DOMAIN disk.content})
           /\ Len(disk.content) \in Nat
           /\ \A b \in DOMAIN disk.nodes :
                /\ disk.cuts[b] \in Seq(0 .. Len(disk.content)) /\ Len(disk.cuts[b]) > 0
                /\ FirstCut(disk, b) \in 0 .. Len(disk.content)
                /\ LastCut(disk, b) \in 0 .. Len(disk.content)
<1>1. HoldsContent(disk) /\ (~disk.damaged => IsSound(disk))
  BY ContentAssumption DEF Shape, TypeOK
<1>2. disk.content \in Seq({disk.content[i] : i \in DOMAIN disk.content})
  BY VolumesAssumption DEF Shape, TypeOK
<1>3. Len(disk.content) \in Nat
  BY <1>2
<1>4. ASSUME NEW b \in DOMAIN disk.nodes
      PROVE  /\ disk.cuts[b] \in Seq(0 .. Len(disk.content)) /\ Len(disk.cuts[b]) > 0
             /\ FirstCut(disk, b) \in 0 .. Len(disk.content)
             /\ LastCut(disk, b) \in 0 .. Len(disk.content)
  <2>1. disk.cuts[b] \in Seq(0 .. Len(disk.content)) /\ disk.cuts[b] # <<>>
    BY <1>1 DEF HoldsContent
  <2>2. Len(disk.cuts[b]) \in Nat /\ Len(disk.cuts[b]) > 0
    BY <2>1
  <2> QED BY <2>1, <2>2 DEF FirstCut, LastCut
<1> QED BY <1>1, <1>2, <1>3, <1>4

----------------------------------------------------------------------------

\* The walk starts at the root with nothing collected and all of the content below it.
LEMMA RootProgress ==
    ASSUME Shape, Progress, get_root_node
    PROVE  Progress' /\ Descends' /\ AllSnapshotsOrNone'
<1>0. PICK evicted \in cached \cup {0} :
        LET now == CacheWith(RootBlock, evicted)
        IN  IF ~IsRootNode(RootBlock) \/ disk.root \notin now
            THEN WalkEnds(FALSE)
            ELSE /\ cached' = now
                 /\ walk' = [walk EXCEPT !.node = disk.root]
                 /\ phase' = "node"
                 /\ UNCHANGED <<disk, hasTree, snapshots, snapshot, answer>>
  BY DEF get_root_node
<1> DEFINE now == CacheWith(RootBlock, evicted)
<1>1. cached = {} /\ phase = "root" /\ snapshots = <<>> /\ walk = NoWalk /\ disk.root # 0
  BY DEF Shape, CacheOK, get_root_node, Progress
<1>2. now = {RootBlock}
  <2>1. now \subseteq cached \cup {RootBlock} /\ RootBlock \in now
    BY <1>1, CacheWithShape DEF Shape, TypeOK, CacheOK
  <2> QED BY <2>1, <1>1
<1> HIDE DEF now
<1>3. CASE (~IsRootNode(RootBlock) \/ disk.root \notin now) /\ WalkEnds(FALSE)
  <2>1. disk.damaged \/ TranslatedRoot
    BY <1>1, <1>2, <1>3, DiskFacts DEF IsSound, IsRootNode, RootBlock, TranslatedRoot
  <2>2. phase' = "open" /\ disk' = disk /\ snapshots' = <<>>
    BY <1>3 DEF WalkEnds
  <2> QED BY <2>1, <2>2 DEF Progress, Descends, AllSnapshotsOrNone, TranslatedRoot, RootBlock
<1>4. CASE /\ IsRootNode(RootBlock) /\ disk.root \in now
           /\ walk' = [walk EXCEPT !.node = disk.root]
           /\ phase' = "node"
           /\ UNCHANGED <<disk, hasTree, snapshots, snapshot, answer>>
  <2>1. /\ walk'.node = RootBlock /\ walk'.todo = <<>> /\ walk'.depth = 0
        /\ disk' = disk /\ snapshots' = <<>> /\ phase' = "node"
        /\ RootBlock \in DOMAIN disk.nodes
    BY <1>1, <1>2, <1>4 DEF NoWalk, IsRootNode, IsNode
  <2>2. FirstCut(disk, RootBlock) = 0 /\ LastCut(disk, RootBlock) = Len(disk.content)
    BY <1>1, <1>4, DiskFacts DEF HoldsContent, IsRootNode, RootBlock
  <2>3. Collected(FirstCut(disk, walk.node))'
    <3>1. SubSeq(disk.content, 1, 0) = <<>>
      BY DiskFacts
    <3> QED BY <2>1, <2>2, <3>1 DEF Collected, FirstCut
  <2>4. Continues(LastCut(disk, walk.node))'
    <3>1. DOMAIN walk'.todo = {}
      BY <2>1
    <3> QED BY <2>1, <2>2, <3>1 DEF Continues, Point, LastCut
  <2>5. Progress'
    BY <1>1, <1>2, <1>4, <2>1, <2>3, <2>4 DEF Progress, TranslatedRoot, RootBlock
  <2>6. Descends'
    <3> SUFFICES ASSUME ~disk.damaged PROVE Descends'
      BY <2>1 DEF Descends
    <3>1. RootBlock' = RootBlock /\ DOMAIN walk'.todo = {}
      BY <2>1 DEF RootBlock
    <3>2. disk.nodes[RootBlock].level \in Nat
      BY <2>1, DiskFacts DEF IsSound
    <3>3. walk'.depth + disk'.nodes[walk'.node].level <= disk'.nodes[RootBlock'].level
      BY <2>1, <3>1, <3>2
    <3> QED BY <3>1, <3>3 DEF Descends
  <2> QED BY <2>1, <2>5, <2>6 DEF AllSnapshotsOrNone
<1> QED BY <1>0, <1>3, <1>4 DEF now

\* A leaf that can be read adds its part of the content.
LEMMA LeafProgress ==
    ASSUME Shape, Progress, Descends, phase = "node", disk.nodes[walk.node].level = 0,
           get_snapshots_from_leaf_node.ok,
           snapshots' = snapshots \o get_snapshots_from_leaf_node.found,
           phase' = "next", UNCHANGED <<disk, walk>>
    PROVE  Progress' /\ Descends'
<1> DEFINE b == walk.node
           c == disk.content
           k == FirstCut(disk, b)
           l == LastCut(disk, b)
           S == {disk.content[i] : i \in DOMAIN disk.content}
<1>1. b \in DOMAIN disk.nodes
  BY DEF Shape, CacheOK
<1>2. c \in Seq(S) /\ k \in 0 .. Len(c) /\ l \in 0 .. Len(c)
  BY <1>1, DiskFacts
<1>3. k <= l /\ get_snapshots_from_leaf_node.found = SubSeq(c, k + 1, l)
  BY <1>1, DiskFacts DEF HoldsContent, get_snapshots_from_leaf_node
<1>4. snapshots = SubSeq(c, 1, k) /\ Continues(l)
  BY DEF Progress, Collected
<1> HIDE DEF b, c, k, l, S
<1>5. snapshots' = SubSeq(c, 1, l)
  BY <1>2, <1>3, <1>4, NextPart, SMTT(30)
<1>6. Point(1)' = l
  BY <1>4 DEF Continues, Point
<1>7. Continues(Point(1))'
  BY <1>4, <1>6 DEF Continues, Point
<1>8. Collected(Point(1))'
  BY <1>5, <1>6 DEF Collected, c
<1>9. Progress'
  BY <1>7, <1>8 DEF Progress, TranslatedRoot, RootBlock
<1>10. Descends'
  BY DEF Descends, RootBlock
<1> QED BY <1>9, <1>10

\* A branch is replaced by its entries, which share its part of the content.
LEMMA BranchProgress ==
    ASSUME Shape, Progress, Descends, phase = "node", disk.nodes[walk.node].level # 0,
           ~(walk.depth > RecursionLimit),
           walk' = [walk EXCEPT !.todo = get_snapshots_from_branch_node \o @],
           phase' = "next", UNCHANGED <<disk, snapshots>>
    PROVE  Progress' /\ Descends'
<1> DEFINE b == walk.node
           new == get_snapshots_from_branch_node
           old == walk.todo
           n == Len(disk.nodes[b].entries)
           m == Len(old)
           cuts == disk.cuts[b]
           todo == walk'.todo
<1>1. b \in DOMAIN disk.nodes
  BY DEF Shape, CacheOK
<1>2. n \in Nat /\ DOMAIN disk.nodes[b].entries = 1 .. n
  BY <1>1, VolumesAssumption DEF Shape, TypeOK
<1>3. /\ cuts \in Seq(0 .. Len(disk.content)) /\ Len(cuts) = n + 1
      /\ FirstCut(disk, b) = cuts[1] /\ LastCut(disk, b) = cuts[n + 1]
  BY <1>1, DiskFacts DEF HoldsContent, FirstCut, LastCut
<1>4. new \in Seq(Place) /\ old \in Seq(Place) /\ m \in Nat
  BY BranchPlaces DEF Shape, WalkOK
<1>5. Len(new) = n /\ \A i \in 1 .. n :
        /\ new[i].node = b /\ new[i].index = i /\ new[i].depth = walk.depth + 1
  <2>1. new = [i \in 1 .. n |-> [node |-> b, index |-> i, depth |-> walk.depth + 1]]
    BY <1>2 DEF get_snapshots_from_branch_node
  <2>2. DOMAIN new = 1 .. n
    BY <2>1
  <2>3. Len(new) = n
    BY <2>2, <1>2, <1>4
  <2> QED BY <2>1, <2>3
<1>6. todo = new \o old
  BY DEF Shape, WalkOK
<1>7. Collected(FirstCut(disk, b)) /\ Continues(LastCut(disk, b))
  BY DEF Progress
<1>d. DOMAIN old = 1 .. m /\ Len(old) = m
  BY <1>4
<1> HIDE DEF new, old, n, m, cuts, todo
<1>8. DOMAIN todo = 1 .. n + m
  <2>1. new \o old \in Seq(Place) /\ Len(new \o old) = n + m
    BY <1>4, <1>5, <1>d, ConcatProperties
  <2> QED BY <2>1, <1>6
<1>9. /\ \A i \in 1 .. n : todo[i] = new[i]
      /\ \A i \in n + 1 .. n + m : todo[i] = old[i - n]
  BY <1>2, <1>4, <1>5, <1>6, <1>d
<1>10. ASSUME NEW i \in 1 .. n PROVE Point(i)' = cuts[i]
  <2>1. i \in DOMAIN todo /\ todo[i].node = b /\ todo[i].index = i
    BY <1>2, <1>4, <1>5, <1>8, <1>9
  <2> QED BY <2>1 DEF Point, cuts, todo
<1>11. ASSUME NEW i \in n + 1 .. n + m + 1 PROVE Point(i)' = Point(i - n)
  <2>1. CASE i \in n + 1 .. n + m
    <3>1. i \in DOMAIN todo /\ i - n \in DOMAIN old /\ todo[i] = old[i - n]
      BY <2>1, <1>2, <1>4, <1>8, <1>9, <1>d
    <3> QED BY <3>1 DEF Point, todo, old
  <2>2. CASE i = n + m + 1
    <3>1. i \notin DOMAIN todo /\ i - n \notin DOMAIN old
      BY <2>2, <1>2, <1>4, <1>8, <1>d
    <3> QED BY <3>1 DEF Point, todo, old
  <2>3. i \in n + 1 .. n + m \/ i = n + m + 1
    BY <1>2, <1>4
  <2> QED BY <2>1, <2>2, <2>3
<1>12. ASSUME NEW j, j = n + 1 PROVE Point(j)' = cuts[j]
  <2>1. j \in n + 1 .. n + m + 1 /\ j - n = 1
    BY <1>2, <1>4, <1>12
  <2>2. Point(j)' = Point(j - n)
    BY <2>1, <1>11
  <2>3. Point(j)' = Point(1)
    BY <2>1, <2>2
  <2> QED BY <2>3, <1>3, <1>7, <1>12 DEF Continues
<1>13. ASSUME NEW i \in 1 .. n + 1 PROVE Point(i)' = cuts[i]
  <2>1. i \in 1 .. n \/ i = n + 1
    BY <1>2
  <2> QED BY <1>10, <1>12, <2>1
<1>14. Point(1)' = FirstCut(disk, b)
  BY <1>2, <1>3, <1>13
<1>15. Collected(Point(1))'
  BY <1>7, <1>14 DEF Collected
<1>16. ASSUME NEW i \in DOMAIN todo
       PROVE  /\ disk.nodes[todo[i].node].level # 0
              /\ todo[i].index \in DOMAIN disk.nodes[todo[i].node].entries
              /\ disk.cuts[todo[i].node][todo[i].index + 1] = Point(i + 1)'
  <2>1. CASE i \in 1 .. n
    <3>1. todo[i].node = b /\ todo[i].index = i
      BY <2>1, <1>5, <1>9
    <3>2. Point(i + 1)' = cuts[i + 1]
      BY <2>1, <1>2, <1>13
    <3> QED BY <2>1, <3>1, <3>2, <1>2 DEF cuts
  <2>2. CASE i \in n + 1 .. n + m
    <3>1. todo[i] = old[i - n] /\ i - n \in DOMAIN old
      BY <2>2, <1>2, <1>4, <1>9, <1>d
    <3>2. Point(i + 1)' = Point((i - n) + 1)
      <4>1. i + 1 \in n + 1 .. n + m + 1 /\ (i + 1) - n = (i - n) + 1
        BY <2>2, <1>2, <1>4
      <4> QED BY <4>1, <1>11
    <3> QED BY <3>1, <3>2, <1>7 DEF Continues, old
  <2> QED BY <2>1, <2>2, <1>2, <1>4, <1>8
<1>17. Continues(Point(1))'
  BY <1>16 DEF Continues, todo
<1>18. Progress'
  BY <1>15, <1>17 DEF Progress, TranslatedRoot, RootBlock
<1>19. Descends'
  <2> SUFFICES ASSUME ~disk.damaged PROVE Descends'
    BY DEF Descends
  <2> DEFINE height == disk.nodes[RootBlock].level
  <2>1. /\ walk.depth + disk.nodes[b].level <= height
        /\ \A i \in DOMAIN old : old[i].depth + disk.nodes[old[i].node].level <= height + 1
    BY DEF Descends, old
  <2>2. RootBlock' = RootBlock
    BY DEF RootBlock
  <2>3. walk.depth \in Int /\ disk.nodes[b].level \in Nat
    BY <1>1, DiskFacts DEF Shape, TypeOK, IsSound
  <2>4. height \in Nat
    <3>1. RootBlock \in DOMAIN disk.nodes
      BY DiskFacts DEF IsSound, IsNode, RootBlock, Progress
    <3> QED BY <3>1, DiskFacts DEF IsSound
  <2> HIDE DEF height
  <2>5. ASSUME NEW i \in DOMAIN todo
        PROVE  todo[i].depth + disk.nodes[todo[i].node].level <= height + 1
    <3>1. CASE i \in 1 .. n
      <4>1. todo[i].node = b /\ todo[i].depth = walk.depth + 1
        BY <3>1, <1>5, <1>9
      <4> QED BY <4>1, <2>1, <2>3, <2>4
    <3>2. CASE i \in n + 1 .. n + m
      <4>1. todo[i] = old[i - n] /\ i - n \in DOMAIN old
        BY <3>2, <1>2, <1>4, <1>9, <1>d
      <4> QED BY <4>1, <2>1
    <3> QED BY <3>1, <3>2, <1>2, <1>4, <1>8
  <2> QED BY <2>2, <2>5 DEF Descends, height, todo
<1> QED BY <1>18, <1>19
\* What a node adds, or that there is damage.
LEMMA SearchNodeProgress ==
    ASSUME Shape, Progress, Descends, SearchNode
    PROVE  Progress' /\ Descends' /\ AllSnapshotsOrNone'
<1> DEFINE b == walk.node
<1>0. phase = "node" /\ b \in DOMAIN disk.nodes
  BY DEF SearchNode, Shape, CacheOK
<1>1. CASE WalkEnds(FALSE) /\ disk.nodes[b].level = 0 /\ ~get_snapshots_from_leaf_node.ok
  <2>1. disk.damaged
    BY <1>0, <1>1, DiskFacts DEF IsSound, get_snapshots_from_leaf_node
  <2>2. phase' = "open" /\ disk' = disk /\ snapshots' = <<>>
    BY <1>1 DEF WalkEnds
  <2> QED BY <2>1, <2>2 DEF Progress, Descends, AllSnapshotsOrNone
<1>2. CASE WalkEnds(FALSE) /\ disk.nodes[b].level # 0 /\ walk.depth > RecursionLimit
  <2>1. disk.damaged
    <3> SUFFICES ASSUME ~disk.damaged PROVE FALSE OBVIOUS
    <3> DEFINE height == disk.nodes[RootBlock].level
               level == disk.nodes[b].level
    <3>1. RootBlock \in DOMAIN disk.nodes /\ height <= RecursionLimit
      BY <1>0, DiskFacts DEF IsSound, IsNode, RootBlock, Progress
    <3>2. height \in Nat /\ level \in Nat
      BY <1>0, <3>1, DiskFacts DEF IsSound
    <3>3. walk.depth + level <= height
      BY <1>0 DEF Descends
    <3>4. walk.depth \in Int /\ RecursionLimit \in Nat /\ level # 0 /\ walk.depth > RecursionLimit
      BY <1>2, CacheEntriesAssumption DEF Shape, TypeOK
    <3> HIDE DEF height, level
    <3> QED BY <3>1, <3>2, <3>3, <3>4
  <2>2. phase' = "open" /\ disk' = disk /\ snapshots' = <<>>
    BY <1>2 DEF WalkEnds
  <2> QED BY <2>1, <2>2 DEF Progress, Descends, AllSnapshotsOrNone
<1>3. CASE /\ disk.nodes[b].level = 0 /\ get_snapshots_from_leaf_node.ok
           /\ snapshots' = snapshots \o get_snapshots_from_leaf_node.found
           /\ phase' = "next"
           /\ UNCHANGED <<disk, hasTree, cached, walk, snapshot, answer>>
  <2>1. Progress' /\ Descends'
    BY <1>0, <1>3, LeafProgress
  <2> QED BY <1>3, <2>1 DEF AllSnapshotsOrNone
<1>4. CASE /\ disk.nodes[b].level # 0 /\ ~(walk.depth > RecursionLimit)
           /\ walk' = [walk EXCEPT !.todo = get_snapshots_from_branch_node \o @]
           /\ phase' = "next"
           /\ UNCHANGED <<disk, hasTree, cached, snapshots, snapshot, answer>>
  <2>1. Progress' /\ Descends'
    BY <1>0, <1>4, BranchProgress
  <2> QED BY <1>4, <2>1 DEF AllSnapshotsOrNone
<1> QED BY <1>1, <1>2, <1>3, <1>4 DEF SearchNode

\* The next entry leads to the node that holds the next part of the content, or
\* there is damage.
LEMMA SubNodeProgress ==
    ASSUME Shape, Progress, Descends, get_sub_node
    PROVE  Progress' /\ Descends' /\ AllSnapshotsOrNone'
<1> DEFINE at == Head(walk.todo)
           entry == disk.nodes[at.node].entries[at.index]
           block == get_sub_node_block_number_from_entry(entry)
           todo == walk.todo
           rest == Tail(walk.todo)
           m == Len(walk.todo)
<1>0. /\ phase = "next" /\ todo # <<>> /\ todo \in Seq(Place)
      /\ Collected(Point(1)) /\ Continues(Point(1))
  BY DEF get_sub_node, Shape, WalkOK, Progress
<1>1. /\ m \in Nat /\ m > 0 /\ DOMAIN todo = 1 .. m /\ 1 \in DOMAIN todo
      /\ at = todo[1] /\ at \in Place
  BY <1>0
<1>2. /\ disk.nodes[at.node].level # 0
      /\ at.index \in DOMAIN disk.nodes[at.node].entries
      /\ disk.cuts[at.node][at.index + 1] = Point(2)
      /\ Point(1) = disk.cuts[at.node][at.index]
      /\ at.node \in DOMAIN disk.nodes
  <2>1. at.node \in DOMAIN disk.nodes
    BY <1>1 DEF Place
  <2>2. Point(1) = disk.cuts[at.node][at.index]
    BY <1>1 DEF Point
  <2>3. /\ disk.nodes[at.node].level # 0
        /\ at.index \in DOMAIN disk.nodes[at.node].entries
        /\ disk.cuts[at.node][at.index + 1] = Point(1 + 1)
    BY <1>0, <1>1 DEF Continues
  <2> QED BY <2>1, <2>2, <2>3
<1>3. CASE WalkEnds(FALSE) /\ block \notin cached /\ ~IsSubNode(block)
  <2>1. disk.damaged
    BY <1>2, <1>3, DiskFacts DEF IsSound, IsSubNode, get_sub_node_block_number_from_entry
  <2>2. phase' = "open" /\ disk' = disk /\ snapshots' = <<>>
    BY <1>3 DEF WalkEnds
  <2> QED BY <2>1, <2>2 DEF Progress, Descends, AllSnapshotsOrNone
<1>4. CASE /\ block \in cached \/ IsSubNode(block)
           /\ walk' = [walk EXCEPT !.node = block, !.depth = at.depth, !.todo = Tail(@)]
           /\ phase' = "node"
           /\ UNCHANGED <<disk, hasTree, snapshots, snapshot, answer>>
  <2>1. walk'.node = block /\ walk'.depth = at.depth /\ walk'.todo = rest
    BY <1>4 DEF Shape, WalkOK
  <2>2. /\ DOMAIN rest = 1 .. m - 1
        /\ \A i \in 1 .. m - 1 : i + 1 \in DOMAIN todo /\ rest[i] = todo[i + 1]
    BY <1>0, <1>1
  <2>a. IsBTreeNode(disk, block) /\ block \in DOMAIN disk.nodes
    BY <1>4 DEF IsSubNode, IsBTreeNode, IsNode, Shape, CacheOK
  <2>3. FirstCut(disk, block) = Point(1) /\ LastCut(disk, block) = Point(2)
    BY <1>2, <2>a, DiskFacts, ZenonT(30) DEF HoldsContent, get_sub_node_block_number_from_entry
  <2>4. /\ ~disk.damaged => /\ disk.nodes[block].level < disk.nodes[at.node].level
                            /\ disk.nodes[block].level \in Nat
                            /\ disk.nodes[at.node].level \in Nat
                            /\ disk.nodes[RootBlock].level \in Nat
    <3> SUFFICES ASSUME ~disk.damaged
                 PROVE  /\ disk.nodes[block].level < disk.nodes[at.node].level
                        /\ disk.nodes[block].level \in Nat
                        /\ disk.nodes[at.node].level \in Nat
                        /\ disk.nodes[RootBlock].level \in Nat
      OBVIOUS
    <3>1. IsSound(disk)
      BY DiskFacts
    <3>2. RootBlock \in DOMAIN disk.nodes /\ block \in DOMAIN disk.nodes
      BY <1>0, <2>a, <3>1 DEF IsSound, IsNode, RootBlock, Progress
    <3>3. disk.nodes[block].level < disk.nodes[at.node].level
      BY <1>2, <3>1 DEF IsSound, get_sub_node_block_number_from_entry
    <3> QED BY <1>2, <3>1, <3>2, <3>3 DEF IsSound
  <2>5. at.depth \in Int
    BY <1>1 DEF Place
  <2>d. DOMAIN todo = 1 .. m /\ m \in Nat /\ todo = walk.todo
    BY <1>1
  <2> HIDE DEF block, rest, m, todo
  <2>6. ASSUME NEW i \in 1 .. m PROVE Point(i)' = Point(i + 1)
    <3>1. CASE i \in 1 .. m - 1
      <4>1. i \in DOMAIN rest /\ i + 1 \in DOMAIN todo /\ rest[i] = todo[i + 1]
        BY <2>2, <3>1
      <4> QED BY <4>1, <2>1, <2>d, <1>4 DEF Point
    <3>2. CASE i = m
      <4>1. i \notin DOMAIN rest /\ i + 1 \notin DOMAIN todo
        BY <2>2, <2>d, <3>2
      <4> QED BY <4>1, <2>1, <2>d, <1>4 DEF Point
    <3>3. i \in 1 .. m - 1 \/ i = m
      BY <2>d
    <3> QED BY <3>1, <3>2, <3>3
  <2>7. Point(1)' = Point(2)
    <3>1. 1 \in 1 .. m /\ 1 + 1 = 2
      BY <1>1, <2>d
    <3>2. Point(1)' = Point(1 + 1)
      BY <3>1, <2>6
    <3> QED BY <3>1, <3>2
  <2>8. Collected(FirstCut(disk, walk.node))'
    BY <1>0, <1>4, <2>1, <2>3 DEF Collected, FirstCut
  <2>9. ASSUME NEW i \in DOMAIN rest
        PROVE  /\ disk.nodes[rest[i].node].level # 0
               /\ rest[i].index \in DOMAIN disk.nodes[rest[i].node].entries
               /\ disk.cuts[rest[i].node][rest[i].index + 1] = Point(i + 1)'
    <3>1. i \in 1 .. m - 1 /\ i + 1 \in 1 .. m
      BY <2>2, <2>d
    <3>2. i + 1 \in DOMAIN todo /\ rest[i] = todo[i + 1]
      BY <2>2, <3>1
    <3>3. Point(i + 1)' = Point((i + 1) + 1)
      BY <2>6, <3>1
    <3> QED BY <1>0, <2>d, <3>2, <3>3 DEF Continues
  <2>10. Continues(LastCut(disk, walk.node))'
    <3>1. LastCut(disk, walk.node)' = Point(1)'
      BY <1>4, <2>1, <2>3, <2>7 DEF LastCut
    <3> QED BY <1>4, <2>1, <2>9, <3>1 DEF Continues
  <2>11. Progress'
    BY <1>0, <1>4, <2>8, <2>10 DEF Progress, TranslatedRoot, RootBlock
  <2>12. Descends'
    <3> SUFFICES ASSUME ~disk.damaged PROVE Descends'
      BY <1>4 DEF Descends
    <3>1. \A i \in DOMAIN todo :
            todo[i].depth + disk.nodes[todo[i].node].level <= disk.nodes[RootBlock].level + 1
      BY <1>0, <2>d DEF Descends
    <3>2. RootBlock' = RootBlock
      BY <1>4 DEF RootBlock
    <3>3. at.depth + disk.nodes[block].level <= disk.nodes[RootBlock].level
      <4>1. at.depth + disk.nodes[at.node].level <= disk.nodes[RootBlock].level + 1
        BY <1>1, <2>d, <3>1
      <4> QED BY <4>1, <2>4, <2>5
    <3>4. \A i \in DOMAIN rest :
            rest[i].depth + disk.nodes[rest[i].node].level <= disk.nodes[RootBlock].level + 1
      BY <2>2, <3>1
    <3> QED BY <1>4, <2>1, <3>2, <3>3, <3>4 DEF Descends
  <2> QED BY <1>4, <2>11, <2>12 DEF AllSnapshotsOrNone
<1> QED BY <1>3, <1>4 DEF get_sub_node

LEMMA NextProgress ==
    ASSUME Shape, Progress, Descends, AllSnapshotsOrNone, [Next]_vars
    PROVE  Progress' /\ Descends' /\ AllSnapshotsOrNone'
<1>1. CASE snapshot_metadata_tree_initialize
  <2>1. CASE disk.root = 0
    <3>1. disk.content = <<>>
      BY <2>1, DiskFacts DEF HoldsContent
    <3> QED BY <1>1, <2>1, <3>1 DEF snapshot_metadata_tree_initialize, Progress, Descends,
          AllSnapshotsOrNone
  <2>2. CASE disk.root # 0
    BY <1>1, <2>2 DEF snapshot_metadata_tree_initialize, Progress, Descends,
       AllSnapshotsOrNone, NoWalk
  <2> QED BY <2>1, <2>2
<1>2. CASE get_root_node
  BY <1>2, RootProgress
<1>3. CASE SearchNode
  BY <1>3, SearchNodeProgress
<1>4. CASE get_sub_node
  BY <1>4, SubNodeProgress
<1>5. CASE get_snapshots_ends
  <2>1. phase = "next" /\ walk.todo = <<>> /\ phase' = "open" /\ disk' = disk
        /\ snapshots' = snapshots
    BY <1>5 DEF get_snapshots_ends
  <2>2. Point(1) = Len(disk.content)
    BY <2>1 DEF Point
  <2>3. SubSeq(disk.content, 1, Len(disk.content)) = disk.content
    BY DiskFacts
  <2>4. snapshots = disk.content
    BY <2>1, <2>2, <2>3 DEF Progress, Collected
  <2>5. walk' = NoWalk /\ ~TranslatedRoot
    BY <1>5, <2>1 DEF get_snapshots_ends, Progress
  <2> QED BY <2>1, <2>4, <2>5
        DEF Progress, Descends, AllSnapshotsOrNone, NoWalk, TranslatedRoot, RootBlock
<1>6. CASE ReadFails
  <2>1. phase' = "open" /\ snapshots' = <<>> /\ walk' = [NoWalk EXCEPT !.failed = TRUE]
    BY <1>6 DEF ReadFails, WalkEnds
  <2>2. walk'.failed
    BY <2>1 DEF NoWalk
  <2> QED BY <2>1, <2>2 DEF Progress, Descends, AllSnapshotsOrNone
<1>7. CASE volume_close \/ Restart \/ UseFreed
  BY <1>7 DEF volume_close, Restart, UseFreed, Progress, Descends, AllSnapshotsOrNone
<1>8. CASE \/ volume_get_number_of_snapshots \/ volume_get_snapshot_by_index
           \/ snapshot_get_utf8_name_size \/ snapshot_get_utf8_name
           \/ snapshot_get_utf16_name_size \/ snapshot_get_utf16_name
           \/ snapshot_free \/ Return \/ UNCHANGED vars
  <2>1. UNCHANGED <<disk, phase, walk, snapshots>>
    BY <1>8 DEF volume_get_number_of_snapshots, volume_get_snapshot_by_index,
       snapshot_get_utf8_name_size, snapshot_get_utf8_name, snapshot_get_utf16_name_size,
       snapshot_get_utf16_name, SnapshotName, snapshot_free, Return, vars
  <2>2. Progress'
    BY <2>1 DEF Progress, Collected, Continues, Point, TranslatedRoot, RootBlock
  <2>3. Descends'
    BY <2>1 DEF Descends, RootBlock
  <2>4. AllSnapshotsOrNone'
    BY <2>1 DEF AllSnapshotsOrNone, TranslatedRoot, RootBlock
  <2> QED BY <2>2, <2>3, <2>4
<1> QED BY <1>1, <1>2, <1>3, <1>4, <1>5, <1>6, <1>7, <1>8 DEF Next, Walk

\* A volume that is open has all of its snapshots in order, or none: always none
\* after a failed read or when the object map translates the root, and otherwise
\* only for a damaged tree (get_snapshots empties the array on every error, and an
\* undamaged tree is walked through to its end).
THEOREM AllOrNone == Spec => []AllSnapshotsOrNone
<1>1. Init => Shape /\ Progress /\ Descends /\ AllSnapshotsOrNone
  <2> SUFFICES ASSUME Init PROVE Shape /\ Progress /\ Descends /\ AllSnapshotsOrNone
    OBVIOUS
  <2>1. phase = "closed"
    BY DEF Init
  <2> QED BY <2>1, InitShape DEF Progress, Descends, AllSnapshotsOrNone
<1>2. /\ Shape /\ Progress /\ Descends /\ AllSnapshotsOrNone /\ [Next]_vars
      => (Shape /\ Progress /\ Descends /\ AllSnapshotsOrNone)'
  BY NextShape, NextProgress
<1> QED BY <1>1, <1>2, PTL DEF Spec

============================================================================
