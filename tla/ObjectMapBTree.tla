--------------------------- MODULE ObjectMapBTree ---------------------------
(***************************************************************************)
(* Looking an object up in an object map (libfsapfs_object_map_btree.c).   *)
(* The object map is a B-tree whose keys are (object identifier,           *)
(* transaction identifier) pairs; a look-up for (o, x) asks for the newest *)
(* version of object o that is not newer than transaction x.               *)
(*                                                                         *)
(* Nodes are read into a cache that owns them: a node that is evicted or   *)
(* replaced is freed.  A look-up keeps pointers to the nodes it walks      *)
(* through while other threads may be using the same cache:                *)
(* container_get_volume_by_index, for one, holds its lock for reading.     *)
(* Any read of a block may fail.                                           *)
(***************************************************************************)
EXTENDS Integers, FiniteSets, Sequences

CONSTANTS
    ObjectIds, TransactionIds, \* identifiers of objects and transactions
    Threads,   \* threads that look objects up
    Blocks,    \* block numbers
    Trees,     \* the object maps that may be on the disk
    Targets,   \* the (object, transaction) pairs that are looked up
    Handles,   \* addresses of nodes in memory
    CacheSize, \* number of nodes the node cache can hold
    MaxDepth,  \* LIBFSAPFS_MAXIMUM_BTREE_NODE_RECURSION_DEPTH
    Exclusive  \* look-ups are made with a lock held for writing

Key == ObjectIds \X TransactionIds

\* A B-tree node as it is on the disk; `kind` is what its object type, subtype
\* and flags amount to.  The value of a leaf's entry is the physical address of
\* the object: it is abstracted to the key.
Node == [kind : {"root", "sub", "damaged"}, leaf : BOOLEAN,
         entries : Seq([key : Key, child : Blocks])]

\* An object map.  `content` and `span` are not on the disk: they say what the
\* map holds and which keys belong under each node.
Tree == [root : Blocks, nodes : [Blocks -> Node], content : SUBSET Key,
         span : [Blocks -> SUBSET Key]]

ASSUME IdsAssumption ==
    ObjectIds \subseteq Nat /\ TransactionIds \subseteq Nat /\ <<0, 0>> \in Key
ASSUME ThreadsAssumption == IsFiniteSet(Threads)
ASSUME TreesAssumption == Trees \subseteq Tree
ASSUME TargetsAssumption == Targets \subseteq Key
ASSUME CacheAssumption == CacheSize \in Nat \ {0} /\ MaxDepth \in Nat
ASSUME ExclusiveAssumption == Exclusive \in BOOLEAN

\* No node has block number 0: the callers check for it.
Freed == 0
None == "none"
ASSUME NamesAssumption ==
    Blocks \subseteq Nat \ {Freed} /\ None \notin Handles /\ None \notin Threads

VARIABLES
    tree,    \* the object map on the disk
    heap,    \* the block whose node is at each address, or Freed
    cache,   \* the addresses of the nodes in the node cache
    lock,    \* the thread that holds the caller's lock for writing
    pc, target, block, node, depth, \* each thread's look-up
    result, found  \* what it returned: -1, 0 or 1, and the key it found

cacheVars == <<heap, cache>>
vars == <<tree, heap, cache, lock, pc, target, block, node, depth, result, found>>

NoResult == -2
NoKey == <<0, 0>>
States == {"idle", "lookup", "read", "insert", "fetch", "search", "describe",
           "crashed"}

TypeOK ==
    /\ tree \in Trees
    /\ heap \in [Handles -> Blocks \cup {Freed}]
    /\ cache \subseteq Handles
    /\ lock \in Threads \cup {None}
    /\ pc \in [Threads -> States]
    /\ target \in [Threads -> Key]
    /\ block \in [Threads -> Blocks]
    /\ node \in [Threads -> Handles \cup {None}]
    /\ depth \in [Threads -> Nat]
    /\ result \in [Threads -> {-1, 0, 1, NoResult}]
    /\ found \in [Threads -> Key]

Init ==
    /\ tree \in Trees
    /\ heap = [h \in Handles |-> Freed]
    /\ cache = {}
    /\ lock = None
    /\ pc = [t \in Threads |-> "idle"]
    /\ target = [t \in Threads |-> NoKey]
    /\ block = [t \in Threads |-> tree.root]
    /\ node = [t \in Threads |-> None]
    /\ depth = [t \in Threads |-> 0]
    /\ result = [t \in Threads |-> NoResult]
    /\ found = [t \in Threads |-> NoKey]

-----------------------------------------------------------------------------
(***************************************************************************)
(* Searching one node.                                                     *)
(***************************************************************************)

\* The scan of a node stops at the first entry beyond the target.
Beyond(key, k) == key[1] > k[1] \/ (key[1] = k[1] /\ key[2] > k[2])

\* The number of entries the scan goes past: the last of them is
\* previous_entry.
Passed(entries, k) ==
    CHOOSE n \in 0 .. Len(entries) :
        /\ \A i \in 1 .. n : ~Beyond(entries[i].key, k)
        /\ n < Len(entries) => Beyond(entries[n + 1].key, k)

\* Fault: any entry of the leaf will do.
FoundInLeafAnyObject(entries, k) == Passed(entries, k) # 0

\* In a leaf the entry must be one of the object asked for.  The identifier of
\* previous_entry is 0 while there is none.
FoundInLeaf(entries, k) ==
    LET n == Passed(entries, k)
    IN  k[1] = IF n = 0 THEN 0 ELSE entries[n].key[1]

\* Fault: a branch is always left through its first entry.
BranchIndexFirst(entries, k) == 1

\* In a branch it is the entry whose sub node to go on with: previous_entry, or
\* the first entry when there is none.
BranchIndex(entries, k) ==
    LET n == Passed(entries, k) IN IF n = 0 THEN 1 ELSE n

-----------------------------------------------------------------------------
(***************************************************************************)
(* A look-up, one step per access to the shared cache.                     *)
(***************************************************************************)

\* libfsapfs_object_map_btree_get_descriptor_by_object_identifier is called
\* under its caller's lock.
Start(t) ==
    /\ pc[t] = "idle"
    /\ Exclusive => lock = None
    /\ lock' = IF Exclusive THEN t ELSE lock
    /\ \E k \in Targets : target' = [target EXCEPT ![t] = k]
    /\ pc' = [pc EXCEPT ![t] = "lookup"]
    /\ block' = [block EXCEPT ![t] = tree.root]
    /\ depth' = [depth EXCEPT ![t] = 0]
    /\ result' = [result EXCEPT ![t] = NoResult]
    /\ UNCHANGED <<tree, cacheVars, node, found>>

\* The look-up returns and its caller releases the lock.
Return(t, r) ==
    /\ pc' = [pc EXCEPT ![t] = "idle"]
    /\ node' = [node EXCEPT ![t] = None]
    /\ result' = [result EXCEPT ![t] = r]
    /\ lock' = IF Exclusive THEN None ELSE lock

\* libfcache_cache_get_value_by_identifier.
Cached(b) == {h \in cache : heap[h] = b}

\* Fault: the slot of the cache is used without comparing identifiers.
CacheHitAnyBlock(t) ==
    /\ pc[t] = "lookup"
    /\ \E h \in cache : node' = [node EXCEPT ![t] = h]
    /\ pc' = [pc EXCEPT ![t] = "search"]
    /\ UNCHANGED <<tree, cacheVars, lock, target, block, depth, result, found>>

CacheHit(t) ==
    /\ pc[t] = "lookup"
    /\ \E h \in Cached(block[t]) : node' = [node EXCEPT ![t] = h]
    /\ pc' = [pc EXCEPT ![t] = "search"]
    /\ UNCHANGED <<tree, cacheVars, lock, target, block, depth, result, found>>

CacheMiss(t) ==
    /\ pc[t] = "lookup"
    /\ Cached(block[t]) = {}
    /\ pc' = [pc EXCEPT ![t] = "read"]
    /\ UNCHANGED <<tree, cacheVars, lock, target, block, node, depth, result,
                   found>>

\* The checks of get_root_node and get_sub_node on what was read.
Acceptable(t) ==
    tree.nodes[block[t]].kind = IF depth[t] = 0 THEN "root" ELSE "sub"

ReadNode(t) ==
    /\ pc[t] = "read"
    /\ Acceptable(t)
    /\ \E h \in Handles :
        /\ heap[h] = Freed
        /\ heap' = [heap EXCEPT ![h] = block[t]]
        /\ node' = [node EXCEPT ![t] = h]
    /\ pc' = [pc EXCEPT ![t] = "insert"]
    /\ UNCHANGED <<tree, cache, lock, target, block, depth, result, found>>

\* The block cannot be read or does not hold the node that is expected.
ReadFails(t) ==
    /\ pc[t] = "read"
    /\ Return(t, -1)
    /\ UNCHANGED <<tree, cacheVars, target, block, depth, found>>

\* libfcache_cache_set_value_by_identifier: takes the place of the node of the
\* same block, of another node when the cache is full, or of none.
Victims(t) ==
    IF Cached(block[t]) # {} THEN Cached(block[t])
    ELSE IF Cardinality(cache) < CacheSize THEN {None} ELSE cache

\* Fault: the node that makes place is not freed.
CacheSetLeaks(t) ==
    /\ pc[t] = "insert"
    /\ \E v \in Victims(t) : cache' = (cache \ {v}) \cup {node[t]}
    /\ node' = [node EXCEPT ![t] = None]
    /\ pc' = [pc EXCEPT ![t] = "fetch"]
    /\ UNCHANGED <<tree, heap, lock, target, block, depth, result, found>>

CacheSet(t) ==
    /\ pc[t] = "insert"
    /\ \E v \in Victims(t) :
        /\ cache' = (cache \ {v}) \cup {node[t]}
        /\ heap' = [h \in Handles |-> IF h = v THEN Freed ELSE heap[h]]
    /\ node' = [node EXCEPT ![t] = None]
    /\ pc' = [pc EXCEPT ![t] = "fetch"]
    /\ UNCHANGED <<tree, lock, target, block, depth, result, found>>

\* The node is looked up in the cache again to get a pointer to use.
CacheGet(t) ==
    /\ pc[t] = "fetch"
    /\ \E h \in Cached(block[t]) : node' = [node EXCEPT ![t] = h]
    /\ pc' = [pc EXCEPT ![t] = "search"]
    /\ UNCHANGED <<tree, cacheVars, lock, target, block, depth, result, found>>

CacheGetFails(t) ==
    /\ pc[t] = "fetch"
    /\ Cached(block[t]) = {}
    /\ Return(t, -1)
    /\ UNCHANGED <<tree, cacheVars, target, block, depth, found>>

\* The node the thread's pointer leads to.
NodeOf(t) == tree.nodes[heap[node[t]]]

\* Fault: the recursion depth is not counted past the first sub node.
SearchBranchUncounted(t) ==
    /\ pc[t] = "search"
    /\ heap[node[t]] # Freed
    /\ ~NodeOf(t).leaf
    /\ NodeOf(t).entries # <<>>
    /\ block' = [block EXCEPT ![t] =
          NodeOf(t).entries[BranchIndex(NodeOf(t).entries, target[t])].child]
    /\ depth' = [depth EXCEPT ![t] = 1]
    /\ pc' = [pc EXCEPT ![t] = "lookup"]
    /\ node' = [node EXCEPT ![t] = None]
    /\ UNCHANGED <<tree, cacheVars, lock, target, result, found>>

SearchBranch(t) ==
    /\ pc[t] = "search"
    /\ heap[node[t]] # Freed
    /\ ~NodeOf(t).leaf
    /\ IF depth[t] > MaxDepth \/ NodeOf(t).entries = <<>>
       THEN /\ Return(t, -1)
            /\ UNCHANGED <<block, depth>>
       ELSE /\ block' = [block EXCEPT ![t] =
                  NodeOf(t).entries[BranchIndex(NodeOf(t).entries, target[t])].child]
            /\ depth' = [depth EXCEPT ![t] = @ + 1]
            /\ pc' = [pc EXCEPT ![t] = "lookup"]
            /\ node' = [node EXCEPT ![t] = None]
            /\ UNCHANGED <<lock, result>>
    /\ UNCHANGED <<tree, cacheVars, target, found>>

SearchLeaf(t) ==
    /\ pc[t] = "search"
    /\ heap[node[t]] # Freed
    /\ NodeOf(t).leaf
    /\ IF depth[t] > MaxDepth THEN Return(t, -1)
       ELSE IF ~FoundInLeaf(NodeOf(t).entries, target[t]) THEN Return(t, 0)
       ELSE /\ pc' = [pc EXCEPT ![t] = "describe"]
            /\ UNCHANGED <<lock, node, result>>
    /\ UNCHANGED <<tree, cacheVars, target, block, depth, found>>

\* Reads the descriptor out of the entry, which is still part of the node; a
\* missing entry is an error, and an entry may not hold a descriptor.
Describe(t) ==
    /\ pc[t] = "describe"
    /\ heap[node[t]] # Freed
    /\ LET n == Passed(NodeOf(t).entries, target[t])
       IN  \/ Return(t, -1) /\ UNCHANGED found
           \/ /\ n # 0
              /\ Return(t, 1)
              /\ found' = [found EXCEPT ![t] = NodeOf(t).entries[n].key]
    /\ UNCHANGED <<tree, cacheVars, target, block, depth>>

\* Using a node that was freed is undefined: the thread is taken to be lost.
UseFreed(t) ==
    /\ pc[t] \in {"search", "describe"}
    /\ heap[node[t]] = Freed
    /\ pc' = [pc EXCEPT ![t] = "crashed"]
    /\ UNCHANGED <<tree, cacheVars, lock, target, block, node, depth, result,
                   found>>

Step(t) ==
    \/ CacheHit(t) \/ CacheMiss(t) \/ ReadNode(t) \/ ReadFails(t)
    \/ CacheSet(t) \/ CacheGet(t) \/ CacheGetFails(t)
    \/ SearchBranch(t) \/ SearchLeaf(t) \/ Describe(t) \/ UseFreed(t)

Next == \E t \in Threads : Start(t) \/ Step(t)

Spec == Init /\ [][Next]_vars

\* A thread in a look-up keeps running.
FairSpec == Spec /\ \A t \in Threads : WF_vars(Step(t))

-----------------------------------------------------------------------------
(***************************************************************************)
(* Properties.                                                             *)
(***************************************************************************)

Leq(a, b) == ~Beyond(a, b)

Sorted(entries) ==
    \A i, j \in DOMAIN entries : i < j => Beyond(entries[j].key, entries[i].key)

\* A well-formed object map: entries are sorted, a leaf holds what the map
\* holds in its span, a branch hands its span out to its sub nodes from key to
\* key, and the keys of a branch are keys that the map holds.
WellFormed(m) ==
    /\ m.span[m.root] = Key
    /\ \A b \in Blocks :
        LET n == m.nodes[b]
            keys == {n.entries[i].key : i \in DOMAIN n.entries}
        IN  /\ Sorted(n.entries)
            /\ n.leaf => keys = m.content \cap m.span[b]
            /\ ~n.leaf =>
                /\ keys \subseteq m.content \cap m.span[b]
                /\ \A i \in DOMAIN n.entries :
                      m.span[n.entries[i].child] =
                        {k \in m.span[b] :
                            /\ i = 1 \/ Leq(n.entries[i].key, k)
                            /\ i = Len(n.entries)
                               \/ Beyond(n.entries[i + 1].key, k)}

\* A look-up in a well-formed object map finds a version of the object exactly
\* when the map holds one that is not newer than the transaction, and then the
\* newest of these, through however many levels and whatever is evicted.
LookupIsSnapshotRead ==
    \A t \in Threads :
        WellFormed(tree) /\ pc[t] = "idle" =>
            LET versions == {k \in tree.content :
                                k[1] = target[t][1] /\ k[2] <= target[t][2]}
            IN  /\ result[t] = 1 => /\ found[t] \in versions
                                    /\ \A k \in versions : k[2] <= found[t][2]
                /\ result[t] = 0 => versions = {}

\* A look-up never uses a node that the cache has freed, nor what took its place
\* in memory: its pointer leads to the node of the block it asked for.  Look-ups
\* whose callers hold their lock for writing have it so.  Those of two threads in
\* libfsapfs_container_get_volume_by_index, which hold it for reading, have not.
NoFreedNodeIsUsed ==
    \A t \in Threads :
        pc[t] \in {"search", "describe"} => heap[node[t]] = block[t]

\* No node is leaked: every node in memory is in the cache or about to be put
\* there by the thread that read it, and the cache keeps within its size with
\* one node a block.
NodesAreOwned ==
    /\ \A h \in Handles : heap[h] # Freed =>
        h \in cache \/ \E t \in Threads : pc[t] = "insert" /\ node[t] = h
    /\ \A h \in cache : heap[h] # Freed
    /\ \A g, h \in cache : heap[g] = heap[h] => g = h
    /\ Cardinality(cache) <= CacheSize

\* Every look-up returns, also in a map whose nodes form a cycle.
EveryLookupReturns ==
    \A t \in Threads : pc[t] = "lookup" ~> pc[t] = "idle"

\* The B-tree implements the object store: with nodes, cache and lock out of
\* sight, every look-up is one that the store would answer the same way.
Store == INSTANCE ObjectStore WITH
    Contents <- {m.content : m \in Trees},
    content <- tree.content,
    busy <- [t \in Threads |-> pc[t] # "idle"]
ImplementsStore == Store!Spec
=============================================================================
