------------------------ MODULE ObjectMapBTreeProofs ------------------------
(***************************************************************************)
(* Proofs about ObjectMapBTree, for every object map, every number of      *)
(* threads and every cache size: the cache owns every node that was read,  *)
(* whatever its callers lock; and when they hold their lock for writing a  *)
(* look-up finds the newest version that is not newer than the transaction *)
(* asked for.                                                              *)
(***************************************************************************)
EXTENDS ObjectMapBTree, FiniteSetTheorems, WellFoundedInduction, TLAPS

Entries == Seq([key : Key, child : Blocks])

-----------------------------------------------------------------------------
(***************************************************************************)
(* The order of keys.                                                      *)
(***************************************************************************)

\* The parts of a key are numbers.
LEMMA PartsOfKeys ==
    ASSUME NEW a \in Key
    PROVE  a[1] \in Int /\ a[2] \in Int
<1>1. a[1] \in ObjectIds /\ a[2] \in TransactionIds
    BY DEF Key
<1>2. \A n \in Nat : n \in Int
    OBVIOUS
<1> QED BY <1>1, <1>2, IdsAssumption

\* Leq is a total order that Beyond is the strict converse of.
LEMMA OrderOfKeys ==
    ASSUME NEW a \in Key, NEW b \in Key, NEW c \in Key
    PROVE  /\ Leq(a, a)
           /\ Leq(a, b) /\ Leq(b, c) => Leq(a, c)
           /\ Beyond(a, b) => Leq(b, a)
           /\ Beyond(a, b) /\ Leq(c, b) => Beyond(a, c)
           /\ Beyond(a, b) /\ Leq(a, c) => Beyond(c, b)
           /\ ~(Beyond(a, b) /\ Leq(a, b))
BY PartsOfKeys DEF Leq, Beyond

\* Keys in order that agree in their object are in order of their transactions.
LEMMA OrderOfVersions ==
    ASSUME NEW a \in Key, NEW b \in Key
    PROVE  /\ Leq(a, b) /\ a[1] = b[1] => a[2] <= b[2]
           /\ a[1] = b[1] /\ a[2] <= b[2] => Leq(a, b)
BY PartsOfKeys DEF Leq, Beyond

\* What lies between two versions of an object is a version of it.
LEMMA BetweenVersions ==
    ASSUME NEW a \in Key, NEW b \in Key, NEW c \in Key,
           Leq(a, b), Leq(b, c), a[1] = c[1]
    PROVE  b[1] = a[1]
BY PartsOfKeys DEF Leq, Beyond

\* A set of natural numbers has a least element.
LEMMA LeastNumber ==
    ASSUME NEW T, T \subseteq Nat, T # {}
    PROVE  \E x \in T : \A y \in T : x <= y
<1> DEFINE R == OpToRel(<, Nat)
<1>1. IsWellFoundedOn(R, Nat)
    BY NatLessThanWellFounded
<1> HIDE DEF R
<1>2. PICK x \in T : \A y \in T : ~(<<y, x>> \in R)
    BY <1>1, WFMin
<1>3. \A y \in T : x <= y
    <2> TAKE y \in T
    <2>1. ~(y < x)
        BY <1>2 DEF R, OpToRel
    <2> QED BY <2>1
<1> QED BY <1>3

-----------------------------------------------------------------------------
(***************************************************************************)
(* Searching one node.                                                     *)
(***************************************************************************)

\* An entry has a key and a sub node.
LEMMA EntryIsTyped ==
    ASSUME NEW entries \in Entries, NEW i \in 1 .. Len(entries)
    PROVE  entries[i].key \in Key /\ entries[i].child \in Blocks
<1> DEFINE E == [key : Key, child : Blocks]
<1>1. entries[i] \in E
    <2> HIDE DEF E
    <2>1. entries \in Seq(E)
        BY DEF E, Entries
    <2> QED BY <2>1
<1> QED BY <1>1

\* The scan of a node always ends at a number of entries.
LEMMA PassedIsDefined ==
    ASSUME NEW entries \in Entries, NEW k \in Key
    PROVE  LET n == Passed(entries, k)
           IN  /\ n \in 0 .. Len(entries)
               /\ \A i \in 1 .. n : ~Beyond(entries[i].key, k)
               /\ n < Len(entries) => Beyond(entries[n + 1].key, k)
<1> DEFINE Stops(n) == /\ \A i \in 1 .. n : ~Beyond(entries[i].key, k)
                       /\ n < Len(entries) => Beyond(entries[n + 1].key, k)
           T == {i \in 1 .. Len(entries) : Beyond(entries[i].key, k)}
<1>1. Len(entries) \in Nat
    BY DEF Entries
<1>2. \E n \in 0 .. Len(entries) : Stops(n)
    <2>1. CASE T = {}
        <3>1. \A i \in 1 .. Len(entries) : ~Beyond(entries[i].key, k)
            BY <2>1
        <3>2. Len(entries) \in 0 .. Len(entries)
            BY <1>1
        <3> QED BY <1>1, <3>1, <3>2
    <2>2. CASE T # {}
        <3>1. T \subseteq Nat
            BY <1>1
        <3>2. PICK x \in T : \A y \in T : x <= y
            BY <2>2, <3>1, LeastNumber
        <3>3. /\ x - 1 \in 0 .. Len(entries)
              /\ (x - 1) + 1 = x
              /\ \A i \in 1 .. x - 1 : i \in 1 .. Len(entries) /\ ~(x <= i)
            BY <1>1, <3>2
        <3>4. \A i \in 1 .. x - 1 : ~Beyond(entries[i].key, k)
            BY <3>2, <3>3
        <3>5. Stops(x - 1)
            BY <3>2, <3>3, <3>4
        <3> QED BY <3>3, <3>5
    <2> QED BY <2>1, <2>2
<1> QED BY <1>2 DEF Passed

\* The entry of a branch to go on with is one of its entries.
LEMMA BranchIndexIsDefined ==
    ASSUME NEW entries \in Entries, NEW k \in Key, entries # <<>>
    PROVE  BranchIndex(entries, k) \in 1 .. Len(entries)
<1>1. Len(entries) \in Nat /\ Len(entries) # 0
    BY DEF Entries
<1>2. Passed(entries, k) \in 0 .. Len(entries)
    BY PassedIsDefined
<1> QED BY <1>1, <1>2 DEF BranchIndex

-----------------------------------------------------------------------------
(***************************************************************************)
(* Type correctness.                                                       *)
(***************************************************************************)

\* A thread that is putting a node in the cache or using one has a pointer.
PointersOK ==
    \A t \in Threads :
        pc[t] \in {"insert", "search", "describe"} => node[t] \in Handles

TypeInv == TypeOK /\ PointersOK

\* The nodes of an object map are B-tree nodes.
LEMMA NodesOfTree ==
    ASSUME TypeOK, NEW b \in Blocks
    PROVE  /\ tree.nodes[b].leaf \in BOOLEAN
           /\ tree.nodes[b].entries \in Entries
           /\ tree.root \in Blocks
           /\ tree.content \subseteq Key
           /\ tree.span[b] \subseteq Key
<1>1. tree \in Tree
    BY TreesAssumption DEF TypeOK
<1> QED BY <1>1 DEF Tree, Node, Entries

\* What a pointer leads to that is not freed is the node of a block.
LEMMA NodeAtPointer ==
    ASSUME TypeInv, NEW t \in Threads, pc[t] \in {"search", "describe"},
           heap[node[t]] # Freed
    PROVE  /\ heap[node[t]] \in Blocks
           /\ NodeOf(t).leaf \in BOOLEAN
           /\ NodeOf(t).entries \in Entries
           /\ target[t] \in Key
<1>1. heap[node[t]] \in Blocks
    BY DEF TypeInv, TypeOK, PointersOK
<1> QED BY <1>1, NodesOfTree DEF NodeOf, TypeInv, TypeOK

\* Where a look-up begins and ends is well typed.
LEMMA TypeInvInit == Init => TypeInv
<1> SUFFICES ASSUME Init PROVE TypeInv
    OBVIOUS
<1>1. tree.root \in Blocks
    BY TreesAssumption DEF Init, Tree
<1>2. NoKey \in Key
    BY IdsAssumption DEF NoKey
<1> QED BY <1>1, <1>2 DEF Init, TypeInv, TypeOK, PointersOK, States, NoResult

\* Every step keeps the types.
LEMMA TypeInvNext == TypeInv /\ [Next]_vars => TypeInv'
<1> SUFFICES ASSUME TypeInv, [Next]_vars PROVE TypeInv'
    OBVIOUS
<1> USE DEF TypeInv, TypeOK, PointersOK, States, NoResult
<1>1. CASE UNCHANGED vars
    BY <1>1 DEF vars
<1>2. ASSUME NEW t \in Threads, Start(t) PROVE TypeInv'
    <2>1. tree.root \in Blocks
        BY TreesAssumption DEF Tree
    <2>2. PICK k \in Targets : target' = [target EXCEPT ![t] = k]
        BY <1>2 DEF Start
    <2>3. k \in Key
        BY TargetsAssumption
    <2> QED BY <1>2, <2>1, <2>2, <2>3 DEF Start, cacheVars
<1>3. ASSUME NEW t \in Threads, CacheHit(t) PROVE TypeInv'
    BY <1>3 DEF CacheHit, cacheVars, Cached
<1>4. ASSUME NEW t \in Threads, CacheMiss(t) PROVE TypeInv'
    BY <1>4 DEF CacheMiss, cacheVars
<1>5. ASSUME NEW t \in Threads, ReadNode(t) PROVE TypeInv'
    BY <1>5 DEF ReadNode
<1>6. ASSUME NEW t \in Threads, ReadFails(t) PROVE TypeInv'
    BY <1>6 DEF ReadFails, Return, cacheVars
<1>7. ASSUME NEW t \in Threads, CacheSet(t) PROVE TypeInv'
    BY <1>7 DEF CacheSet
<1>8. ASSUME NEW t \in Threads, CacheGet(t) PROVE TypeInv'
    BY <1>8 DEF CacheGet, cacheVars, Cached
<1>9. ASSUME NEW t \in Threads, CacheGetFails(t) PROVE TypeInv'
    BY <1>9 DEF CacheGetFails, Return, cacheVars
<1>10. ASSUME NEW t \in Threads, SearchBranch(t) PROVE TypeInv'
    <2> DEFINE entries == NodeOf(t).entries
               child == entries[BranchIndex(entries, target[t])].child
    <2>1. entries \in Entries /\ target[t] \in Key
        BY <1>10, NodeAtPointer DEF SearchBranch
    <2>2. entries # <<>> => child \in Blocks
        <3> SUFFICES ASSUME entries # <<>> PROVE child \in Blocks
            OBVIOUS
        <3> HIDE DEF entries
        <3>1. BranchIndex(entries, target[t]) \in 1 .. Len(entries)
            BY <2>1, BranchIndexIsDefined
        <3> QED BY <2>1, <3>1, EntryIsTyped
    <2> HIDE DEF child
    <2>3. CASE depth[t] > MaxDepth \/ entries = <<>>
        BY <1>10, <2>3 DEF SearchBranch, Return, cacheVars
    <2>4. CASE ~(depth[t] > MaxDepth \/ entries = <<>>)
        <3>1. /\ block' = [block EXCEPT ![t] = child]
              /\ depth' = [depth EXCEPT ![t] = @ + 1]
              /\ pc' = [pc EXCEPT ![t] = "lookup"]
              /\ node' = [node EXCEPT ![t] = None]
              /\ UNCHANGED <<tree, heap, cache, lock, target, result, found>>
            BY <1>10, <2>4 DEF SearchBranch, cacheVars, child
        <3> QED BY <2>2, <2>4, <3>1
    <2> QED BY <2>3, <2>4
<1>11. ASSUME NEW t \in Threads, SearchLeaf(t) PROVE TypeInv'
    BY <1>11 DEF SearchLeaf, Return, cacheVars
<1>12. ASSUME NEW t \in Threads, Describe(t) PROVE TypeInv'
    <2> DEFINE entries == NodeOf(t).entries
               n == Passed(entries, target[t])
    <2>1. entries \in Entries /\ target[t] \in Key
        BY <1>12, NodeAtPointer DEF Describe
    <2>2. n # 0 => entries[n].key \in Key
        <3> HIDE DEF entries
        <3>1. n \in 0 .. Len(entries)
            BY <2>1, PassedIsDefined
        <3> HIDE DEF n
        <3>2. n # 0 => n \in 1 .. Len(entries)
            BY <2>1, <3>1 DEF Entries
        <3> QED BY <2>1, <3>2, EntryIsTyped
    <2> HIDE DEF n
    <2>3. \/ Return(t, -1) /\ UNCHANGED found
          \/ /\ n # 0
             /\ Return(t, 1)
             /\ found' = [found EXCEPT ![t] = entries[n].key]
        BY <1>12 DEF Describe, n
    <2>4. UNCHANGED <<tree, heap, cache, target, block, depth>>
        BY <1>12 DEF Describe, cacheVars
    <2> QED BY <2>2, <2>3, <2>4 DEF Return
<1>13. ASSUME NEW t \in Threads, UseFreed(t) PROVE TypeInv'
    BY <1>13 DEF UseFreed, cacheVars
<1> QED BY <1>1, <1>2, <1>3, <1>4, <1>5, <1>6, <1>7, <1>8, <1>9, <1>10, <1>11,
           <1>12, <1>13 DEF Next, Step

\* The variables of a look-up keep their types: in particular the sub node a
\* branch is left for is one the branch has, in every object map.
THEOREM TypeCorrect == Spec => []TypeOK
<1>1. TypeInv => TypeOK
    BY DEF TypeInv
<1> QED BY <1>1, TypeInvInit, TypeInvNext, PTL DEF Spec

-----------------------------------------------------------------------------
(***************************************************************************)
(* Callers that hold their lock for writing.                               *)
(***************************************************************************)

\* Only the thread that holds the lock is in a look-up.
OneAtATime == \A t \in Threads : pc[t] # "idle" => lock = t

\* No node in the cache is freed.
CacheIsLive == \A h \in cache : heap[h] # Freed

\* A node that is about to be put in the cache is the one of the block that was
\* read, and not in the cache yet.
InsertsNewNode ==
    \A t \in Threads :
        pc[t] = "insert" => heap[node[t]] = block[t] /\ node[t] \notin cache

OwnInv == OneAtATime /\ CacheIsLive /\ InsertsNewNode /\ NoFreedNodeIsUsed

\* No thread is in a look-up at first.
LEMMA OwnInvInit == Init => OwnInv
BY DEF Init, OwnInv, OneAtATime, CacheIsLive, InsertsNewNode, NoFreedNodeIsUsed

\* While one thread is in a look-up the others are not.
LEMMA OthersAreIdle ==
    ASSUME TypeInv, OwnInv, NEW t \in Threads, pc[t] # "idle"
    PROVE  \A u \in Threads \ {t} : pc[u] = "idle"
BY DEF OwnInv, OneAtATime

\* Every step keeps the ownership of nodes: what a step frees no other thread
\* can be using, because no other thread is in a look-up.
LEMMA OwnInvNext ==
    ASSUME Exclusive, TypeInv, OwnInv, [Next]_vars
    PROVE  OwnInv'
<1> USE DEF OwnInv, OneAtATime, CacheIsLive, InsertsNewNode, NoFreedNodeIsUsed
<1>0. /\ pc \in [Threads -> States] /\ node \in [Threads -> Handles \cup {None}]
      /\ heap \in [Handles -> Blocks \cup {Freed}] /\ cache \subseteq Handles
      /\ block \in [Threads -> Blocks] /\ PointersOK /\ lock \in Threads \cup {None}
    BY DEF TypeInv, TypeOK
<1>n. Freed \notin Blocks /\ None \notin Handles /\ None \notin Threads
    BY NamesAssumption
<1>1. CASE UNCHANGED vars
    BY <1>1 DEF vars
<1>2. ASSUME NEW t \in Threads, Start(t) PROVE OwnInv'
    <2>1. \A u \in Threads : pc[u] = "idle"
        BY <1>0, <1>2, <1>n DEF Start
    <2>2. \A u \in Threads \ {t} : pc'[u] = "idle"
        BY <1>0, <1>2, <2>1 DEF Start
    <2>3. pc'[t] = "lookup" /\ lock' = t /\ UNCHANGED <<heap, cache>>
        BY <1>0, <1>2 DEF Start, cacheVars
    <2> QED BY <2>2, <2>3
<1>3. ASSUME NEW t \in Threads, Step(t) PROVE OwnInv'
    <2>1. pc[t] # "idle"
        BY <1>3 DEF Step, CacheHit, CacheMiss, ReadNode, ReadFails, CacheSet,
                    CacheGet, CacheGetFails, SearchBranch, SearchLeaf, Describe,
                    UseFreed
    <2>2. lock = t /\ \A u \in Threads \ {t} : pc[u] = "idle"
        BY <2>1, OthersAreIdle
    <2>3. CASE CacheHit(t)
        <3>1. PICK h \in Cached(block[t]) : node' = [node EXCEPT ![t] = h]
            BY <2>3 DEF CacheHit
        <3>2. /\ pc' = [pc EXCEPT ![t] = "search"]
              /\ UNCHANGED <<heap, cache, lock, block>>
            BY <2>3 DEF CacheHit, cacheVars
        <3>3. heap[h] = block[t]
            BY DEF Cached
        <3> QED BY <1>0, <2>2, <3>1, <3>2, <3>3
    <2>4. CASE CacheMiss(t)
        BY <1>0, <2>2, <2>4 DEF CacheMiss, cacheVars
    <2>5. CASE ReadNode(t)
        <3>1. PICK h \in Handles : /\ heap[h] = Freed
                                   /\ heap' = [heap EXCEPT ![h] = block[t]]
                                   /\ node' = [node EXCEPT ![t] = h]
            BY <2>5 DEF ReadNode
        <3>2. /\ pc' = [pc EXCEPT ![t] = "insert"]
              /\ UNCHANGED <<cache, lock, block>>
            BY <2>5 DEF ReadNode
        <3>3. h \notin cache
            BY <3>1
        <3> QED BY <1>0, <1>n, <2>2, <3>1, <3>2, <3>3
    <2>6. CASE ReadFails(t)
        BY <1>0, <2>2, <2>6 DEF ReadFails, Return, cacheVars
    <2>7. CASE CacheSet(t)
        <3>1. PICK v \in Victims(t) :
                  /\ cache' = (cache \ {v}) \cup {node[t]}
                  /\ heap' = [h \in Handles |-> IF h = v THEN Freed ELSE heap[h]]
            BY <2>7 DEF CacheSet
        <3>2. /\ pc' = [pc EXCEPT ![t] = "fetch"] /\ pc[t] = "insert"
              /\ UNCHANGED <<lock, block>>
            BY <2>7 DEF CacheSet
        <3>3. v \in cache \/ v = None
            BY DEF Victims, Cached
        <3>4. node[t] # v /\ heap[node[t]] # Freed /\ node[t] \in Handles
            BY <1>0, <1>n, <3>2, <3>3 DEF PointersOK
        <3>5. CacheIsLive'
            BY <1>0, <3>1, <3>4
        <3> QED BY <1>0, <2>2, <3>2, <3>5
    <2>8. CASE CacheGet(t)
        <3>1. PICK h \in Cached(block[t]) : node' = [node EXCEPT ![t] = h]
            BY <2>8 DEF CacheGet
        <3>2. /\ pc' = [pc EXCEPT ![t] = "search"]
              /\ UNCHANGED <<heap, cache, lock, block>>
            BY <2>8 DEF CacheGet, cacheVars
        <3>3. heap[h] = block[t]
            BY DEF Cached
        <3> QED BY <1>0, <2>2, <3>1, <3>2, <3>3
    <2>9. CASE CacheGetFails(t)
        BY <1>0, <2>2, <2>9 DEF CacheGetFails, Return, cacheVars
    <2>10. CASE SearchBranch(t)
        <3>1. \/ pc' = [pc EXCEPT ![t] = "idle"]
              \/ pc' = [pc EXCEPT ![t] = "lookup"] /\ UNCHANGED lock
            BY <2>10 DEF SearchBranch, Return
        <3>2. UNCHANGED <<heap, cache>>
            BY <2>10 DEF SearchBranch, cacheVars
        <3> QED BY <1>0, <2>2, <3>1, <3>2
    <2>11. CASE SearchLeaf(t)
        <3>1. \/ pc' = [pc EXCEPT ![t] = "idle"]
              \/ pc' = [pc EXCEPT ![t] = "describe"] /\ UNCHANGED <<lock, node>>
            BY <2>11 DEF SearchLeaf, Return
        <3>2. pc[t] = "search" /\ UNCHANGED <<heap, cache, block>>
            BY <2>11 DEF SearchLeaf, cacheVars
        <3> QED BY <1>0, <2>2, <3>1, <3>2
    <2>12. CASE Describe(t)
        <3>1. pc' = [pc EXCEPT ![t] = "idle"] /\ UNCHANGED <<heap, cache>>
            BY <2>12 DEF Describe, Return, cacheVars
        <3> QED BY <1>0, <2>2, <3>1
    <2>13. CASE UseFreed(t)
        BY <1>0, <1>n, <2>13 DEF UseFreed
    <2> QED BY <1>3, <2>3, <2>4, <2>5, <2>6, <2>7, <2>8, <2>9, <2>10, <2>11,
               <2>12, <2>13 DEF Step
<1> QED BY <1>1, <1>2, <1>3 DEF Next

-----------------------------------------------------------------------------
(***************************************************************************)
(* A look-up is a snapshot read.                                           *)
(***************************************************************************)

\* What a look-up for k keeps true of the node b it has come to: k belongs
\* under b, and of the map's keys up to k there is, for each, one under b that
\* is not before it and not after k.
Holds(m, b, k) ==
    /\ k \in m.span[b]
    /\ \A c \in m.content :
        Leq(c, k) => \E d \in m.content \cap m.span[b] : Leq(c, d) /\ Leq(d, k)

\* It is true of the root.
LEMMA HoldsAtRoot ==
    ASSUME NEW m \in Tree, WellFormed(m), NEW k \in Key
    PROVE  Holds(m, m.root, k)
<1>1. m.span[m.root] = Key /\ m.content \subseteq Key
    BY DEF WellFormed, Tree
<1> QED BY <1>1, OrderOfKeys DEF Holds

\* What being well formed says of one branch.
LEMMA BranchOfWellFormed ==
    ASSUME NEW m \in Tree, WellFormed(m), NEW b \in Blocks, ~m.nodes[b].leaf,
           NEW i \in 1 .. Len(m.nodes[b].entries)
    PROVE  LET entries == m.nodes[b].entries
           IN  /\ entries \in Entries
               /\ m.span[b] \subseteq Key
               /\ \A j \in 1 .. Len(entries) :
                     /\ entries[j].key \in Key
                     /\ entries[j].key \in m.content \cap m.span[b]
               /\ \A j, l \in 1 .. Len(entries) :
                     j < l => Beyond(entries[l].key, entries[j].key)
               /\ m.span[entries[i].child] =
                     {x \in m.span[b] :
                        /\ i = 1 \/ Leq(entries[i].key, x)
                        /\ i = Len(entries) \/ Beyond(entries[i + 1].key, x)}
<1> DEFINE entries == m.nodes[b].entries
           keys == {entries[j].key : j \in DOMAIN entries}
<1>1. entries \in Entries /\ m.span[b] \subseteq Key
    BY DEF Tree, Node, Entries
<1>2. DOMAIN entries = 1 .. Len(entries)
    BY <1>1 DEF Entries
<1>3. /\ Sorted(entries)
      /\ keys \subseteq m.content \cap m.span[b]
      /\ m.span[entries[i].child] =
            {x \in m.span[b] :
                /\ i = 1 \/ Leq(entries[i].key, x)
                /\ i = Len(entries) \/ Beyond(entries[i + 1].key, x)}
    BY <1>2 DEF WellFormed
<1>4. \A j, l \in 1 .. Len(entries) :
         j < l => Beyond(entries[l].key, entries[j].key)
    BY <1>2, <1>3 DEF Sorted
<1>5. \A j \in 1 .. Len(entries) : entries[j].key \in m.content \cap m.span[b]
    BY <1>2, <1>3
<1> HIDE DEF entries
<1>6. \A j \in 1 .. Len(entries) : entries[j].key \in Key
    BY <1>1, EntryIsTyped
<1> QED BY <1>1, <1>3, <1>4, <1>5, <1>6 DEF entries

\* It stays true when the look-up leaves a branch for the sub node it chose.
LEMMA HoldsBelow ==
    ASSUME NEW m \in Tree, WellFormed(m), NEW b \in Blocks, NEW k \in Key,
           ~m.nodes[b].leaf, m.nodes[b].entries # <<>>, Holds(m, b, k)
    PROVE  LET entries == m.nodes[b].entries
           IN  Holds(m, entries[BranchIndex(entries, k)].child, k)
<1> DEFINE entries == m.nodes[b].entries
           n == Passed(entries, k)
           i == BranchIndex(entries, k)
           E(j) == entries[j].key
           span == m.span[entries[i].child]
<1>0. entries \in Entries /\ entries # <<>> /\ m.content \subseteq Key
    BY DEF Tree, Node, Entries
<1>1. i \in 1 .. Len(entries) /\ Len(entries) \in Nat
    <2> HIDE DEF entries
    <2>1. i \in 1 .. Len(entries)
        BY <1>0, BranchIndexIsDefined
    <2>2. Len(entries) \in Nat
        BY <1>0 DEF Entries
    <2> QED BY <2>1, <2>2
<1>2. /\ n \in 0 .. Len(entries)
      /\ \A j \in 1 .. n : ~Beyond(E(j), k)
      /\ n < Len(entries) => Beyond(E(n + 1), k)
    <2> HIDE DEF entries
    <2> QED BY <1>0, PassedIsDefined
<1>3. i = IF n = 0 THEN 1 ELSE n
    BY DEF BranchIndex
<1>4. /\ m.span[b] \subseteq Key
      /\ \A j \in 1 .. Len(entries) : E(j) \in Key /\ E(j) \in m.content \cap m.span[b]
      /\ \A j, l \in 1 .. Len(entries) : j < l => Beyond(E(l), E(j))
      /\ span = {x \in m.span[b] : /\ i = 1 \/ Leq(E(i), x)
                                   /\ i = Len(entries) \/ Beyond(E(i + 1), x)}
    BY <1>1, BranchOfWellFormed
<1> HIDE DEF n, i, E, entries, span
\* The next entry, if there is one, is beyond k.
<1>5. i # Len(entries) => i + 1 \in 1 .. Len(entries) /\ Beyond(E(i + 1), k)
    <2> SUFFICES ASSUME i # Len(entries)
                 PROVE  i + 1 \in 1 .. Len(entries) /\ Beyond(E(i + 1), k)
        OBVIOUS
    <2>1. i + 1 \in 1 .. Len(entries) /\ i < i + 1
        BY <1>1
    <2>2. CASE n = 0
        <3>1. i = 1 /\ Beyond(E(1), k)
            BY <1>1, <1>2, <1>3, <2>2
        <3>2. Beyond(E(i + 1), E(1))
            BY <1>1, <1>4, <2>1, <3>1
        <3>3. E(i + 1) \in Key /\ E(1) \in Key
            BY <1>1, <1>4, <2>1, <3>1
        <3> QED BY <2>1, <3>1, <3>2, <3>3, OrderOfKeys
    <2>3. CASE n # 0
        BY <1>1, <1>2, <1>3, <2>1, <2>3
    <2> QED BY <2>2, <2>3
\* The entry itself is not, or it is the first.
<1>6. i # 1 => Leq(E(i), k)
    BY <1>1, <1>2, <1>3 DEF Leq
<1>7. k \in span
    BY <1>4, <1>5, <1>6 DEF Holds
<1>8. ASSUME NEW c \in m.content, Leq(c, k)
      PROVE  \E d \in m.content \cap span : Leq(c, d) /\ Leq(d, k)
    <2>1. PICK d \in m.content \cap m.span[b] : Leq(c, d) /\ Leq(d, k)
        BY <1>8 DEF Holds
    <2>2. d \in Key /\ c \in Key
        BY <1>0
    <2>3. \A x \in m.span[b] :
             Leq(x, k) => i = Len(entries) \/ Beyond(E(i + 1), x)
        BY <1>4, <1>5, OrderOfKeys
    <2>4. CASE i = 1 \/ Leq(E(i), d)
        <3>1. d \in span
            BY <1>4, <2>1, <2>3, <2>4
        <3> QED BY <2>1, <3>1
    <2>5. CASE i # 1 /\ ~Leq(E(i), d)
        <3>1. E(i) \in Key /\ E(i) \in m.content \cap m.span[b]
            BY <1>1, <1>4
        <3>2. Leq(E(i), k) /\ Leq(E(i), E(i))
            BY <1>6, <2>5, <3>1, OrderOfKeys
        <3>3. E(i) \in span
            BY <1>4, <2>3, <3>1, <3>2
        <3>4. Leq(d, E(i))
            BY <2>2, <2>5, <3>1, OrderOfKeys DEF Leq
        <3>5. Leq(c, E(i))
            BY <2>1, <2>2, <3>1, <3>4, OrderOfKeys
        <3> QED BY <3>1, <3>2, <3>3, <3>5
    <2> QED BY <2>4, <2>5
<1>9. Holds(m, entries[i].child, k)
    BY <1>7, <1>8 DEF Holds, span
<1> QED BY <1>9 DEF i, entries

\* What the scan of a leaf leaves as previous_entry is the last of the map's
\* keys up to k.
LEMMA LastKeyInLeaf ==
    ASSUME NEW m \in Tree, WellFormed(m), NEW b \in Blocks, NEW k \in Key,
           m.nodes[b].leaf, Holds(m, b, k)
    PROVE  LET entries == m.nodes[b].entries
               n == Passed(entries, k)
           IN  /\ n # 0 => /\ entries[n].key \in m.content
                           /\ Leq(entries[n].key, k)
               /\ \A c \in m.content :
                     Leq(c, k) => n # 0 /\ Leq(c, entries[n].key)
<1> DEFINE entries == m.nodes[b].entries
           n == Passed(entries, k)
           E(j) == entries[j].key
           keys == {entries[j].key : j \in DOMAIN entries}
<1>0. entries \in Entries /\ m.content \subseteq Key
    BY DEF Tree, Node, Entries
<1>1. DOMAIN entries = 1 .. Len(entries) /\ Len(entries) \in Nat
    BY <1>0 DEF Entries
<1>2. /\ n \in 0 .. Len(entries)
      /\ \A j \in 1 .. n : ~Beyond(E(j), k)
      /\ n < Len(entries) => Beyond(E(n + 1), k)
    <2> HIDE DEF entries
    <2> QED BY <1>0, PassedIsDefined
<1>3. Sorted(entries) /\ keys = m.content \cap m.span[b]
    BY DEF WellFormed
<1>4. \A j, l \in 1 .. Len(entries) : j < l => Beyond(E(l), E(j))
    BY <1>1, <1>3 DEF Sorted
<1>5. \A j \in 1 .. Len(entries) : E(j) \in m.content /\ E(j) \in Key
    BY <1>0, <1>1, <1>3
<1>6. \A d \in m.content \cap m.span[b] : \E j \in 1 .. Len(entries) : d = E(j)
    BY <1>1, <1>3
<1> HIDE DEF n, E, entries, keys
<1>7. n # 0 => n \in 1 .. Len(entries) /\ n \in 1 .. n
    BY <1>1, <1>2
<1>8. n # 0 => E(n) \in m.content /\ Leq(E(n), k)
    BY <1>2, <1>5, <1>7 DEF Leq
<1>9. ASSUME NEW c \in m.content, Leq(c, k)
      PROVE  n # 0 /\ Leq(c, E(n))
    <2>1. PICK d \in m.content \cap m.span[b] : Leq(c, d) /\ Leq(d, k)
        BY <1>9 DEF Holds
    <2>2. PICK j \in 1 .. Len(entries) : d = E(j)
        BY <1>6
    <2>3. d \in Key /\ c \in Key
        BY <1>0
    <2>4. j <= n
        <3> SUFFICES ASSUME n < j PROVE FALSE
            BY <1>1, <1>2
        <3>1. n + 1 \in 1 .. Len(entries) /\ Beyond(E(n + 1), k)
            BY <1>1, <1>2
        <3>2. CASE n + 1 = j
            BY <2>1, <2>2, <3>1, <3>2 DEF Leq
        <3>3. CASE n + 1 < j
            <4>1. Beyond(E(j), E(n + 1)) /\ E(n + 1) \in Key
                BY <1>4, <1>5, <3>1, <3>3
            <4>2. Leq(E(n + 1), E(j))
                BY <2>2, <2>3, <4>1, OrderOfKeys
            <4>3. Beyond(E(j), k)
                BY <2>2, <2>3, <3>1, <4>1, <4>2, OrderOfKeys
            <4> QED BY <2>1, <2>2, <4>3 DEF Leq
        <3> QED BY <1>1, <1>2, <3>2, <3>3
    <2>5. n # 0 /\ n \in 1 .. Len(entries) /\ E(n) \in Key
        BY <1>1, <1>2, <1>5, <2>4
    <2>6. Leq(d, E(n))
        <3>1. CASE j = n
            BY <2>2, <2>3, <3>1, OrderOfKeys
        <3>2. CASE j < n
            <4>1. Beyond(E(n), E(j))
                BY <1>4, <2>5, <3>2
            <4> QED BY <2>2, <2>3, <2>5, <4>1, OrderOfKeys
        <3> QED BY <1>1, <2>4, <2>5, <3>1, <3>2
    <2> QED BY <2>1, <2>3, <2>5, <2>6, OrderOfKeys
<1> QED BY <1>8, <1>9 DEF n, E, entries

\* The versions of an object that a look-up for k may answer with.
Versions(m, k) == {c \in m.content : c[1] = k[1] /\ c[2] <= k[2]}

\* The answer found in a leaf: the newest version, or none when there is none.
LEMMA AnswerOfLeaf ==
    ASSUME NEW m \in Tree, WellFormed(m), NEW b \in Blocks, NEW k \in Key,
           m.nodes[b].leaf, Holds(m, b, k)
    PROVE  LET entries == m.nodes[b].entries
               n == Passed(entries, k)
           IN  /\ ~FoundInLeaf(entries, k) => Versions(m, k) = {}
               /\ FoundInLeaf(entries, k) /\ n # 0 =>
                     /\ entries[n].key \in Versions(m, k)
                     /\ \A c \in Versions(m, k) : c[2] <= entries[n].key[2]
<1> DEFINE entries == m.nodes[b].entries
           n == Passed(entries, k)
           f == entries[n].key
<1>0. m.content \subseteq Key
    BY DEF Tree
<1>1. /\ n # 0 => f \in m.content /\ Leq(f, k)
      /\ \A c \in m.content : Leq(c, k) => n # 0 /\ Leq(c, f)
    BY LastKeyInLeaf
<1>2. FoundInLeaf(entries, k) <=> k[1] = IF n = 0 THEN 0 ELSE f[1]
    BY DEF FoundInLeaf
<1> HIDE DEF entries, n, f
<1>3. \A c \in Versions(m, k) : /\ c \in Key /\ c \in m.content
                                /\ Leq(c, k) /\ c[1] = k[1]
    BY <1>0, OrderOfVersions DEF Versions
<1>4. \A c \in Versions(m, k) : n # 0 /\ f \in Key /\ Leq(c, f) /\ f[1] = k[1]
    BY <1>0, <1>1, <1>3, BetweenVersions
<1>5. ~FoundInLeaf(entries, k) => Versions(m, k) = {}
    BY <1>2, <1>4
<1>6. ASSUME FoundInLeaf(entries, k), n # 0
      PROVE  f \in Versions(m, k) /\ \A c \in Versions(m, k) : c[2] <= f[2]
    <2>1. f \in Key /\ f \in m.content /\ Leq(f, k) /\ f[1] = k[1]
        BY <1>0, <1>1, <1>2, <1>6
    <2>2. f \in Versions(m, k)
        BY <2>1, OrderOfVersions DEF Versions
    <2>3. \A c \in Versions(m, k) : c[2] <= f[2]
        BY <1>3, <1>4, <2>1, OrderOfVersions
    <2> QED BY <2>2, <2>3
<1> QED BY <1>5, <1>6 DEF entries, n, f

Walking == {"lookup", "read", "insert", "fetch", "search", "describe"}

\* The answer a thread has got is the newest version.
AnswerIsRight(t) ==
    /\ result[t] = 1 => /\ found[t] \in Versions(tree, target[t])
                        /\ \A c \in Versions(tree, target[t]) : c[2] <= found[t][2]
    /\ result[t] = 0 => Versions(tree, target[t]) = {}

\* What the look-up of one thread keeps true.
WalkIsRight(t) ==
    /\ pc[t] \in Walking => Holds(tree, block[t], target[t])
    /\ pc[t] = "describe" =>
        /\ tree.nodes[block[t]].leaf
        /\ FoundInLeaf(tree.nodes[block[t]].entries, target[t])
    /\ pc[t] = "idle" => AnswerIsRight(t)

ReadInv == WellFormed(tree) => \A t \in Threads : WalkIsRight(t)

\* No look-up has been made at first.
LEMMA ReadInvInit == Init => ReadInv
BY DEF Init, ReadInv, WalkIsRight, Walking, AnswerIsRight, NoResult

\* A thread's steps change no one else's look-up, and never the object map.
LEMMA OthersAreLeftAlone ==
    ASSUME TypeInv, NEW t \in Threads, Start(t) \/ Step(t)
    PROVE  /\ tree' = tree
           /\ \A u \in Threads \ {t} :
                /\ pc'[u] = pc[u] /\ target'[u] = target[u]
                /\ block'[u] = block[u]
                /\ result'[u] = result[u] /\ found'[u] = found[u]
<1> USE DEF TypeInv, TypeOK
<1>1. CASE Start(t)
    BY <1>1 DEF Start
<1>2. CASE CacheHit(t) \/ CacheMiss(t) \/ ReadNode(t) \/ CacheSet(t) \/ CacheGet(t)
    BY <1>2 DEF CacheHit, CacheMiss, ReadNode, CacheSet, CacheGet
<1>3. CASE ReadFails(t) \/ CacheGetFails(t) \/ UseFreed(t)
    BY <1>3 DEF ReadFails, CacheGetFails, UseFreed, Return
<1>4. CASE SearchBranch(t)
    <2>1. \/ Return(t, -1) /\ UNCHANGED <<block, depth>>
          \/ /\ \E b : block' = [block EXCEPT ![t] = b]
             /\ pc' = [pc EXCEPT ![t] = "lookup"]
             /\ UNCHANGED <<lock, result>>
        BY <1>4 DEF SearchBranch
    <2>2. UNCHANGED <<tree, target, found>>
        BY <1>4 DEF SearchBranch
    <2> QED BY <2>1, <2>2 DEF Return
<1>5. CASE SearchLeaf(t)
    BY <1>5 DEF SearchLeaf, Return
<1>6. CASE Describe(t)
    <2>1. UNCHANGED found \/ \E k : found' = [found EXCEPT ![t] = k]
        BY <1>6 DEF Describe
    <2>2. \E r : Return(t, r)
        BY <1>6 DEF Describe
    <2>3. UNCHANGED <<tree, target, block>>
        BY <1>6 DEF Describe
    <2> QED BY <2>1, <2>2, <2>3 DEF Return
<1> QED BY <1>1, <1>2, <1>3, <1>4, <1>5, <1>6 DEF Step

\* Every step of a look-up keeps it on the way to the right answer.
LEMMA ReadInvNext ==
    ASSUME TypeInv, OwnInv, ReadInv, [Next]_vars
    PROVE  ReadInv'
<1>1. CASE UNCHANGED vars
    BY <1>1 DEF vars, ReadInv, WalkIsRight, AnswerIsRight
<1>2. ASSUME NEW t \in Threads, Start(t) \/ Step(t) PROVE ReadInv'
    <2>1. tree' = tree
        BY <1>2, OthersAreLeftAlone
    <2> SUFFICES ASSUME WellFormed(tree), NEW u \in Threads PROVE WalkIsRight(u)'
        BY <2>1 DEF ReadInv
    <2>2. WalkIsRight(u) /\ WalkIsRight(t)
        BY DEF ReadInv
    <2>3. CASE u # t
        BY <1>2, <2>1, <2>2, <2>3, OthersAreLeftAlone
           DEF WalkIsRight, AnswerIsRight
    <2>4. CASE u = t
        <3> SUFFICES WalkIsRight(t)'
            BY <2>4
        <3>0. /\ tree \in Tree /\ block[t] \in Blocks /\ target[t] \in Key
              /\ pc \in [Threads -> States]
              /\ result \in [Threads -> {-1, 0, 1, NoResult}]
              /\ target \in [Threads -> Key]
              /\ block \in [Threads -> Blocks]
              /\ found \in [Threads -> Key]
            BY TreesAssumption DEF TypeInv, TypeOK
        <3> DEFINE b == block[t]
                   k == target[t]
        \* A look-up that returns an error has no answer.
        <3>1. ASSUME Return(t, -1) PROVE WalkIsRight(t)'
            BY <3>0, <3>1 DEF Return, WalkIsRight, AnswerIsRight, Walking
        <3>2. CASE Start(t)
            <4>1. PICK q \in Targets : target' = [target EXCEPT ![t] = q]
                BY <3>2 DEF Start
            <4>2. /\ q \in Key /\ target'[t] = q /\ block'[t] = tree.root
                  /\ pc'[t] = "lookup"
                BY <3>0, <3>2, <4>1, TargetsAssumption DEF Start
            <4>3. Holds(tree, tree.root, q)
                BY <3>0, <4>2, HoldsAtRoot
            <4> QED BY <2>1, <4>2, <4>3 DEF WalkIsRight
        <3>3. CASE \/ CacheHit(t) \/ CacheMiss(t) \/ ReadNode(t) \/ CacheSet(t)
                   \/ CacheGet(t)
            <4>1. /\ pc[t] \in Walking /\ pc'[t] \in Walking \ {"describe"}
                  /\ UNCHANGED <<block, target>>
                BY <3>0, <3>3 DEF CacheHit, CacheMiss, ReadNode, CacheSet, CacheGet,
                                  Walking
            <4> QED BY <2>1, <2>2, <4>1 DEF WalkIsRight, Walking
        <3>4. CASE ReadFails(t) \/ CacheGetFails(t)
            BY <3>1, <3>4 DEF ReadFails, CacheGetFails
        <3>5. CASE UseFreed(t)
            <4>1. pc'[t] = "crashed"
                BY <3>0, <3>5 DEF UseFreed
            <4> QED BY <4>1 DEF WalkIsRight, Walking
        <3>6. CASE SearchBranch(t)
            <4>1. NodeOf(t) = tree.nodes[b] /\ Holds(tree, b, k)
                BY <2>2, <3>6 DEF SearchBranch, NodeOf, OwnInv, NoFreedNodeIsUsed,
                                  WalkIsRight, Walking
            <4> DEFINE entries == tree.nodes[b].entries
                       child == entries[BranchIndex(entries, k)].child
            <4>2. CASE depth[t] > MaxDepth \/ entries = <<>>
                BY <3>1, <3>6, <4>1, <4>2 DEF SearchBranch
            <4>3. CASE ~(depth[t] > MaxDepth \/ entries = <<>>)
                <5>1. Holds(tree, child, k)
                    BY <3>0, <3>6, <4>1, <4>3, HoldsBelow DEF SearchBranch
                <5>2. /\ block'[t] = child /\ target'[t] = k /\ pc'[t] = "lookup"
                    BY <3>0, <3>6, <4>1, <4>3 DEF SearchBranch
                <5> HIDE DEF child
                <5> QED BY <2>1, <5>1, <5>2 DEF WalkIsRight
            <4> QED BY <4>2, <4>3
        <3>7. CASE SearchLeaf(t)
            <4>1. /\ NodeOf(t) = tree.nodes[b] /\ Holds(tree, b, k)
                  /\ tree.nodes[b].leaf
                BY <2>2, <3>7 DEF SearchLeaf, NodeOf, OwnInv, NoFreedNodeIsUsed,
                                  WalkIsRight, Walking
            <4>2. UNCHANGED <<block, target, found>>
                BY <3>7 DEF SearchLeaf
            <4>3. CASE depth[t] > MaxDepth
                BY <3>1, <3>7, <4>3 DEF SearchLeaf
            <4>4. CASE ~FoundInLeaf(tree.nodes[b].entries, k) /\ ~(depth[t] > MaxDepth)
                <5>1. Versions(tree, k) = {}
                    BY <3>0, <4>1, <4>4, AnswerOfLeaf
                <5>2. Return(t, 0)
                    BY <3>7, <4>1, <4>4 DEF SearchLeaf
                <5>3. pc'[t] = "idle" /\ result'[t] = 0
                    BY <3>0, <5>2 DEF Return
                <5> QED BY <2>1, <4>2, <5>1, <5>3
                        DEF WalkIsRight, AnswerIsRight, Walking
            <4>5. CASE FoundInLeaf(tree.nodes[b].entries, k) /\ ~(depth[t] > MaxDepth)
                <5>1. pc'[t] = "describe"
                    BY <3>0, <3>7, <4>1, <4>5 DEF SearchLeaf
                <5> QED BY <2>1, <4>1, <4>2, <4>5, <5>1 DEF WalkIsRight, Walking
            <4> QED BY <4>3, <4>4, <4>5
        <3>8. CASE Describe(t)
            <4>1. /\ NodeOf(t) = tree.nodes[b] /\ Holds(tree, b, k)
                  /\ tree.nodes[b].leaf
                  /\ FoundInLeaf(tree.nodes[b].entries, k)
                BY <2>2, <3>8 DEF Describe, NodeOf, OwnInv, NoFreedNodeIsUsed,
                                  WalkIsRight, Walking
            <4> DEFINE entries == tree.nodes[b].entries
                       n == Passed(entries, k)
                       f == entries[n].key
            <4>2. CASE Return(t, -1)
                BY <3>1, <4>2
            <4>3. CASE n # 0 /\ ~Return(t, -1)
                <5>1. /\ f \in Versions(tree, k)
                      /\ \A c \in Versions(tree, k) : c[2] <= f[2]
                    BY <3>0, <4>1, <4>3, AnswerOfLeaf
                <5>2. /\ Return(t, 1) /\ found' = [found EXCEPT ![t] = f]
                      /\ UNCHANGED target
                    BY <3>8, <4>1, <4>3 DEF Describe
                <5> HIDE DEF f
                <5>3. pc'[t] = "idle" /\ result'[t] = 1 /\ found'[t] = f
                    BY <3>0, <5>2 DEF Return
                <5> QED BY <2>1, <5>1, <5>2, <5>3
                        DEF WalkIsRight, AnswerIsRight, Walking
            <4>4. n = 0 => Return(t, -1)
                BY <3>8, <4>1 DEF Describe
            <4> HIDE DEF n
            <4> QED BY <4>2, <4>3, <4>4
        <3> QED BY <1>2, <3>2, <3>3, <3>4, <3>5, <3>6, <3>7, <3>8 DEF Step
    <2> QED BY <2>3, <2>4
<1> QED BY <1>1, <1>2 DEF Next

\* A look-up in a well-formed object map is a snapshot read: it finds the newest
\* version of the object that is not newer than the transaction, and finds none
\* only when there is none, at every depth of the tree and whatever the node
\* cache evicts on the way.
THEOREM LookupsAreSnapshotReads ==
    ASSUME Exclusive PROVE Spec => []LookupIsSnapshotRead
<1>1. TypeInv /\ OwnInv /\ [Next]_vars => OwnInv'
    BY OwnInvNext
<1>2. TypeInv /\ OwnInv /\ ReadInv /\ [Next]_vars => ReadInv'
    BY ReadInvNext
<1>3. ReadInv => LookupIsSnapshotRead
    BY DEF ReadInv, WalkIsRight, AnswerIsRight, LookupIsSnapshotRead, Versions
<1> QED BY <1>1, <1>2, <1>3, TypeInvInit, TypeInvNext, OwnInvInit, ReadInvInit,
           PTL DEF Spec

-----------------------------------------------------------------------------
(***************************************************************************)
(* The B-tree implements the object store.                                 *)
(***************************************************************************)

busy == [t \in Threads |-> pc[t] # "idle"]

\* No look-up has been made of the store at first.
LEMMA StoreInit == Init => Store!Init
<1> SUFFICES ASSUME Init PROVE Store!Init
    OBVIOUS
<1>1. tree.content \in {m.content : m \in Trees}
    BY DEF Init
<1> QED BY <1>1 DEF Init, Store!Init, NoKey, NoResult, Store!NoKey, Store!NoResult

\* A step inside a look-up is none of the store's.
LEMMA StoreStutters ==
    ASSUME TypeInv, NEW t \in Threads, pc[t] # "idle",
           \E w \in States \ {"idle"} : pc' = [pc EXCEPT ![t] = w],
           UNCHANGED <<tree, target, result, found>>
    PROVE  UNCHANGED Store!vars
<1>1. busy' = busy
    BY DEF busy, TypeInv, TypeOK
<1> QED BY <1>1 DEF Store!vars, busy

\* A look-up that returns is one that the store finishes.
LEMMA StoreFinishes ==
    ASSUME TypeInv, NEW t \in Threads, NEW r, pc[t] # "idle", Return(t, r),
           UNCHANGED <<tree, target>>
    PROVE  Store!Finish(t, r)
<1>1. busy[t] /\ busy' = [busy EXCEPT ![t] = FALSE]
    BY DEF busy, Return, TypeInv, TypeOK
<1> QED BY <1>1 DEF Return, Store!Finish, busy

\* Every step of the B-tree is a step of the store or none.
LEMMA StoreNext ==
    ASSUME \A m \in Trees : WellFormed(m), TypeInv, OwnInv, ReadInv, [Next]_vars
    PROVE  [Store!Next]_(Store!vars)
<1>1. CASE UNCHANGED vars
    BY <1>1 DEF vars, Store!vars
<1>2. ASSUME NEW t \in Threads, Start(t) PROVE Store!Next
    <2>1. ~busy[t] /\ busy' = [busy EXCEPT ![t] = TRUE]
        BY <1>2 DEF Start, busy, TypeInv, TypeOK
    <2>2. Store!Ask(t)
        BY <1>2, <2>1 DEF Start, Store!Ask, busy, NoResult, Store!NoResult
    <2> QED BY <2>2 DEF Store!Next
<1>3. ASSUME NEW t \in Threads, Step(t) PROVE [Store!Next]_(Store!vars)
    <2>0. /\ tree \in Tree /\ WellFormed(tree) /\ WalkIsRight(t)
          /\ block[t] \in Blocks /\ target[t] \in Key
        BY TreesAssumption DEF TypeInv, TypeOK, ReadInv
    <2>1. ASSUME pc[t] # "idle", Return(t, -1), UNCHANGED <<tree, target, found>>
          PROVE  Store!Next
        <3>1. Store!AnswerError(t)
            BY <2>1, StoreFinishes DEF Store!AnswerError
        <3> QED BY <3>1 DEF Store!Next
    <2>2. CASE \/ CacheHit(t) \/ CacheMiss(t) \/ ReadNode(t) \/ CacheSet(t)
               \/ CacheGet(t) \/ UseFreed(t)
        <3>1. /\ pc[t] # "idle" /\ UNCHANGED <<tree, target, result, found>>
              /\ \E w \in States \ {"idle"} : pc' = [pc EXCEPT ![t] = w]
            BY <2>2 DEF CacheHit, CacheMiss, ReadNode, CacheSet, CacheGet, UseFreed,
                        States
        <3> QED BY <3>1, StoreStutters
    <2>3. CASE ReadFails(t) \/ CacheGetFails(t)
        BY <2>1, <2>3 DEF ReadFails, CacheGetFails
    <2>4. CASE SearchBranch(t)
        <3>1. pc[t] # "idle" /\ UNCHANGED <<tree, target, found>>
            BY <2>4 DEF SearchBranch
        <3>2. \/ Return(t, -1)
              \/ pc' = [pc EXCEPT ![t] = "lookup"] /\ UNCHANGED result
            BY <2>4 DEF SearchBranch
        <3> QED BY <2>1, <3>1, <3>2, StoreStutters DEF States
    <2>5. CASE SearchLeaf(t)
        <3>1. pc[t] = "search" /\ UNCHANGED <<tree, target, found>>
            BY <2>5 DEF SearchLeaf
        <3>2. /\ NodeOf(t) = tree.nodes[block[t]] /\ tree.nodes[block[t]].leaf
              /\ Holds(tree, block[t], target[t])
            BY <2>0, <2>5 DEF SearchLeaf, NodeOf, OwnInv, NoFreedNodeIsUsed,
                              WalkIsRight, Walking
        <3>3. \/ Return(t, -1)
              \/ /\ ~FoundInLeaf(tree.nodes[block[t]].entries, target[t])
                 /\ Return(t, 0)
              \/ pc' = [pc EXCEPT ![t] = "describe"] /\ UNCHANGED result
            BY <2>5, <3>2 DEF SearchLeaf
        <3>4. CASE /\ ~FoundInLeaf(tree.nodes[block[t]].entries, target[t])
                   /\ Return(t, 0)
            <4>1. Versions(tree, target[t]) = {}
                BY <2>0, <3>2, <3>4, AnswerOfLeaf
            <4>2. Store!Finish(t, 0)
                BY <3>1, <3>4, StoreFinishes
            <4>3. Store!AnswerNone(t)
                BY <3>1, <4>1, <4>2 DEF Store!AnswerNone, Store!Versions, Versions
            <4> QED BY <4>3 DEF Store!Next
        <3>5. CASE Return(t, -1)
            BY <2>1, <3>1, <3>5
        <3>6. CASE pc' = [pc EXCEPT ![t] = "describe"] /\ UNCHANGED result
            BY <3>1, <3>6, StoreStutters DEF States
        <3> QED BY <3>3, <3>4, <3>5, <3>6
    <2>6. CASE Describe(t)
        <3> DEFINE entries == tree.nodes[block[t]].entries
                   n == Passed(entries, target[t])
                   f == entries[n].key
        <3>1. pc[t] = "describe" /\ UNCHANGED <<tree, target>>
            BY <2>6 DEF Describe
        <3>2. /\ NodeOf(t) = tree.nodes[block[t]] /\ tree.nodes[block[t]].leaf
              /\ Holds(tree, block[t], target[t])
              /\ FoundInLeaf(entries, target[t])
            BY <2>0, <2>6 DEF Describe, NodeOf, OwnInv, NoFreedNodeIsUsed,
                              WalkIsRight, Walking
        <3>3. \/ Return(t, -1) /\ UNCHANGED found
              \/ n # 0 /\ Return(t, 1) /\ found' = [found EXCEPT ![t] = f]
            BY <2>6, <3>2 DEF Describe
        <3>4. n # 0 => /\ f \in Versions(tree, target[t])
                       /\ \A c \in Versions(tree, target[t]) : c[2] <= f[2]
            BY <2>0, <3>2, AnswerOfLeaf
        <3> HIDE DEF n, f
        <3>5. CASE n # 0 /\ Return(t, 1) /\ found' = [found EXCEPT ![t] = f]
            <4>1. Store!Finish(t, 1)
                BY <3>1, <3>5, StoreFinishes
            <4>2. Store!AnswerFound(t)
                BY <3>4, <3>5, <4>1 DEF Store!AnswerFound, Store!Versions, Versions
            <4> QED BY <4>2 DEF Store!Next
        <3>6. CASE Return(t, -1) /\ UNCHANGED found
            BY <2>1, <3>1, <3>6
        <3> QED BY <3>3, <3>5, <3>6
    <2> QED BY <1>3, <2>2, <2>3, <2>4, <2>5, <2>6 DEF Step
<1> QED BY <1>1, <1>2, <1>3 DEF Next

\* When callers hold their lock for writing, the B-tree of a well-formed object
\* map implements the object store: each look-up of many steps, through branches
\* and a cache that evicts, amounts to one step that answers or fails.
THEOREM BTreeImplementsStore ==
    ASSUME Exclusive, \A m \in Trees : WellFormed(m)
    PROVE  Spec => ImplementsStore
<1>1. TypeInv /\ OwnInv /\ [Next]_vars => OwnInv'
    BY OwnInvNext
<1>2. TypeInv /\ OwnInv /\ ReadInv /\ [Next]_vars => ReadInv'
    BY ReadInvNext
<1>3. TypeInv /\ OwnInv /\ ReadInv /\ [Next]_vars => [Store!Next]_(Store!vars)
    BY StoreNext
<1> QED BY <1>1, <1>2, <1>3, TypeInvInit, TypeInvNext, OwnInvInit, ReadInvInit,
           StoreInit, PTL DEF Spec, ImplementsStore, Store!Spec

-----------------------------------------------------------------------------
(***************************************************************************)
(* Nodes are owned, however many threads share the cache.                  *)
(***************************************************************************)

\* Two threads that are about to put a node in the cache have read two nodes.
InsertsAreTheirOwn ==
    \A t, u \in Threads :
        pc[t] = "insert" /\ pc[u] = "insert" /\ node[t] = node[u] => t = u

OwnedInv ==
    /\ NodesAreOwned /\ IsFiniteSet(cache)
    /\ InsertsNewNode /\ InsertsAreTheirOwn

\* A step that leaves the nodes in memory, and puts no thread before or after
\* the insertion of one, disturbs nothing.
LEMMA OwnedFrame ==
    ASSUME TypeInv, OwnedInv, NEW t \in Threads, pc[t] # "insert",
           UNCHANGED cacheVars,
           NEW w \in States \ {"insert"}, pc' = [pc EXCEPT ![t] = w],
           \A u \in Threads \ {t} : node'[u] = node[u] /\ block'[u] = block[u]
    PROVE  OwnedInv'
<1>1. \A u \in Threads :
        /\ pc'[u] = "insert" <=> pc[u] = "insert"
        /\ pc[u] = "insert" => node'[u] = node[u] /\ block'[u] = block[u]
    BY DEF TypeInv, TypeOK
<1>2. heap' = heap /\ cache' = cache
    BY DEF cacheVars
<1>3. NodesAreOwned'
    BY <1>1, <1>2 DEF OwnedInv, NodesAreOwned
<1>4. InsertsNewNode' /\ InsertsAreTheirOwn'
    BY <1>1, <1>2 DEF OwnedInv, InsertsNewNode, InsertsAreTheirOwn
<1> QED BY <1>2, <1>3, <1>4 DEF OwnedInv

\* A node that was read is the thread's alone.
LEMMA OwnedRead ==
    ASSUME TypeInv, OwnedInv, NEW t \in Threads, ReadNode(t)
    PROVE  OwnedInv'
<1>0. /\ pc \in [Threads -> States] /\ node \in [Threads -> Handles \cup {None}]
      /\ heap \in [Handles -> Blocks \cup {Freed}] /\ cache \subseteq Handles
      /\ block \in [Threads -> Blocks] /\ Freed \notin Blocks
      /\ \A u \in Threads : pc[u] = "insert" => node[u] \in Handles
    BY NamesAssumption DEF TypeInv, TypeOK, PointersOK
<1>1. PICK h \in Handles : /\ heap[h] = Freed
                           /\ heap' = [heap EXCEPT ![h] = block[t]]
                           /\ node' = [node EXCEPT ![t] = h]
    BY DEF ReadNode
<1>2. /\ pc[t] = "read" /\ pc' = [pc EXCEPT ![t] = "insert"]
      /\ UNCHANGED <<cache, block>>
    BY DEF ReadNode
<1>3. /\ h \notin cache
      /\ \A u \in Threads : pc[u] = "insert" => node[u] # h
    BY <1>0, <1>1 DEF OwnedInv, NodesAreOwned, InsertsNewNode
<1>4. /\ pc'[t] = "insert" /\ node'[t] = h /\ heap'[h] = block[t]
      /\ \A u \in Threads \ {t} : pc'[u] = pc[u] /\ node'[u] = node[u]
      /\ \A g \in Handles : g # h => heap'[g] = heap[g]
    BY <1>0, <1>1, <1>2
<1>5. \A g \in Handles : heap'[g] # Freed =>
        g \in cache' \/ \E u \in Threads : pc'[u] = "insert" /\ node'[u] = g
    <2> SUFFICES ASSUME NEW g \in Handles, heap'[g] # Freed, g # h, g \notin cache
                 PROVE  \E u \in Threads : pc'[u] = "insert" /\ node'[u] = g
        BY <1>2, <1>4
    <2>1. PICK u \in Threads : pc[u] = "insert" /\ node[u] = g
        BY <1>4 DEF OwnedInv, NodesAreOwned
    <2>2. u # t
        BY <1>2, <2>1
    <2> QED BY <1>4, <2>1, <2>2
<1>6. \A g \in cache : g \in Handles /\ g # h
    BY <1>0, <1>3
<1>7. NodesAreOwned'
    BY <1>2, <1>4, <1>5, <1>6 DEF OwnedInv, NodesAreOwned
<1>8. InsertsNewNode'
    BY <1>0, <1>2, <1>3, <1>4 DEF OwnedInv, InsertsNewNode
<1>9. InsertsAreTheirOwn'
    BY <1>3, <1>4 DEF OwnedInv, InsertsAreTheirOwn
<1> QED BY <1>2, <1>7, <1>8, <1>9 DEF OwnedInv

\* The cache takes the node over and frees at most the one that makes place.
LEMMA OwnedSet ==
    ASSUME TypeInv, OwnedInv, NEW t \in Threads, CacheSet(t)
    PROVE  OwnedInv'
<1>0. /\ pc \in [Threads -> States] /\ node \in [Threads -> Handles \cup {None}]
      /\ heap \in [Handles -> Blocks \cup {Freed}] /\ cache \subseteq Handles
      /\ block \in [Threads -> Blocks] /\ Freed \notin Blocks /\ None \notin Handles
      /\ \A u \in Threads : pc[u] = "insert" => node[u] \in Handles
    BY NamesAssumption DEF TypeInv, TypeOK, PointersOK
<1>1. PICK v \in Victims(t) :
        /\ cache' = (cache \ {v}) \cup {node[t]}
        /\ heap' = [h \in Handles |-> IF h = v THEN Freed ELSE heap[h]]
    BY DEF CacheSet
<1>2. /\ pc[t] = "insert" /\ pc' = [pc EXCEPT ![t] = "fetch"]
      /\ node' = [node EXCEPT ![t] = None] /\ UNCHANGED block
    BY DEF CacheSet
<1>3. /\ \A h \in cache : heap[h] = block[t] => h = v
      /\ v \in cache \/ (v = None /\ Cardinality(cache) < CacheSize)
    <2>1. \A g, h \in cache : heap[g] = heap[h] => g = h
        BY DEF OwnedInv, NodesAreOwned
    <2>2. CASE Cached(block[t]) # {}
        <3>1. v \in cache /\ heap[v] = block[t]
            BY <2>2 DEF Victims, Cached
        <3> QED BY <2>1, <3>1
    <2>3. CASE Cached(block[t]) = {}
        <3>1. \A h \in cache : heap[h] # block[t]
            BY <2>3 DEF Cached
        <3>2. v \in cache \/ (v = None /\ Cardinality(cache) < CacheSize)
            BY <2>3 DEF Victims
        <3> QED BY <3>1, <3>2
    <2> QED BY <2>2, <2>3
<1>4. /\ node[t] \in Handles /\ node[t] # v /\ node[t] \notin cache
      /\ heap[node[t]] = block[t]
    BY <1>0, <1>2, <1>3 DEF OwnedInv, InsertsNewNode
<1>5. /\ \A h \in Handles : h # v => heap'[h] = heap[h]
      /\ \A h \in Handles : heap'[h] # Freed => h # v
      /\ \A u \in Threads \ {t} : pc'[u] = pc[u] /\ node'[u] = node[u]
      /\ pc'[t] = "fetch"
    BY <1>0, <1>1, <1>2
<1>6. \A h \in Handles : heap'[h] # Freed =>
        h \in cache' \/ \E u \in Threads : pc'[u] = "insert" /\ node'[u] = h
    <2> SUFFICES ASSUME NEW h \in Handles, heap'[h] # Freed, h \notin cache'
                 PROVE  \E u \in Threads : pc'[u] = "insert" /\ node'[u] = h
        OBVIOUS
    <2>1. heap[h] # Freed /\ h \notin cache /\ h # node[t]
        BY <1>1, <1>5
    <2>2. PICK u \in Threads : pc[u] = "insert" /\ node[u] = h
        BY <2>1 DEF OwnedInv, NodesAreOwned
    <2> QED BY <1>5, <2>1, <2>2
<1>7. \A h \in cache' : /\ h \in Handles /\ heap'[h] = heap[h] /\ heap[h] # Freed
                        /\ h = node[t] \/ (h \in cache /\ h # v)
    BY <1>0, <1>1, <1>4, <1>5 DEF OwnedInv, NodesAreOwned
<1>8. \A g, h \in cache' : heap'[g] = heap'[h] => g = h
    <2>1. ASSUME NEW g \in cache', NEW h \in cache', heap'[g] = heap'[h] PROVE g = h
        BY <1>3, <1>4, <1>7, <2>1 DEF OwnedInv, NodesAreOwned
    <2> QED BY <2>1
<1>9. IsFiniteSet(cache') /\ Cardinality(cache') <= CacheSize
    <2>1. /\ IsFiniteSet(cache) /\ Cardinality(cache) <= CacheSize
          /\ Cardinality(cache) \in Nat /\ CacheSize \in Nat
        BY FS_CardinalityType, CacheAssumption DEF OwnedInv, NodesAreOwned
    <2>2. /\ IsFiniteSet(cache \ {v})
          /\ Cardinality(cache \ {v}) =
                IF v \in cache THEN Cardinality(cache) - 1 ELSE Cardinality(cache)
        BY <2>1, FS_RemoveElement
    <2>3. node[t] \notin cache \ {v}
        BY <1>4
    <2>4. /\ IsFiniteSet(cache')
          /\ Cardinality(cache') = Cardinality(cache \ {v}) + 1
        BY <1>1, <2>2, <2>3, FS_AddElement
    <2> QED BY <1>0, <1>3, <2>1, <2>2, <2>4
<1>10. NodesAreOwned'
    BY <1>6, <1>7, <1>8, <1>9 DEF NodesAreOwned
<1>11. InsertsNewNode'
    <2> SUFFICES ASSUME NEW u \in Threads, pc'[u] = "insert"
                 PROVE  heap'[node'[u]] = block'[u] /\ node'[u] \notin cache'
        BY DEF InsertsNewNode
    <2>1. u # t /\ pc[u] = "insert" /\ node'[u] = node[u]
        BY <1>5
    <2>2. /\ heap[node[u]] = block[u] /\ node[u] \notin cache /\ node[u] # node[t]
          /\ node[u] \in Handles
        BY <1>0, <1>2, <2>1 DEF OwnedInv, InsertsNewNode, InsertsAreTheirOwn
    <2>3. node[u] # v
        BY <1>0, <1>3, <2>2
    <2> QED BY <1>1, <1>2, <1>5, <2>1, <2>2, <2>3
<1>12. InsertsAreTheirOwn'
    BY <1>5 DEF OwnedInv, InsertsAreTheirOwn
<1> QED BY <1>9, <1>10, <1>11, <1>12 DEF OwnedInv

\* Every step keeps the ownership of nodes, with or without a lock.
LEMMA OwnedNext ==
    ASSUME TypeInv, OwnedInv, [Next]_vars
    PROVE  OwnedInv'
<1>0. /\ pc \in [Threads -> States] /\ node \in [Threads -> Handles \cup {None}]
      /\ block \in [Threads -> Blocks]
    BY DEF TypeInv, TypeOK
<1>1. CASE UNCHANGED vars
    BY <1>1 DEF vars, OwnedInv, NodesAreOwned, InsertsNewNode, InsertsAreTheirOwn
<1>2. ASSUME NEW t \in Threads, Start(t) PROVE OwnedInv'
    <2>1. /\ pc[t] # "insert" /\ UNCHANGED cacheVars
          /\ pc' = [pc EXCEPT ![t] = "lookup"]
          /\ \A u \in Threads \ {t} : node'[u] = node[u] /\ block'[u] = block[u]
        BY <1>0, <1>2 DEF Start
    <2> QED BY <2>1, OwnedFrame DEF States
<1>3. ASSUME NEW t \in Threads, Step(t), ~ReadNode(t), ~CacheSet(t) PROVE OwnedInv'
    <2>1. /\ pc[t] # "insert" /\ UNCHANGED cacheVars
          /\ \E w \in States \ {"insert"} : pc' = [pc EXCEPT ![t] = w]
        BY <1>3 DEF Step, CacheHit, CacheMiss, ReadFails, CacheGet, CacheGetFails,
                    SearchBranch, SearchLeaf, Describe, UseFreed, Return, States
    <2>2. \A u \in Threads \ {t} : node'[u] = node[u]
        BY <1>0, <1>3 DEF Step, CacheHit, CacheMiss, ReadFails, CacheGet,
                    CacheGetFails, SearchBranch, SearchLeaf, Describe, UseFreed, Return
    <2>3. \A u \in Threads \ {t} : block'[u] = block[u]
        BY <1>0, <1>3 DEF Step, CacheHit, CacheMiss, ReadFails, CacheGet,
                    CacheGetFails, SearchBranch, SearchLeaf, Describe, UseFreed
    <2> QED BY <2>1, <2>2, <2>3, OwnedFrame
<1> QED BY <1>1, <1>2, <1>3, OwnedRead, OwnedSet DEF Next

\* The node cache leaks no node, keeps one node a block and stays within its
\* size, with any number of threads that share it without a lock: what goes
\* wrong without one is only that a thread uses what another has freed.
THEOREM NodesStayOwned == Spec => []NodesAreOwned
<1>1. Init => OwnedInv
    <2> SUFFICES ASSUME Init PROVE OwnedInv
        OBVIOUS
    <2>1. /\ \A h \in Handles : heap[h] = Freed
          /\ cache = {} /\ \A t \in Threads : pc[t] = "idle"
        BY DEF Init
    <2>2. IsFiniteSet(cache) /\ Cardinality(cache) = 0
        BY <2>1, FS_EmptySet
    <2>3. Cardinality(cache) <= CacheSize
        BY <2>2, CacheAssumption
    <2> QED BY <2>1, <2>2, <2>3
            DEF OwnedInv, NodesAreOwned, InsertsNewNode, InsertsAreTheirOwn
<1>2. TypeInv /\ OwnedInv /\ [Next]_vars => OwnedInv'
    BY OwnedNext
<1>3. OwnedInv => NodesAreOwned
    BY DEF OwnedInv
<1> QED BY <1>1, <1>2, <1>3, TypeInvInit, TypeInvNext, PTL DEF Spec
=============================================================================
