----------------------------- MODULE MCSnapshot -----------------------------
(***************************************************************************)
(* Small snapshot metadata trees for Snapshot: one to three leaves in up   *)
(* to three levels, records of other types among those of snapshots,       *)
(* damage to a record, a node and a superblock, trees that lead back to    *)
(* themselves and a root that the object map translates.                   *)
(***************************************************************************)
EXTENDS Integers, Sequences, FiniteSets

Meta(name, superblock) ==
    [type |-> "metadata", name |-> name, superblock |-> superblock, damaged |-> FALSE]
Other == [type |-> "name", name |-> "n", superblock |-> 0, damaged |-> FALSE]
Wrong == [Meta("w", 31) EXCEPT !.damaged = TRUE]
Child(oid) == [child |-> oid]
Node(kind, level, entries) == [kind |-> kind, level |-> level, entries |-> entries]

Content(n) == SubSeq(<<[name |-> "a", superblock |-> 30], [name |-> "b", superblock |-> 31],
                       [name |-> "c", superblock |-> 32]>>, 1, n)

\* Object 10 + b is at block b.
Map(blocks) == [oid \in {10 + b : b \in blocks} |-> oid - 10]

Disk(root, omap, nodes, content, cuts, damaged) ==
    [root |-> root, omap |-> omap, nodes |-> nodes, content |-> content, cuts |-> cuts,
     damaged |-> damaged,
     superblocks |-> [b \in 30 .. 32 |-> CASE b = 30 -> "a" [] b = 31 -> "b" [] b = 32 -> "c"]]

Single(entries, kind, content, damaged) ==
    Disk(1, Map({}), [b \in {1} |-> Node(kind, 0, entries)], content,
         <<<<0, Len(content)>>>>, damaged)

\* Two levels: the leaves are blocks 2 and 3; the first has all of its snapshots.
Two(first, second, kind, content, damaged) ==
    Disk(1, Map({2, 3}),
         [b \in 1 .. 3 |-> CASE b = 1 -> Node("root", 1, <<Child(12), Child(13)>>)
                             [] b = 2 -> Node("sub", 0, first)
                             [] b = 3 -> Node(kind, 0, second)], content,
         LET cut == Cardinality({i \in DOMAIN first : first[i].type = "metadata"})
         IN  <<<<0, cut, Len(content)>>, <<0, cut>>, <<cut, Len(content)>>>>, damaged)

\* Three levels, the first branch with two leaves.
Three(content) ==
    Disk(1, Map(2 .. 6),
         [b \in 1 .. 6 |-> CASE b = 1 -> Node("root", 2, <<Child(12), Child(13)>>)
                             [] b = 2 -> Node("sub", 1, <<Child(14), Child(15)>>)
                             [] b = 3 -> Node("sub", 1, <<Child(16)>>)
                             [] b = 4 -> Node("sub", 0, <<Meta("a", 30)>>)
                             [] b = 5 -> Node("sub", 0, <<Other, Meta("b", 31)>>)
                             [] b = 6 -> Node("sub", 0, <<Meta("c", 32), Other>>)],
         content, <<<<0, 2, 3>>, <<0, 1, 2>>, <<2, 3>>, <<0, 1>>, <<1, 2>>, <<2, 3>>>>, FALSE)

\* A branch that is its own sub node.
Loop ==
    Disk(1, Map({2}),
         [b \in 1 .. 2 |-> IF b = 1 THEN Node("root", 2, <<Child(12)>>)
                           ELSE Node("sub", 1, <<Child(12)>>)], <<>>, <<<<0, 0>>, <<0, 0>>>>, TRUE)

\* A root that is its own sub node.
RootLoop ==
    Disk(1, Map({1}), [b \in {1} |-> Node("root", 1, <<Child(11)>>)], <<>>, <<<<0, 0>>>>, TRUE)

\* The superblock of the second snapshot is not there.
Gone(d) == [d EXCEPT !.superblocks = [b \in {30} |-> @[b]]]

\* The root is object 11, which is at block 1.
TranslatedRoots == {
    Disk(11, Map({1}), [b \in {1} |-> Node("root", 0, <<Meta("a", 30)>>)], Content(1),
         <<<<0, 1>>>>, FALSE)}

MCVolumes == TranslatedRoots \cup {
    Disk(0, Map({}), [b \in {1} |-> Node("zero", 0, <<>>)], <<>>, <<<<0, 0>>>>, FALSE),
    Single(<<>>, "zero", <<>>, TRUE),
    Single(<<Meta("a", 30), Other, Meta("b", 31)>>, "root", Content(2), FALSE),
    Single(<<Meta("a", 30), Wrong>>, "root", Content(2), TRUE),
    Two(<<Meta("a", 30)>>, <<Meta("b", 31), Meta("c", 32)>>, "sub", Content(3), FALSE),
    Two(<<Meta("a", 30)>>, <<Wrong>>, "sub", Content(2), TRUE),
    Two(<<Meta("a", 30)>>, <<Meta("b", 31)>>, "zero", Content(2), TRUE),
    Three(Content(3)),
    Two(<<Meta("a", 30), Meta("b", 31)>>, <<Other>>, "sub", Content(2), FALSE),
    Two(<<Other>>, <<Meta("a", 30), Wrong>>, "root", Content(2), TRUE),
    Gone(Two(<<Meta("a", 30)>>, <<Meta("b", 31)>>, "sub", Content(2), FALSE)),
    Loop,
    RootLoop}

============================================================================
