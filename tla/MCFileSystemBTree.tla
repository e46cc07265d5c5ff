------------------------- MODULE MCFileSystemBTree -------------------------
(***************************************************************************)
(* Small volumes for FileSystemBTree: a root directory (2) with three or   *)
(* four names, a file with two attributes and three extents (3) and a      *)
(* directory (4), their records cut into leaves in many ways.              *)
(***************************************************************************)
EXTENDS FileSystemKeys, Integers, FiniteSets, SequencesExt

MaxLeaves == 3   \* leaves of a tree of two levels

\* The characters / A a b and one that decomposes into two code points.
MCChars == 1 .. 5
MCFolded == [c \in MCChars |-> IF c = 2 THEN 3 ELSE c]
MCDecomposed == [c \in MCChars |-> IF c = 5 THEN <<3, 6>> ELSE <<c>>]
MCUtf8Size == [c \in MCChars |-> IF c = 5 THEN 2 ELSE 1]
MCHashOf(codePoints) == 1 + (FoldFunction(LAMBDA x, y : x + y, 0, codePoints) % 4)

MCCodePoints(name, folding) ==
    FlattenSeq([i \in DOMAIN name |->
                   MCDecomposed[IF folding THEN MCFolded[name[i]] ELSE name[i]]])

MCIdentifiers == 2 .. 5
MCPaths == {<<>>, <<1>>, <<3>>, <<1, 3>>, <<1, 2>>, <<4, 3>>, <<5>>,
            <<1, 4, 1>>, <<1, 4, 1, 3>>, <<1, 4, 1, 1, 3>>, <<1, 4, 1, 4>>}

Entry(id, type, hash, name, off, value) ==
    [key |-> [id |-> id, type |-> type, hash |-> hash, name |-> name, off |-> off],
     value |-> value, damaged |-> "none"]
Inode(id) == Entry(id, INODE, 0, <<>>, 0, id)
Attribute(id, n) == Entry(id, EXTENDED_ATTRIBUTE, 0, <<n>>, 0, n)
Extent(id, type, off) == Entry(id, type, 0, <<>>, off, off)
Record(id, name, value, hashed, folding) ==
    Entry(id, DIRECTORY_RECORD,
          IF hashed THEN MCHashOf(MCCodePoints(name, folding)) ELSE 0, name, 0, value)

Sorted(S, Before(_, _)) ==
    [k \in 1 .. Cardinality(S) |->
        CHOOSE e \in S : Cardinality({f \in S : Before(f, e)}) = k - 1]

\* The order of names on the disk, by code points.
NameBefore(a, b) ==
    \E i \in 1 .. Len(b) :
        /\ \A j \in 1 .. i - 1 : j \in DOMAIN a /\ a[j] = b[j]
        /\ i > Len(a) \/ a[i] < b[i]
KeyBefore(e, f) ==
    LET order(x) == <<x.id, x.type, x.hash, x.off>>
        a == order(e.key)
        b == order(f.key)
    IN  IF a # b THEN NameBefore(a, b)
        ELSE NameBefore(e.key.name, f.key.name)

NamesIn(folding) ==
    {<<3>>, <<4, 3>>, <<4>>} \cup (IF folding THEN {<<5>>} ELSE {<<2>>, <<3, 4>>})
ContentOf(hashed, folding) ==
    LET records ==
            {Inode(2), Inode(3), Inode(4), Attribute(3, 1), Attribute(3, 2)}
            \cup {Extent(3, FILE_EXTENT, 0), Extent(3, FILE_EXTENT, 1),
                  Extent(3, FILE_EXTENT2, 2)}
            \cup {Record(2, n, IF n = <<4>> THEN 4 ELSE 3, hashed, folding) :
                    n \in NamesIn(folding)}
            \cup {Record(4, <<3>>, 3, hashed, folding),
                  Record(4, <<4>>, 5, hashed, folding)}
    IN  Sorted(records, KeyBefore)

\* Cuts a sequence in front of each of the positions.
Cut(s, positions) ==
    LET starts == Sorted({1} \cup positions, <)
    IN  [k \in 1 .. Len(starts) |->
            SubSeq(s, starts[k], IF k = Len(starts) THEN Len(s) ELSE starts[k + 1] - 1)]

RootOid == 10
MCMaxIdentifier == 50
Level(entries, level, kind) == [kind |-> kind, level |-> level, entries |-> entries]

\* Branch entries for the nodes: node n has raw identifier 20 + n, or n when
\* identifiers are relative.
Pointers(parts, first, relative) ==
    [k \in 1 .. Len(parts) |->
        [key |-> parts[k][1].key, damaged |-> "none",
         value |-> first + k - 1 + (IF relative THEN 0 ELSE 20)]]

\* Block 0 is the root, the others are numbered from 1; block 20 is what is left of
\* another tree, at the identifiers that the entries have in the other encoding.
Volume(content, hashed, folding, relative, subs, root, damaged) ==
    LET Real(n) == IF relative THEN RootOid + n ELSE 20 + n
        Other(n) == IF relative THEN n ELSE RootOid + 20 + n
        stray == Level(<<>>, 7, "sub")
        count == Len(subs)
    IN  [nodes |-> [b \in 0 .. count \cup {20} |->
                       IF b = 0 THEN root ELSE IF b = 20 THEN stray ELSE subs[b]],
         root |-> 0,
         rootOid |-> RootOid,
         omap |-> [oid \in {Real(n) : n \in 1 .. count} \cup {Other(n) : n \in 1 .. count} |->
                      IF \E n \in 1 .. count : oid = Real(n)
                      THEN CHOOSE n \in 1 .. count : oid = Real(n)
                      ELSE 20],
         encoding |-> IF relative THEN RELATIVE_TO_ROOT_OID ELSE ABSOLUTE_OID,
         content |-> content, folding |-> folding, damaged |-> damaged]

Leaves(parts) == [k \in 1 .. Len(parts) |-> Level(parts[k], 0, "sub")]

Flat(content, hashed, folding, relative, positions) ==
    LET parts == Cut(content, positions)
    IN  Volume(content, hashed, folding, relative, Leaves(parts),
               Level(Pointers(parts, 1, relative), 1, "root"), FALSE)

\* Four leaves under two branches.
Deep(content, hashed, folding, relative, positions) ==
    LET parts == Cut(content, positions)
        pointers == Pointers(parts, 1, relative)
        branches == Cut(pointers, {3})
    IN  Volume(content, hashed, folding, relative,
               Leaves(parts) \o [k \in 1 .. 2 |-> Level(branches[k], 1, "sub")],
               Level(Pointers(branches, Len(parts) + 1, relative), 2, "root"), FALSE)

\* Five levels, one node each.
Tall(content) ==
    LET Point(n) == Pointers(<<content>>, n, FALSE)
    IN  Volume(content, TRUE, FALSE, FALSE,
               <<Level(content, 0, "sub")>>
               \o [k \in 1 .. 3 |-> Level(Point(k), k, "sub")],
               Level(Point(4), 4, "root"), FALSE)

Damage(content, i, part) == [content EXCEPT ![i].damaged = part]

Formats == {<<FALSE, FALSE>>, <<TRUE, FALSE>>, <<TRUE, TRUE>>}
Single(content, folding, kind, damaged) ==
    Volume(content, TRUE, folding, FALSE, <<>>, Level(content, 0, kind), damaged)

CutsOf(content, n) == {P \in SUBSET (2 .. Len(content)) : Cardinality(P) \in n}

MCVolumes ==
    UNION {LET content == ContentOf(f[1], f[2])
           IN  {Flat(content, f[1], f[2], relative, P) :
                  P \in CutsOf(content, 1 .. MaxLeaves - 1), relative \in {FALSE}}
               \cup {Flat(content, f[1], f[2], TRUE, P) : P \in CutsOf(content, {1})}
               \cup {Deep(content, f[1], f[2], relative, {k, k + 2, k + 4}) :
                       k \in 2 .. Len(content) - 4, relative \in BOOLEAN}
           : f \in Formats}
    \cup {Tall(ContentOf(TRUE, FALSE))}
    \cup {Single(ContentOf(TRUE, TRUE), TRUE, kind, FALSE) : kind \in {"root", "zero"}}
    \cup {LET content == Damage(ContentOf(TRUE, FALSE), i, part)
          IN  [Flat(content, TRUE, FALSE, FALSE, {7}) EXCEPT !.damaged = TRUE]
          : i \in {2, 6, 11}, part \in {"key", "value"}}
    \cup {[Flat(ContentOf(TRUE, FALSE), TRUE, FALSE, FALSE, {7}) EXCEPT
             !.nodes[0].entries[2].value = MCMaxIdentifier - RootOid + 1,
             !.damaged = TRUE]}

============================================================================
