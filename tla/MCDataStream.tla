---------------------------- MODULE MCDataStream ----------------------------
(***************************************************************************)
(* Small files for DataStream: embedded, in extents of a plain and of a    *)
(* sealed volume, preallocated beyond their size, sparse, and compressed.  *)
(***************************************************************************)
EXTENDS Integers, Sequences

E(logical, length, physical, crypto) ==
    [logical |-> logical, length |-> length, physical |-> physical, crypto |-> crypto,
     sealed |-> FALSE]
S(logical, length, crypto) == [E(logical, length, 0, crypto) EXCEPT !.sealed = TRUE]
T(logical, size, physical) == [logical |-> logical, size |-> size, physical |-> physical]
B(size) == [size |-> size, damaged |-> FALSE]
Bad == [B(2) EXCEPT !.damaged = TRUE]

File(source, size, sparse, extents, tree, wrong) ==
    [source |-> source, size |-> size, sparse |-> sparse, extents |-> extents, tree |-> tree,
     blocks |-> <<>>, method |-> "none", table |-> <<>>, stored |-> 0, wrong |-> wrong]
Packed(size, blocks, method, table, stored, wrong) ==
    [File("compressed", size, FALSE, <<>>, <<>>, wrong) EXCEPT
        !.blocks = blocks, !.method = method, !.table = table, !.stored = stored]

\* The crypto identifiers are not the block numbers.
Extents == <<E(0, 2, 10, 40), E(2, 1, 30, 60), E(3, 2, 20, 50)>>
\* An extent of a sealed volume is within one entry of its tree.
SealedExtents == <<S(0, 2, 0), S(2, 1, 5), S(3, 2, 7)>>
Tree == <<<<T(0, 3, 70)>>, <<T(3, 2, 90)>>>>

MCFiles ==
    {File("embedded", n, FALSE, <<>>, <<>>, FALSE) : n \in {1, 3}}
    \cup {File(source, 5, FALSE, Extents, <<>>, FALSE) : source \in {"entry", "attribute"}}
    \cup {File("entry", 4, FALSE, Extents, <<>>, FALSE),
          File("entry", 5, TRUE, <<E(0, 2, 10, 40), E(2, 1, 0, 0), E(3, 2, 20, 50)>>, <<>>, FALSE),
          File("entry", 2, FALSE, Extents, <<>>, TRUE),
          File("entry", 4, FALSE, <<>>, <<>>, FALSE),
          File("attribute", 2, FALSE, SubSeq(Extents, 1, 2), <<>>, FALSE),
          File("attribute", 2, FALSE, Extents, <<>>, TRUE),
          File("attribute", 1, FALSE, <<S(0, 2, 0), S(2, 3, 5)>>, Tree, FALSE),
          File("entry", 5, FALSE, <<E(2, 1, 10, 40), E(0, 2, 30, 60)>>, <<>>, TRUE)}
    \cup {File(source, 5, FALSE, SealedExtents, Tree, FALSE) : source \in {"entry", "attribute"}}
    \cup {File("entry", 4, FALSE, <<S(0, 2, 0), E(2, 2, 30, 60)>>, <<<<T(0, 1, 70)>>>>, FALSE),
          File("entry", 3, FALSE, <<S(0, 3, 0)>>, <<<<T(1, 2, 70)>>>>, TRUE),
          File("entry", 3, FALSE, <<S(0, 3, 0)>>, <<>>, TRUE)}
    \cup {Packed(5, <<B(2), B(2), B(1)>>, "table", <<3, 5, 6>>, 8, FALSE),
          Packed(2, <<B(2)>>, "inline", <<>>, 3, FALSE),
          Packed(2, <<B(2)>>, "inline", <<>>, 4, TRUE),
          Packed(5, <<B(2), B(2)>>, "table", <<3, 5>>, 8, TRUE),
          Packed(5, <<B(2), B(2), B(1)>>, "table", <<3, 5, 4>>, 8, TRUE),
          Packed(5, <<B(2), B(2), B(1)>>, "table", <<9, 9, 9>>, 9, TRUE),
          Packed(3, <<>>, "zeros", <<>>, 2, FALSE)}
    \* A block in the middle that is short or damaged, and a hole.
    \cup {Packed(5, <<B(2), B(1), B(1)>>, "table", <<3, 5, 6>>, 8, TRUE),
          Packed(5, <<B(2), Bad, B(1)>>, "table", <<3, 5, 6>>, 8, TRUE),
          File("entry", 5, TRUE, <<E(0, 1, 10, 40), E(3, 2, 20, 50)>>, <<>>, FALSE)}

============================================================================
