-------------------------- MODULE MCObjectMapBTree --------------------------
(* Small object maps for TLC: every way to lay the keys of a content out over *)
(* one leaf, over leaves under a root, and over three levels; and maps that   *)
(* are not well formed.                                                       *)
EXTENDS ObjectMapBTree, SequencesExt

CONSTANTS t1, t2, h1, h2, h3, h4, h5

\* The keys of a content in order.
InOrder(content) ==
    SetToSortSeq(content, LAMBDA a, b : Beyond(b, a))

Damaged == [kind |-> "damaged", leaf |-> TRUE, entries |-> <<>>]

Leaf(kind, keys) ==
    [kind |-> kind, leaf |-> TRUE,
     entries |-> [i \in DOMAIN keys |-> [key |-> keys[i], child |-> 1]]]

\* A branch whose sub node i has the first key keys[i] and is children[i].
Branch(kind, keys, children) ==
    [kind |-> kind, leaf |-> FALSE,
     entries |-> [i \in DOMAIN keys |-> [key |-> keys[i], child |-> children[i]]]]

From(k) == {x \in Key : Leq(k, x)}
Below(k) == {x \in Key : Beyond(k, x)}

Nodes(f) == [b \in Blocks |-> IF b \in DOMAIN f THEN f[b] ELSE Damaged]
Spans(f) == [b \in Blocks |-> IF b \in DOMAIN f THEN f[b] ELSE {}]

OneLeaf(content) ==
    [root |-> 1, content |-> content, nodes |-> Nodes(<<Leaf("root", InOrder(content))>>),
     span |-> Spans(<<Key>>)]

\* Two leaves, the second from the c-th key on.
TwoLeaves(content, c) ==
    LET s == InOrder(content)
    IN  [root |-> 1, content |-> content,
         nodes |-> Nodes(<<Branch("root", <<s[1], s[c]>>, <<2, 3>>),
                           Leaf("sub", SubSeq(s, 1, c - 1)),
                           Leaf("sub", SubSeq(s, c, Len(s)))>>),
         span |-> Spans(<<Key, Below(s[c]), From(s[c])>>)]

\* Three levels: the root has the sub nodes 2 and 3, with two and one leaves.
ThreeLevels(content, c, d) ==
    LET s == InOrder(content)
    IN  [root |-> 1, content |-> content,
         nodes |-> Nodes(<<Branch("root", <<s[1], s[d]>>, <<2, 3>>),
                           Branch("sub", <<s[1], s[c]>>, <<4, 5>>),
                           Branch("sub", <<s[d]>>, <<6>>),
                           Leaf("sub", SubSeq(s, 1, c - 1)),
                           Leaf("sub", SubSeq(s, c, d - 1)),
                           Leaf("sub", SubSeq(s, d, Len(s)))>>),
         span |-> Spans(<<Key, Below(s[d]), From(s[d]), Below(s[c]),
                          From(s[c]) \cap Below(s[d]), From(s[d])>>)]

\* A branch that leads back to itself, an empty branch, a root that is not one.
Cycle == [TwoLeaves({<<1, 1>>, <<2, 1>>}, 2) EXCEPT
            !.nodes[2] = Branch("sub", <<<<1, 1>>>>, <<2>>)]
EmptyBranch == [Cycle EXCEPT !.nodes[2] = Branch("sub", <<>>, <<>>)]
NoRoot == [Cycle EXCEPT !.nodes[1] = Leaf("sub", <<>>)]

Contents == {c \in SUBSET ((1 .. 2) \X (1 .. 2)) : c # {}}

AllTrees ==
    {OneLeaf(c) : c \in Contents \cup {{}}}
    \cup UNION {{TwoLeaves(c, i) : i \in 2 .. Cardinality(c)} : c \in Contents}
    \cup UNION {{ThreeLevels(c, p[1], p[2]) :
                    p \in {q \in (2 .. 4) \X (3 .. 4) :
                              q[1] < q[2] /\ q[2] <= Cardinality(c)}}
                 : c \in Contents}
    \cup {Cycle, EmptyBranch, NoRoot}

OneTree == {TwoLeaves({<<1, 1>>, <<1, 2>>, <<2, 1>>}, 2)}
AllTargets == Key
FewTargets == {<<1, 2>>, <<2, 2>>}

\* The maps built above are well formed, except those that are meant not to be.
ASSUME \A m \in AllTrees \ {Cycle, EmptyBranch, NoRoot} : WellFormed(m)
=============================================================================
