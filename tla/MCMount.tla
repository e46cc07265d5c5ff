------------------------------ MODULE MCMount ------------------------------
(***************************************************************************)
(* Small containers for Mount: one or two volumes, locked or not, with     *)
(* names that have to be escaped, names that look as if they were, and one *)
(* with a separator: what it is shown as, turned back, is the path of a    *)
(* file in the directory next to it.                                       *)
(***************************************************************************)
EXTENDS Mount

Node(name, parent, kind, size, attr, target) ==
    [name |-> name, parent |-> parent, kind |-> kind, size |-> size,
     attributes |-> attr, target |-> target]

Xattr(name, size) == [name |-> name, size |-> size]

Tree == [id \in {2, 16, 17, 18, 19, 20, 21} |->
    CASE id = 2 -> Node(<<"a">>, 1, "directory", 0, <<>>, <<>>)
      [] id = 16 -> Node(<<"a", "\\">>, 2, "directory", 0, <<Xattr("p", 6)>>, <<>>)
      [] id = 17 -> Node(<<"\\", "x", "01">>, 16, "regular", 2,
                         <<Xattr("p", 1), Xattr("qq", 2)>>, <<>>)
      [] id = 21 -> Node(<<"a", "\\", "/", "ctl">>, 2, "regular", 1, <<>>, <<>>)
      [] id = 18 -> Node(<<"ctl">>, 16, "whiteout", 1, <<>>, <<>>)
      [] id = 19 -> Node(<<"odd", "\\", "U">>, 2, "link", 1, <<>>, <<"b">>)
      [] id = 20 -> Node(<<"x", "2f">>, 2, "block", 0, <<Xattr("qq", 0)>>, <<>>)]

Bare == [id \in {2} |-> Node(<<"a">>, 1, "directory", 0, <<>>, <<>>)]

Plain(e) == [password |-> "", entries |-> e]
Locked(e) == [password |-> "key", entries |-> e]

MCImages == {<<Locked(Tree)>>, <<Plain(Tree)>>, <<Plain(Bare), Locked(Bare)>>}
MCOptions == {[index |-> 0, password |-> "key"], [index |-> 2, password |-> "key"],
              [index |-> 1, password |-> "none"], [index |-> 2, password |-> "none"]}

\* Paths of the entries, and paths of none: an escape that is cut off, one that
\* stands for another character, a separator that is escaped, in a name and at the
\* end of one.
MCPaths == {
    <<"/">>,
    <<"/", "a", "\\", "\\">>,
    <<"/", "a", "\\", "\\", "/", "\\", "\\", "x", "01">>,
    <<"/", "\\", "U", "00002028", "\\", "\\", "U">>,
    <<"/", "a", "\\", "\\", "/", "\\", "x", "01">>,
    <<"/", "x", "2f">>,
    <<"/", "b">>,
    <<"/", "a", "\\">>,
    <<"/", "a", "\\", "x", "61">>,
    <<"/", "a", "\\", "\\", "\\", "x", "2f">>,
    <<"/", "a", "\\", "\\", "\\", "x", "2f", "\\", "x", "01">>}
============================================================================
