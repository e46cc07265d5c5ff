---------------------------- MODULE MCFileEntry ----------------------------
(***************************************************************************)
(* A directory (2) and one file in it (3) of many kinds: plain, compressed *)
(* in its attribute or in its resource fork, a link, a device, with an     *)
(* attribute whose extents are elsewhere, and damaged in several ways.     *)
(***************************************************************************)
EXTENDS FileEntryState

Inode(parent, mode, layout) ==
    [parent |-> parent, creation |-> 1, modification |-> 2, access |-> 3, change |-> 4,
     owner |-> 5, group |-> 6, mode |-> mode, links |-> 1,
     device |-> [layout |-> layout, major |-> 1, minor |-> 2], name |-> "n", size |-> 10]

Attr(name, flags, size, value) ==
    [name |-> name, flags |-> flags, size |-> size, value |-> value,
     extents |-> IF flags = DATA_STREAM THEN <<"e1">> ELSE <<>>]

Header(signature, method) == [signature |-> signature, method |-> method, size |-> 99]
Text(text) == Header(text, 0)

Short == Attr("x", EMBEDDED, 4, Text("X"))
Elsewhere == Attr("y", DATA_STREAM, 9, Text("Y"))
NoFlags == Attr("y", 0, 0, Text("Y"))
Malformed == Attr(MALFORMED, EMBEDDED, 4, Text("Z"))
Link(flags, size) == Attr(SYMLINK, flags, size, Text("target"))
Fork == Attr(RESOURCE_FORK, DATA_STREAM, 40, Text("fork"))
Compressed(flags, size, method) == Attr(DECMPFS, flags, size, Header("fpmc", method))
NotCompressed == Attr(DECMPFS, EMBEDDED, 16, Header("????", 3))

AttributeLists == {
    <<>>, <<Short, Elsewhere>>, <<NoFlags, Short>>,
    <<Compressed(EMBEDDED, 20, 3)>>, <<Compressed(EMBEDDED, 16, 4), Fork>>,
    <<Compressed(EMBEDDED, 16, 4), Attr(RESOURCE_FORK, 0, 0, Text("fork"))>>,
    <<Fork, Compressed(DATA_STREAM, 16, 8)>>, <<Compressed(EMBEDDED, 16, 8)>>,
    <<Compressed(EMBEDDED, 16, 99)>>, <<Compressed(EMBEDDED, 8, 3)>>,
    <<NotCompressed, Short>>, <<Link(EMBEDDED, 6)>>, <<Link(DATA_STREAM, 6), Short>>,
    <<Link(EMBEDDED, 0)>>, <<Link(0, 0)>>, <<Fork, Malformed, Short>>,
    <<Compressed(EMBEDDED, 16, 4), NotCompressed, Fork>>, <<Short, Short>>}

Record(name, id) == [name |-> name, id |-> id, added |-> 7]

Directory ==
    [inode |-> Inode(1, "directory", "none"), attributes |-> <<>>,
     records |-> <<Record("a", 3), Record("lost", 9)>>, extents |-> <<>>,
     damaged |-> FALSE]
File(mode, layout, attributes, damaged) ==
    [inode |-> Inode(2, mode, layout), attributes |-> attributes, records |-> <<>>,
     extents |-> <<"f1", "f2">>, damaged |-> damaged]
Disk(file) == [id \in {2, 3} |-> IF id = 2 THEN Directory ELSE file]

MCDisks ==
    {Disk(File("file", "none", attributes, FALSE)) : attributes \in AttributeLists}
    \cup {Disk(File(DEVICE, layout, <<>>, FALSE)) : layout \in {"8:8", "8:0:8", "other"}}
    \cup {Disk(File("file", "none", <<NotCompressed>>, TRUE))}

MCNames == {"a", "lost", "x", "y", DECMPFS, "missing"}
============================================================================
