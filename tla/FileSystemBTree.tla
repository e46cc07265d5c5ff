--------------------------- MODULE FileSystemBTree ---------------------------
(***************************************************************************)
(* Looking things up in the file system B-tree of a volume                 *)
(* (libfsapfs_file_system_btree.c, with the directory records and names it *)
(* compares).  The tree holds inodes, extended attributes, file extents    *)
(* and directory records under keys ordered by identifier, type and, for   *)
(* directory records, name hash and name.  A branch names its sub nodes by *)
(* object identifiers that the object map turns into block numbers.  Newer *)
(* sealed volumes store the identifier relative to that of the root node;  *)
(* which of the two a volume uses is not recorded anywhere: it is learned  *)
(* from the first sub node that is found and kept with the tree.           *)
(*                                                                         *)
(* A call of a thread takes a step for every node it reads and searches.   *)
(* Any read may fail.  The node cache only decides which reads are made,   *)
(* and so which can fail: every choice of failing reads is allowed.        *)
(***************************************************************************)
EXTENDS FileSystemKeys, Integers, Sequences, FiniteSets

CONSTANTS
    Threads,        \* threads that share the tree
    Volumes,        \* the volumes that may be on the disk
    Identifiers,    \* file system identifiers that are asked for
    Parents,        \* identifiers of directories that paths start from
    Paths,          \* paths and names that are asked for
    Utf8Size,       \* the bytes of a character in UTF-8
    Chars,          \* characters, as numbers: their code points in order
    Separator,      \* LIBFSAPFS_SEPARATOR
    Folded,         \* the case folding mapping
    Decomposed,     \* the NFD mapping: a character as a sequence of code points
    HashOf(_),      \* the CRC-32 of a sequence of code points, in 22 bits
    MaxIdentifier,  \* UINT64_MAX
    RecursionLimit  \* LIBFSAPFS_MAXIMUM_BTREE_NODE_RECURSION_DEPTH

\* LIBUNA_COMPARE_*
LESS == "less"
EQUAL == "equal"
GREATER == "greater"

\* The first index of s that satisfies Test, or 0.
FirstIndex(s, Test(_)) ==
    LET I == {i \in DOMAIN s : Test(s[i])}
    IN  IF I = {} THEN 0 ELSE CHOOSE i \in I : \A j \in I : i <= j

VARIABLES
    volume,    \* the volume on the disk
    encoding,  \* branch_child_oid_encoding
    call       \* the call every thread is in

vars == <<volume, encoding, call>>

----------------------------------------------------------------------------
(* Names.                                                                  *)

MapName(name, folding) ==
    [i \in DOMAIN name |->
        Decomposed[IF folding THEN Folded[name[i]] ELSE name[i]]]

\* Compares one decomposed character of the string with one of the name; a
\* character that decomposes into fewer code points sorts behind.
CompareCharacter(s, n) ==
    LET shared == 1 .. (IF Len(s) < Len(n) THEN Len(s) ELSE Len(n))
        i == FirstIndex([j \in shared |-> s[j] # n[j]], LAMBDA differs : differs)
    IN  IF i # 0 THEN IF s[i] < n[i] THEN LESS ELSE GREATER
        ELSE IF Len(s) < Len(n) THEN GREATER
        ELSE IF Len(s) > Len(n) THEN LESS
        ELSE EQUAL

name_compare_with_utf8_string(name, string, folding) ==
    LET n == MapName(name, folding)
        s == MapName(string, folding)
        shared == 1 .. (IF Len(s) < Len(n) THEN Len(s) ELSE Len(n))
        order == [j \in shared |-> CompareCharacter(s[j], n[j])]
        i == FirstIndex(order, LAMBDA c : c # EQUAL)
    IN  IF i # 0 THEN order[i]
        ELSE IF Len(s) > Len(n) THEN GREATER
        ELSE IF Len(s) < Len(n) THEN LESS
        ELSE EQUAL

name_compare_with_utf16_string(name, string, folding) ==
    name_compare_with_utf8_string(name, string, folding)

\* The code points of a name, one character after the other.
CodePoints(name, folding) ==
    LET mapped == MapName(name, folding)
        Upto[i \in 0 .. Len(name)] ==
            IF i = 0 THEN <<>> ELSE Upto[i - 1] \o mapped[i]
    IN  Upto[Len(name)]

name_hash_calculate_from_utf8_string(string, folding) ==
    HashOf(CodePoints(string, folding))

name_hash_calculate_from_utf16_string(string, folding) ==
    HashOf(CodePoints(string, folding))

\* Hashes decide when both sides have one: 0 stands for none.
CompareHashes(key, hash) ==
    IF key.hash = 0 \/ hash = 0 \/ hash = key.hash THEN EQUAL
    ELSE IF hash < key.hash THEN LESS ELSE GREATER

directory_record_compare_name_with_utf8_string(key, string, hash, folding) ==
    IF CompareHashes(key, hash) # EQUAL THEN CompareHashes(key, hash)
    ELSE name_compare_with_utf8_string(key.name, string, folding)

directory_record_compare_name_with_utf16_string(key, string, hash, folding) ==
    IF CompareHashes(key, hash) # EQUAL THEN CompareHashes(key, hash)
    ELSE name_compare_with_utf16_string(key.name, string, folding)

----------------------------------------------------------------------------
(* Nodes and records.  A node is [kind, level, entries]; an entry is       *)
(* [key, value, damaged] where the value of a branch entry is an object    *)
(* identifier and damaged is "none", "key" or "value".  `bad` is the set   *)
(* of blocks that cannot be read now.                                      *)

btree_node_is_leaf_node(node) == node.level = 0

directory_record_read_key_data(entry) == entry.damaged # "key"

directory_record_read_value_data(entry) == entry.damaged # "value"

attribute_values_read_data(entry) == entry.damaged = "none"

file_extent_read_data(entry) == entry.damaged = "none"

inode_read_data(entry) == entry.damaged = "none"

\* The checks of object type, subtype, flags and footer.
IsRootNode(node) == node.kind = "root"
IsEmptyBlock(node) == node.kind = "zero"
IsFileSystemSubNode(node) == node.kind = "sub"

\* A block that holds no sub node of a file system tree is an error.
get_sub_node(block, bad) ==
    LET node == volume.nodes[block]
    IN  IF block \in bad \/ ~IsFileSystemSubNode(node) THEN [result |-> -1]
        ELSE [result |-> 1, node |-> node]

\* A root block of zeros is a tree that is not there.
get_root_node(bad) ==
    LET node == volume.nodes[volume.root]
    IN  IF volume.root \in bad THEN [result |-> -1]
        ELSE IF IsEmptyBlock(node) THEN [result |-> 0]
        ELSE IF IsRootNode(node) THEN [result |-> 1, node |-> node]
        ELSE [result |-> -1]

\* The identifiers that an entry of a branch may stand for, in the order in
\* which they are tried.
Candidates(raw) ==
    LET relative == IF volume.rootOid = 0 THEN 0 ELSE volume.rootOid + raw
        asRelative == IF relative \in {0, raw} THEN <<>>
                      ELSE <<[oid |-> relative, encoding |-> RELATIVE_TO_ROOT_OID]>>
        asIs == <<[oid |-> raw, encoding |-> ABSOLUTE_OID]>>
    IN  IF encoding = RELATIVE_TO_ROOT_OID THEN asRelative \o asIs
        ELSE asIs \o asRelative

\* Fault: the level of the node a candidate leads to is not checked.
IsSubNodeOfAnyLevel(oid, level, bad) ==
    oid \in DOMAIN volume.omap /\ get_sub_node(volume.omap[oid], bad).result = 1

\* A candidate is taken when the object map has it and it leads to a node of
\* the level below; one that cannot be read is passed over.
IsSubNode(oid, level, bad) ==
    /\ oid \in DOMAIN volume.omap
    /\ LET sub == get_sub_node(volume.omap[oid], bad)
       IN  sub.result = 1 /\ sub.node.level = level

get_sub_node_block_number_from_entry(node, entry, bad) ==
    LET candidates == Candidates(entry.value)
        i == FirstIndex(candidates, LAMBDA c : IsSubNode(c.oid, node.level - 1, bad))
    IN  IF volume.rootOid # 0 /\ entry.value > MaxIdentifier - volume.rootOid
        THEN [result |-> -1, encoding |-> encoding]
        ELSE IF i = 0 THEN [result |-> 0, encoding |-> encoding]
        ELSE [result |-> 1, block |-> volume.omap[candidates[i].oid],
              encoding |-> IF encoding = UNKNOWN THEN candidates[i].encoding
                           ELSE encoding]

----------------------------------------------------------------------------
(* Searching one node.  What a search is after is [kind, id, string].  In  *)
(* a branch it selects the indexes of the entries to follow (<<0>> when    *)
(* there is none, which is an error), in a leaf it finds the entries it    *)
(* wants or comes across a damaged one.                                    *)

Found(items) == [ok |-> TRUE, items |-> items]
Damaged == [ok |-> FALSE, items |-> <<>>]

HasKey(entry, identifier, type) ==
    entry.key.id = identifier /\ entry.key.type = type

\* In a branch, the entry that leads to the key.
get_entry_from_node_by_identifier(node, identifier, type) ==
    LET entries == node.entries
        i == FirstIndex(entries, LAMBDA e : e.key.id >= identifier)
    IN  IF i = 0 THEN <<Len(entries)>>
        ELSE IF i = 1 \/ (entries[i].key.id = identifier /\ entries[i].key.type <= type)
        THEN <<i>>
        ELSE <<i - 1>>

\* In a leaf, the entry with the key.
get_entry_by_identifier(node, identifier, type) ==
    LET i == FirstIndex(node.entries, LAMBDA e : HasKey(e, identifier, type))
    IN  IF i = 0 THEN Found(<<>>)
        ELSE IF inode_read_data(node.entries[i]) THEN Found(<<node.entries[i]>>)
        ELSE Damaged

\* The last entry in front of the first that Stop holds of; 0 if there is none.
LastBefore(entries, Stop(_)) ==
    LET i == FirstIndex(entries, Stop)
    IN  IF i = 0 THEN Len(entries) ELSE i - 1

\* An entry of a branch behind every key with the identifier and type.
IsBeyond(entry, identifier, type) ==
    \/ entry.key.id > identifier
    \/ entry.key.id = identifier /\ entry.key.type > type

\* The first directory record of a leaf whose name is Equal to the wanted one.
FirstRecord(node, parent, Equal(_)) ==
    LET i == FirstIndex(node.entries, LAMBDA e :
                 /\ HasKey(e, parent, DIRECTORY_RECORD)
                 /\ directory_record_read_key_data(e) => Equal(e.key))
    IN  IF i = 0 THEN Found(<<>>)
        ELSE IF /\ directory_record_read_key_data(node.entries[i])
                /\ directory_record_read_value_data(node.entries[i])
        THEN Found(<<node.entries[i]>>)
        ELSE Damaged

\* The entry of a branch to follow to a name that is Less than those behind.
LastRecord(node, parent, Less(_)) ==
    LET i == LastBefore(node.entries, LAMBDA e :
                 \/ IsBeyond(e, parent, DIRECTORY_RECORD)
                 \/ /\ HasKey(e, parent, DIRECTORY_RECORD)
                    /\ directory_record_read_key_data(e) => Less(e.key))
    IN  IF /\ i < Len(node.entries)
           /\ HasKey(node.entries[i + 1], parent, DIRECTORY_RECORD)
           /\ ~directory_record_read_key_data(node.entries[i + 1])
        THEN <<0>>
        ELSE <<i>>

get_directory_record_from_leaf_node_by_utf8_name(node, parent, string) ==
    LET hash == name_hash_calculate_from_utf8_string(string, volume.folding)
    IN  FirstRecord(node, parent, LAMBDA key :
            directory_record_compare_name_with_utf8_string(
                key, string, hash, volume.folding) = EQUAL)

\* In a branch names are compared as they are spelled, whatever the volume.
get_directory_record_from_branch_node_by_utf8_name(node, parent, string) ==
    LET hash == name_hash_calculate_from_utf8_string(string, volume.folding)
    IN  LastRecord(node, parent, LAMBDA key :
            directory_record_compare_name_with_utf8_string(
                key, string, hash, FALSE) = LESS)

get_directory_record_from_leaf_node_by_utf16_name(node, parent, string) ==
    LET hash == name_hash_calculate_from_utf16_string(string, volume.folding)
    IN  FirstRecord(node, parent, LAMBDA key :
            directory_record_compare_name_with_utf16_string(
                key, string, hash, volume.folding) = EQUAL)

\* Fault: stops at an equal name too.
BranchStopsAtEqualName(node, parent, string) ==
    LET hash == name_hash_calculate_from_utf16_string(string, volume.folding)
    IN  LastRecord(node, parent, LAMBDA key :
            directory_record_compare_name_with_utf16_string(
                key, string, hash, FALSE) # GREATER)

get_directory_record_from_branch_node_by_utf16_name(node, parent, string) ==
    LET hash == name_hash_calculate_from_utf16_string(string, volume.folding)
    IN  LastRecord(node, parent, LAMBDA key :
            directory_record_compare_name_with_utf16_string(
                key, string, hash, FALSE) = LESS)

\* The entries of a leaf that are wanted, unless one of them is damaged.
Collect(node, identifier, Wanted(_), Read(_)) ==
    LET stop == LastBefore(node.entries, LAMBDA e : e.key.id > identifier)
        found == SelectSeq(SubSeq(node.entries, 1, stop), Wanted)
    IN  IF \E i \in DOMAIN found : ~Read(found[i]) THEN Damaged
        ELSE Found(found)

\* The entries of a branch to follow, in order: those in front of one that is
\* a boundary between two sub nodes with wanted keys, and the last.
Follow(node, identifier, lastType, Boundary(_)) ==
    LET stop == LastBefore(node.entries, LAMBDA e : IsBeyond(e, identifier, lastType))
        next(i) == node.entries[i + 1]
    IN  IF stop = 0 THEN <<0>>
        ELSE SelectSeq([i \in 1 .. stop |-> i],
                       LAMBDA i : i = stop \/ Boundary(next(i)))

get_directory_entries_from_leaf_node(node, identifier) ==
    Collect(node, identifier, LAMBDA e : HasKey(e, identifier, DIRECTORY_RECORD),
            LAMBDA e : directory_record_read_key_data(e)
                       /\ directory_record_read_value_data(e))

get_directory_entries_from_branch_node(node, identifier) ==
    Follow(node, identifier, DIRECTORY_RECORD,
           LAMBDA e : HasKey(e, identifier, DIRECTORY_RECORD))

get_attributes_from_leaf_node(node, identifier) ==
    Collect(node, identifier, LAMBDA e : HasKey(e, identifier, EXTENDED_ATTRIBUTE),
            attribute_values_read_data)

get_attributes_from_branch_node(node, identifier) ==
    Follow(node, identifier, EXTENDED_ATTRIBUTE,
           LAMBDA e : HasKey(e, identifier, EXTENDED_ATTRIBUTE))

IsFileExtent(entry, identifier) ==
    \/ HasKey(entry, identifier, FILE_EXTENT)
    \/ HasKey(entry, identifier, FILE_EXTENT2)

get_file_extents_from_leaf_node(node, identifier) ==
    Collect(node, identifier, LAMBDA e : IsFileExtent(e, identifier),
            file_extent_read_data)

\* Fault: stops at the first extent of the newer type.
BranchStopsAtNewExtents(node, identifier) ==
    Follow(node, identifier, FILE_EXTENT,
           LAMBDA e : IsFileExtent(e, identifier) /\ e.key.off > 0)

\* No extent comes before the one at logical address 0.
get_file_extents_from_branch_node(node, identifier) ==
    Follow(node, identifier, FILE_EXTENT2,
           LAMBDA e : IsFileExtent(e, identifier) /\ e.key.off > 0)

SearchBranch(node, want) ==
    CASE want.kind = "inode" ->
           get_entry_from_node_by_identifier(node, want.id, INODE)
      [] want.kind = "utf8 record" ->
           get_directory_record_from_branch_node_by_utf8_name(node, want.id, want.string)
      [] want.kind = "utf16 record" ->
           get_directory_record_from_branch_node_by_utf16_name(node, want.id, want.string)
      [] want.kind = "directory entries" ->
           get_directory_entries_from_branch_node(node, want.id)
      [] want.kind = "attributes" -> get_attributes_from_branch_node(node, want.id)
      [] want.kind = "extents" -> get_file_extents_from_branch_node(node, want.id)

SearchLeaf(node, want) ==
    CASE want.kind = "inode" -> get_entry_by_identifier(node, want.id, INODE)
      [] want.kind = "utf8 record" ->
           get_directory_record_from_leaf_node_by_utf8_name(node, want.id, want.string)
      [] want.kind = "utf16 record" ->
           get_directory_record_from_leaf_node_by_utf16_name(node, want.id, want.string)
      [] want.kind = "directory entries" ->
           get_directory_entries_from_leaf_node(node, want.id)
      [] want.kind = "attributes" -> get_attributes_from_leaf_node(node, want.id)
      [] want.kind = "extents" -> get_file_extents_from_leaf_node(node, want.id)

----------------------------------------------------------------------------
(* Paths.  A separator also stands for the end-of-string character.        *)

Utf8Length(string) ==
    LET Upto[i \in 0 .. Len(string)] ==
            IF i = 0 THEN 0 ELSE Upto[i - 1] + Utf8Size[string[i]]
    IN  Upto[Len(string)]

\* Ignores a leading separator and cuts the path at the others.
Segments(path) ==
    LET first == IF path[1] = Separator THEN 2 ELSE 1
        ends == {i \in first .. Len(path) : path[i] = Separator}
                \cup (IF path[Len(path)] = Separator THEN {} ELSE {Len(path) + 1})
        end(k) == IF k = 0 THEN first - 1
                  ELSE CHOOSE e \in ends : Cardinality({f \in ends : f < e}) = k - 1
    IN  [k \in 1 .. Cardinality(ends) |-> SubSeq(path, end(k - 1) + 1, end(k) - 1)]

----------------------------------------------------------------------------
(* Calls.                                                                  *)

Running == 2
NoSearch == [kind |-> "none", id |-> 0, string |-> <<>>]
NoCall == [op |-> "none", id |-> 0, string |-> <<>>, segments |-> <<>>,
           want |-> NoSearch, pc |-> "idle", node |-> 0, depth |-> 0,
           todo |-> <<>>, items |-> <<>>, failed |-> FALSE, result |-> 0]

Init ==
    /\ volume \in Volumes
    /\ encoding = UNKNOWN
    /\ call = [t \in Threads |-> NoCall]

Search(kind, id, string) == [kind |-> kind, id |-> id, string |-> string]

Begin(t, op, id, string, kind, segments) ==
    /\ call' = [call EXCEPT ![t] =
           [NoCall EXCEPT !.op = op, !.id = id, !.string = string,
                          !.segments = segments, !.want = Search(kind, id, string),
                          !.pc = "root", !.result = Running]]
    /\ UNCHANGED <<volume, encoding>>

get_inode_by_identifier(t) ==
    \E id \in Identifiers : Begin(t, "inode", id, <<>>, "inode", <<>>)

get_directory_entries(t) ==
    \E id \in Identifiers :
        Begin(t, "directory entries", id, <<>>, "directory entries", <<>>)

get_attributes(t) ==
    \E id \in Identifiers : Begin(t, "attributes", id, <<>>, "attributes", <<>>)

get_file_extents(t) ==
    \E id \in Identifiers : Begin(t, "extents", id, <<>>, "extents", <<>>)

\* The empty path, and any path of one byte, is the parent itself.
get_inode_by_utf8_path(t) ==
    \E id \in Parents, path \in Paths :
        IF Utf8Length(path) <= 1 THEN Begin(t, "utf8 path", id, path, "inode", <<>>)
        ELSE Begin(t, "utf8 path", id, path, "utf8 record", Segments(path))

get_inode_by_utf16_path(t) ==
    \E id \in Parents, path \in Paths :
        IF Len(path) <= 1 THEN Begin(t, "utf16 path", id, path, "inode", <<>>)
        ELSE Begin(t, "utf16 path", id, path, "utf16 record", Segments(path))

get_inode_by_utf8_name(t) ==
    \E id \in Parents, name \in Paths \ {<<>>} :
        Begin(t, "utf8 name", id, name, "utf8 record", <<name>>)

get_inode_by_utf16_name(t) ==
    \E id \in Parents, name \in Paths \ {<<>>} :
        Begin(t, "utf16 name", id, name, "utf16 record", <<name>>)

\* Nothing that was found is kept when the result is an error or "not found".
Ended(c, result, items) ==
    [NoCall EXCEPT !.op = c.op, !.id = c.id, !.string = c.string,
                   !.failed = c.failed, !.pc = "done", !.result = result,
                   !.items = IF result = 1 THEN items ELSE <<>>]

\* The next segment of the path in the directory that was found last, or the
\* inode once there is no other.
NextSegment(c, id, kind) ==
    IF c.segments = <<>>
    THEN [c EXCEPT !.want = Search("inode", id, <<>>), !.items = <<>>, !.pc = "root"]
    ELSE IF Head(c.segments) = <<>> THEN Ended(c, 0, <<>>)
    ELSE [c EXCEPT !.want = Search(kind, id, Head(c.segments)), !.items = <<>>,
                   !.segments = Tail(c.segments), !.pc = "node",
                   !.node = volume.root, !.depth = 0]

\* A found name is an error: the result of the look-up of its inode is
\* compared with 0.
SearchEnds(c) ==
    LET found == c.items # <<>>
    IN  IF c.want.kind \in {"utf8 record", "utf16 record"}
        THEN IF ~found THEN Ended(c, 0, <<>>)
             ELSE NextSegment(c, c.items[1].value, c.want.kind)
        ELSE CASE c.op \in {"utf8 name", "utf16 name"} -> Ended(c, -1, <<>>)
               [] c.op \in {"utf8 path", "utf16 path"} ->
                    Ended(c, IF found THEN 1 ELSE -1, c.items)
               [] OTHER -> Ended(c, IF found THEN 1 ELSE 0, c.items)

Fails(c) == Ended([c EXCEPT !.failed = TRUE], -1, <<>>)

ReadRootNode(t) ==
    /\ call[t].pc = "root"
    /\ \E bad \in SUBSET {volume.root} :
         LET c == call[t]
             root == get_root_node(bad)
         IN  call' = [call EXCEPT ![t] =
                CASE root.result = -1 -> Fails(c)
                  [] root.result = 0  -> Ended(c, 0, <<>>)
                  [] root.result = 1  ->
                       IF c.want.kind = "inode" \/ c.segments = <<>>
                       THEN [c EXCEPT !.pc = "node", !.node = volume.root, !.depth = 0]
                       ELSE NextSegment(c, c.id, c.want.kind)]
    /\ UNCHANGED <<volume, encoding>>

\* The look-up by identifier counts the leaf as a level, the others do not.
SearchNode(t) ==
    LET c == call[t]
        node == volume.nodes[c.node]
        leaf == btree_node_is_leaf_node(node)
        found == SearchLeaf(node, c.want)
        follow == SearchBranch(node, c.want)
        next == [j \in 1 .. Len(follow) |->
                    [node |-> c.node, index |-> follow[j], depth |-> c.depth + 1]]
    IN  /\ c.pc = "node"
        /\ call' = [call EXCEPT ![t] =
               IF c.depth > RecursionLimit /\ (~leaf \/ c.want.kind = "inode")
               THEN Ended(c, -1, <<>>)
               ELSE IF leaf /\ ~found.ok THEN Ended(c, -1, <<>>)
               ELSE IF leaf
               THEN [c EXCEPT !.items = c.items \o found.items, !.pc = "next"]
               ELSE IF follow = <<0>> THEN Ended(c, -1, <<>>)
               ELSE [c EXCEPT !.todo = next \o c.todo, !.pc = "next"]]
        /\ UNCHANGED <<volume, encoding>>

\* Goes down to the sub node that is next.
FollowEntry(t) ==
    LET c == call[t]
        at == Head(c.todo)
        node == volume.nodes[at.node]
        entry == node.entries[at.index]
        blocks == {volume.omap[oid] : oid \in DOMAIN volume.omap \cap
                      {x.oid : x \in {Candidates(entry.value)[i] :
                          i \in DOMAIN Candidates(entry.value)}}}
    IN  /\ c.pc = "next" /\ c.todo # <<>>
        /\ \E bad \in SUBSET blocks :
             LET number == get_sub_node_block_number_from_entry(node, entry, bad)
                 d == [c EXCEPT !.failed = c.failed \/ bad # {}]
             IN  /\ encoding' = number.encoding
                 /\ call' = [call EXCEPT ![t] =
                        IF number.result # 1 THEN Ended(d, -1, <<>>)
                        ELSE [d EXCEPT !.todo = Tail(c.todo), !.pc = "node",
                                       !.node = number.block, !.depth = at.depth]]
        /\ UNCHANGED volume

\* Looking the identifier up in the object map fails, or reading the sub node
\* once more for the search does.
FollowEntryFails(t) ==
    /\ call[t].pc = "next" /\ call[t].todo # <<>>
    /\ call' = [call EXCEPT ![t] = Fails(call[t])]
    /\ UNCHANGED <<volume, encoding>>

FinishSearch(t) ==
    /\ call[t].pc = "next" /\ call[t].todo = <<>>
    /\ call' = [call EXCEPT ![t] = SearchEnds(call[t])]
    /\ UNCHANGED <<volume, encoding>>

Return(t) ==
    /\ call[t].pc = "done"
    /\ call' = [call EXCEPT ![t] = NoCall]
    /\ UNCHANGED <<volume, encoding>>

Call(t) ==
    /\ call[t].pc = "idle"
    /\ \/ get_inode_by_identifier(t)
       \/ get_directory_entries(t)
       \/ get_attributes(t)
       \/ get_file_extents(t)
       \/ get_inode_by_utf8_path(t)
       \/ get_inode_by_utf16_path(t)
       \/ get_inode_by_utf8_name(t)
       \/ get_inode_by_utf16_name(t)

Step(t) ==
    \/ ReadRootNode(t)
    \/ SearchNode(t)
    \/ FollowEntry(t)
    \/ FollowEntryFails(t)
    \/ FinishSearch(t)
    \/ Return(t)

Next == \E t \in Threads : Call(t) \/ Step(t)

Spec == Init /\ [][Next]_vars

----------------------------------------------------------------------------
(* What the volume holds, whatever the shape of its tree: volume.content   *)
(* is the sequence of its records.                                         *)

Content == IF volume.nodes[volume.root].kind = "zero" THEN <<>> ELSE volume.content

Records(id, types) ==
    SelectSeq(Content, LAMBDA e : e.key.id = id /\ e.key.type \in types)

TypesOf(op) ==
    CASE op = "inode"             -> {INODE}
      [] op = "directory entries" -> {DIRECTORY_RECORD}
      [] op = "attributes"        -> {EXTENDED_ATTRIBUTE}
      [] op = "extents"           -> {FILE_EXTENT, FILE_EXTENT2}

Enumerations == {"inode", "directory entries", "attributes", "extents"}
PathCalls == {"utf8 path", "utf16 path"}

\* The identifier that the first n segments lead to, or 0.  Names are the same
\* when Same holds of them.
Resolve(id, segments, Same(_, _)) ==
    LET Upto[n \in 0 .. Len(segments)] ==
            IF n = 0 THEN id
            ELSE LET R == {i \in DOMAIN Content :
                             /\ HasKey(Content[i], Upto[n - 1], DIRECTORY_RECORD)
                             /\ Same(Content[i].key.name, segments[n])}
                 IN  IF R = {} THEN 0 ELSE Content[CHOOSE i \in R : TRUE].value
    IN  Upto[Len(segments)]

SameName(a, b) == CodePoints(a, volume.folding) = CodePoints(b, volume.folding)
SameSpelling(a, b) == a = b

\* The path as its names; the empty path and the separator alone have none.
SegmentsOf(c) ==
    IF c.string = <<>> \/ c.string = <<Separator>> THEN <<>> ELSE Segments(c.string)

\* A path of one byte or 16-bit unit.
IsOneUnit(c) == (IF c.op = "utf8 path" THEN Utf8Length(c.string) ELSE Len(c.string)) = 1

\* An error has a cause: a read that failed, a damaged record, a name whose
\* inode is missing or a tree that is too high.
MayFail(c) ==
    \/ c.failed
    \/ volume.damaged
    \/ volume.nodes[volume.root].level > RecursionLimit

\* What a look-up by identifier returns is what the volume holds, all of it, in
\* order and once, however the records are spread over the leaves and whatever
\* reads failed before; or it is an error, and then nothing is returned
\* (get_entry_by_identifier and the three enumerations).
LookupsAreExact ==
    \A t \in Threads :
        LET c == call[t]
            expected == Records(c.id, TypesOf(c.op))
        IN  c.op \in Enumerations /\ c.pc = "done" =>
                IF c.result = -1 THEN c.items = <<>> /\ MayFail(c)
                ELSE /\ c.items = expected
                     /\ c.result = (IF expected = <<>> THEN 0 ELSE 1)

\* A path leads to the file it names, and to none only when there is none: "Retrieves
\* the file entry for an UTF-8 encoded path. Returns 1 if successful, 0 if no such file
\* entry or -1 on error" (include/libfsapfs.h.in:508-509, of get_inode_by_utf8_path and
\* get_inode_by_utf16_path in the end).
PathsResolve ==
    \A t \in Threads :
        LET c == call[t]
            id == Resolve(c.id, SegmentsOf(c), SameName)
        IN  c.op \in PathCalls /\ c.pc = "done" =>
                CASE c.result = 1  -> c.items = Records(id, {INODE})
                  [] c.result = 0  -> id = 0 \/ Content = <<>>
                  [] c.result = -1 -> MayFail(c) \/ Records(id, {INODE}) = <<>>

\* Where a path leads, in UTF-8 as in UTF-16, however the records are spread over the
\* leaves and whatever fails on the way: to the file it names, the same one for every
\* spelling that the volume takes as that name, but for a path of one byte or 16-bit
\* unit, which leads to the directory it starts from.  Never to any other file; and
\* one that is there in the spelling asked for is always found.
PathsLeadNowhereElse ==
    \A t \in Threads :
        LET c == call[t]
            segments == IF IsOneUnit(c) THEN <<>> ELSE SegmentsOf(c)
            id == Resolve(c.id, segments, SameName)
        IN  c.op \in PathCalls /\ c.pc = "done" =>
                CASE c.result = 1  -> c.items = Records(id, {INODE})
                  [] c.result = 0  ->
                       \/ Resolve(c.id, segments, SameSpelling) = 0
                       \/ Content = <<>>
                  [] c.result = -1 -> MayFail(c) \/ Records(id, {INODE}) = <<>>

\* What is learned about the identifiers of sub nodes is true of the volume,
\* whatever reads failed and whatever the object map holds at the identifiers of
\* the other encoding, short of a node of the very level that is looked for:
\* the order of later candidates depends on it
\* (get_sub_node_block_number_from_entry).
EncodingIsRight ==
    encoding # UNKNOWN => encoding = volume.encoding

============================================================================
