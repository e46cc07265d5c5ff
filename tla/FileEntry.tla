----------------------------- MODULE FileEntry -----------------------------
(***************************************************************************)
(* A file entry and an extended attribute of it (libfsapfs_file_entry.c,   *)
(* libfsapfs_extended_attribute.c, libfsapfs_attribute_values.c,           *)
(* libfsapfs_file_system.c and the getters of libfsapfs_inode.c).          *)
(*                                                                         *)
(* An entry is made from an inode and, when it was found by name or index, *)
(* a directory record.  Everything else is read from the file system       *)
(* B-tree when it is first asked for and kept: the extended attributes     *)
(* with pointers to three special ones, the directory entries, the file    *)
(* extents, the compressed data header, the size, the symbolic link data   *)
(* and the data stream.  Any of these reads may fail, at any call, and the *)
(* next call starts from what the failed one left behind.                  *)
(*                                                                         *)
(* A call holds the entry's lock from its first to its last access, so it  *)
(* is one step.  The application works with one entry at a time and frees  *)
(* an extended attribute before the entry it is of.                        *)
(***************************************************************************)
EXTENDS FileEntryState

CONSTANTS
    Names,        \* names that are asked for
    MaxIndex      \* indexes that are asked for go up to this

vars == <<disk, entry, attribute, returned>>

NoEntry == [open |-> FALSE]
NoAttribute == [open |-> FALSE]

file_entry_initialize(id, record) ==
    [open |-> TRUE, id |-> id, record |-> record, attributes |-> None,
     compressed |-> 0, resource |-> 0, symlink |-> 0, header |-> None,
     link |-> None, directory |-> None, size |-> Unknown, extents |-> None,
     stream |-> None]

\* bad is what cannot be read during a call.
Readable == {"inode", "attributes", "records", "extents", "data"}
Faults == {{}} \cup {{r} : r \in Readable}

inode == disk[entry.id].inode

----------------------------------------------------------------------------
(* Calls.  Reply ends a call with its result and value; x is the entry as  *)
(* the call leaves it.                                                     *)

Reply(op, arg, bad, result, value) ==
    returned' = [op |-> op, arg |-> arg, id |-> IF entry.open THEN entry.id ELSE 0,
               failed |-> bad # {}, result |-> result,
               value |-> IF result = 1 THEN value ELSE None]

Ready == returned = NothingReturned /\ entry.open

\* A value that the inode or the record has in memory.
Getter(op, result, value) ==
    /\ Ready
    /\ Reply(op, 0, {}, result, value)
    /\ UNCHANGED <<disk, entry, attribute>>

file_entry_get_identifier == Getter("identifier", 1, Some(entry.id))

file_entry_get_parent_identifier == Getter("parent", 1, Some(inode.parent))

file_entry_get_creation_time == Getter("creation", 1, Some(inode.creation))

file_entry_get_modification_time == Getter("modification", 1, Some(inode.modification))

file_entry_get_access_time == Getter("access", 1, Some(inode.access))

file_entry_get_inode_change_time == Getter("change", 1, Some(inode.change))

file_entry_get_owner_identifier == Getter("owner", 1, Some(inode.owner))

file_entry_get_group_identifier == Getter("group", 1, Some(inode.group))

file_entry_get_file_mode == Getter("mode", 1, Some(inode.mode))

file_entry_get_number_of_links == Getter("links", 1, Some(inode.links))

\* Only character and block devices have one.
inode_get_device_identifier == IF inode.mode = DEVICE THEN 1 ELSE 0

file_entry_get_device_identifier ==
    Getter("device identifier", inode_get_device_identifier, Some(inode.device))

\* Two layouts of the identifier are known: major 8 bits and minor 8, or major 8
\* bits, 16 of zero and minor 8.  Identifiers are modelled by their layout.
inode_get_device_number ==
    IF inode.mode = DEVICE /\ inode.device.layout \in {"8:8", "8:0:8"} THEN 1 ELSE 0

file_entry_get_device_number ==
    Getter("device number", inode_get_device_number,
           Some(<<inode.device.major, inode.device.minor>>))

\* Only an entry that was found through its directory has it.
file_entry_get_added_time ==
    Getter("added", IF entry.record.none THEN 0 ELSE 1,
           IF entry.record.none THEN None ELSE Some(entry.record.value.added))

\* The name is that of the directory record, if there is one.
NameOf(x) == IF x.record.none THEN disk[x.id].inode.name ELSE x.record.value.name

file_entry_get_utf8_name_size == Getter("name size", 1, Some(NameOf(entry)))

file_entry_get_utf8_name == Getter("name", 1, Some(NameOf(entry)))

file_entry_get_utf16_name_size == Getter("name size", 1, Some(NameOf(entry)))

file_entry_get_utf16_name == Getter("name", 1, Some(NameOf(entry)))

----------------------------------------------------------------------------
(* Values that are made when they are first asked for.  Each of these      *)
(* gives the result and the entry it leaves behind.                        *)

Failure(x) == [result |-> -1, entry |-> x]
Success(x) == [result |-> 1, entry |-> x]

\* The index of the last attribute before `stop` with the name, or what the
\* pointer was before.
Pointer(attributes, name, stop, before) ==
    LET I == {i \in 1 .. stop - 1 : attributes[i].name = name}
    IN  IF I = {} THEN before ELSE CHOOSE i \in I : \A j \in I : j <= i

\* Comparing the special names with one that is malformed fails; the array is
\* freed then, but not the pointers into it that were set before.
internal_file_entry_get_extended_attributes(x, bad) ==
    LET attributes == disk[x.id].attributes
        malformed == {i \in DOMAIN attributes : attributes[i].name = MALFORMED}
        stop == IF malformed = {} THEN Len(attributes) + 1
                ELSE CHOOSE i \in malformed : \A j \in malformed : i <= j
        y == [x EXCEPT !.compressed = Pointer(attributes, DECMPFS, stop, @),
                       !.resource = Pointer(attributes, RESOURCE_FORK, stop, @),
                       !.symlink = Pointer(attributes, SYMLINK, stop, @)]
    IN  IF "attributes" \in bad THEN Failure(x)
        ELSE IF malformed # {} THEN Failure(y)
        ELSE Success([y EXCEPT !.attributes = Some(attributes)])

WithAttributes(x, bad) ==
    IF x.attributes.none THEN internal_file_entry_get_extended_attributes(x, bad)
    ELSE Success(x)

\* What a pointer into an array that was freed leads to.
Freed == [name |-> "freed", flags |-> EMBEDDED, size |-> 16, extents |-> <<>>,
          value |-> [signature |-> "freed", method |-> 0, size |-> 0]]

\* The data stream of an attribute; index 0 is a pointer that is not set.  Without
\* either flag there is no stream and no error.
attributes_get_data_stream(x, index, bad) ==
    LET a == IF x.attributes.none THEN Freed ELSE x.attributes.value[index]
    IN  IF index = 0 THEN [result |-> -1]
        ELSE IF a.flags = DATA_STREAM
        THEN IF "extents" \in bad THEN [result |-> -1]
             ELSE [result |-> 1, stream |-> Some(a)]
        ELSE [result |-> 1, stream |-> IF a.flags = EMBEDDED THEN Some(a) ELSE None]

internal_file_entry_get_symbolic_link_data(x, bad) ==
    LET made == WithAttributes(x, bad)
        y == made.entry
        source == attributes_get_data_stream(y, y.symlink, bad)
    IN  IF made.result # 1 THEN Failure(y)
        ELSE IF y.symlink = 0 THEN Success(y)
        ELSE IF \/ y.attributes.value[y.symlink].size = 0
                \/ source.result # 1
                \/ source.stream.none
                \/ "data" \in bad
        THEN Failure([y EXCEPT !.link = None])
        ELSE Success([y EXCEPT !.link = Some(source.stream.value.value)])

internal_file_entry_get_directory_entries(x, bad) ==
    IF "records" \in bad THEN Failure([x EXCEPT !.directory = None])
    ELSE Success([x EXCEPT !.directory = Some(disk[x.id].records)])

internal_file_entry_get_file_extents(x, bad) ==
    IF "extents" \in bad \/ disk[x.id].damaged
    THEN Failure([x EXCEPT !.extents = None])
    ELSE Success([x EXCEPT !.extents = Some(disk[x.id].extents)])

\* Fault: a header of another signature is kept.
DataSizeKeepsHeader(x, bad) ==
    LET made == WithAttributes(x, bad)
        y == made.entry
        source == attributes_get_data_stream(y, y.compressed, bad)
        header == source.stream.value.value
        InodeSize == disk[x.id].inode.size
    IN  IF made.result # 1 THEN Failure(y)
        ELSE IF y.compressed = 0 THEN Success([y EXCEPT !.size = InodeSize])
        ELSE IF source.result # 1 \/ source.stream.none \/ "data" \in bad
                \/ source.stream.value.size < 16
        THEN Failure([y EXCEPT !.header = None])
        ELSE Success([y EXCEPT !.header = Some(header),
                               !.size = IF header.signature = "fpmc" THEN header.size
                                        ELSE InodeSize])

\* The size of a compressed file is in the header of its attribute, that of any
\* other file, also of one whose attribute has another signature, in its inode.
internal_file_entry_get_data_size(x, bad) ==
    LET made == WithAttributes(x, bad)
        y == made.entry
        source == attributes_get_data_stream(y, y.compressed, bad)
        header == source.stream.value.value
        InodeSize == disk[x.id].inode.size
    IN  IF made.result # 1 THEN Failure(y)
        ELSE IF y.compressed = 0 THEN Success([y EXCEPT !.size = InodeSize])
        ELSE IF source.result # 1 \/ source.stream.none \/ "data" \in bad
                \/ source.stream.value.size < 16
        THEN Failure([y EXCEPT !.header = None])
        ELSE IF header.signature = "fpmc"
        THEN Success([y EXCEPT !.header = Some(header), !.size = header.size])
        ELSE Success([y EXCEPT !.header = None, !.size = InodeSize])

WithSize(x, bad) ==
    IF x.size = Unknown THEN internal_file_entry_get_data_size(x, bad) ELSE Success(x)

\* A stream is [kind, of]: what it decompresses or which extents it reads.
CompressedDataStream(x, bad) ==
    LET method == x.header.value.method
        index == IF method \in ResourceForkMethods THEN x.resource ELSE x.compressed
        source == attributes_get_data_stream(x, index, bad)
    IN  IF method \notin Methods \/ source.result # 1 \/ source.stream.none
        THEN Failure([x EXCEPT !.stream = None])
        ELSE Success([x EXCEPT !.stream =
                 Some([kind |-> "compressed", of |-> source.stream.value])])

ExtentsDataStream(x, bad) ==
    LET made == IF x.extents.none THEN internal_file_entry_get_file_extents(x, bad)
                ELSE Success(x)
        y == made.entry
    IN  IF made.result # 1 THEN Failure([y EXCEPT !.stream = None])
        ELSE Success([y EXCEPT !.stream =
                 Some([kind |-> "extents", of |-> y.extents.value])])

internal_file_entry_get_data_stream(x, bad) ==
    LET made == WithSize(x, bad)
        y == made.entry
    IN  IF made.result # 1 THEN Failure([y EXCEPT !.stream = None])
        ELSE IF y.header.none THEN ExtentsDataStream(y, bad)
        ELSE CompressedDataStream(y, bad)

----------------------------------------------------------------------------
(* Calls that make values.                                                 *)

\* A call that needs a value: Make gives it, Then the result and value of the call.
Making(op, arg, Make(_, _), Then(_)) ==
    /\ Ready
    /\ \E bad \in Faults :
         LET made == Make(entry, bad)
             reply == IF made.result = 1 THEN Then(made.entry)
                      ELSE [result |-> -1, value |-> None]
         IN  /\ entry' = made.entry
             /\ Reply(op, arg, bad, reply.result, reply.value)
    /\ UNCHANGED <<disk, attribute>>

Value(v) == [result |-> 1, value |-> Some(v)]
NotThere == [result |-> 0, value |-> None]
Refused == [result |-> -1, value |-> None]

WithLink(x, bad) ==
    IF x.link.none THEN internal_file_entry_get_symbolic_link_data(x, bad) ELSE Success(x)
LinkOf(x) == IF x.link.none THEN NotThere ELSE Value(x.link.value)

file_entry_get_utf8_symbolic_link_target_size == Making("link", 0, WithLink, LinkOf)

file_entry_get_utf8_symbolic_link_target == Making("link", 0, WithLink, LinkOf)

file_entry_get_utf16_symbolic_link_target_size == Making("link", 0, WithLink, LinkOf)

file_entry_get_utf16_symbolic_link_target == Making("link", 0, WithLink, LinkOf)

file_entry_get_number_of_extended_attributes ==
    Making("attribute count", 0, WithAttributes,
           LAMBDA x : Value(Len(x.attributes.value)))

\* The attributes with the name: the first is taken.
ByName(attributes, name) ==
    LET I == {i \in DOMAIN attributes : attributes[i].name = name}
    IN  IF I = {} THEN 0 ELSE CHOOSE i \in I : \A j \in I : i <= j

\* Fault: a later attribute of the name is taken.
LastByName(x, name) ==
    LET I == {i \in DOMAIN x.attributes.value : x.attributes.value[i].name = name}
    IN  IF I = {} THEN 0 ELSE CHOOSE i \in I : \A j \in I : i >= j

internal_file_entry_get_attribute_values_by_utf8_name(x, name) ==
    ByName(x.attributes.value, name)

internal_file_entry_get_attribute_values_by_utf16_name(x, name) ==
    ByName(x.attributes.value, name)

file_entry_has_extended_attribute_by_utf8_name ==
    \E name \in Names : Making("has attribute", name, WithAttributes, LAMBDA x :
        IF internal_file_entry_get_attribute_values_by_utf8_name(x, name) = 0
        THEN NotThere ELSE Value(TRUE))

file_entry_has_extended_attribute_by_utf16_name ==
    \E name \in Names : Making("has attribute", name, WithAttributes, LAMBDA x :
        IF internal_file_entry_get_attribute_values_by_utf16_name(x, name) = 0
        THEN NotThere ELSE Value(TRUE))

\* An extended attribute refers to the values that the entry owns.
extended_attribute_initialize(index) == [open |-> TRUE, index |-> index, stream |-> None]

\* A call that makes an extended attribute, at the index that Pick gives.
MakingAttribute(op, arg, Pick(_), missing) ==
    /\ Ready /\ ~attribute.open
    /\ \E bad \in Faults :
         LET made == WithAttributes(entry, bad)
             index == Pick(made.entry)
         IN  /\ entry' = made.entry
             /\ IF made.result # 1
                THEN /\ Reply(op, arg, bad, -1, None)
                     /\ UNCHANGED attribute
                ELSE IF index = 0
                THEN /\ Reply(op, arg, bad, missing, None)
                     /\ UNCHANGED attribute
                ELSE /\ Reply(op, arg, bad, 1, Some(made.entry.attributes.value[index].name))
                     /\ attribute' = extended_attribute_initialize(index)
    /\ UNCHANGED disk

file_entry_get_extended_attribute_by_index ==
    \E i \in 0 .. MaxIndex :
        MakingAttribute("attribute by index", i,
            LAMBDA x : IF i + 1 \in DOMAIN x.attributes.value THEN i + 1 ELSE 0, -1)

file_entry_get_extended_attribute_by_utf8_name ==
    \E name \in Names :
        MakingAttribute("attribute by name", name,
            LAMBDA x : internal_file_entry_get_attribute_values_by_utf8_name(x, name), 0)

file_entry_get_extended_attribute_by_utf16_name ==
    \E name \in Names :
        MakingAttribute("attribute by name", name,
            LAMBDA x : internal_file_entry_get_attribute_values_by_utf16_name(x, name), 0)

WithDirectory(x, bad) ==
    IF x.directory.none THEN internal_file_entry_get_directory_entries(x, bad)
    ELSE Success(x)

file_entry_get_number_of_sub_file_entries ==
    Making("sub entry count", 0, WithDirectory, LAMBDA x : Value(Len(x.directory.value)))

WithExtents(x, bad) ==
    IF x.extents.none THEN internal_file_entry_get_file_extents(x, bad) ELSE Success(x)

file_entry_get_number_of_extents ==
    Making("extent count", 0, WithExtents, LAMBDA x : Value(Len(x.extents.value)))

file_entry_get_extent_by_index ==
    \E i \in 0 .. MaxIndex :
        Making("extent by index", i, WithExtents, LAMBDA x :
            IF i + 1 \in DOMAIN x.extents.value THEN Value(x.extents.value[i + 1])
            ELSE Refused)

\* Fault: the compressed data header is not looked at.
GetInodeSize == Making("size", 0, WithAttributes, LAMBDA x : Value(disk[x.id].inode.size))

file_entry_get_size == Making("size", 0, WithSize, LAMBDA x : Value(x.size))

WithStream(x, bad) ==
    IF x.stream.none THEN internal_file_entry_get_data_stream(x, bad) ELSE Success(x)
StreamOf(x) == Value(x.stream.value)

file_entry_read_buffer == Making("read", 0, WithStream, StreamOf)

file_entry_read_buffer_at_offset == Making("read", 0, WithStream, StreamOf)

file_entry_seek_offset == Making("seek", 0, WithStream, StreamOf)

file_entry_get_offset == Making("offset", 0, WithStream, StreamOf)

----------------------------------------------------------------------------
(* Calls that make another entry, which takes the place of this one: the   *)
(* application frees the old one, or the new one (KeepEntry).              *)

NewEntry(op, arg, bad, id, record) ==
    IF "inode" \in bad \/ id \notin DOMAIN disk
    THEN Reply(op, arg, bad, -1, None)
    ELSE Reply(op, arg, bad, 1, Some(file_entry_initialize(id, record)))

\* The entries of the volume and its root directory have no parent.
file_entry_get_parent_file_entry ==
    /\ Ready
    /\ \E bad \in Faults :
         IF entry.id <= 2 THEN Reply("parent entry", 0, {}, 0, None)
         ELSE NewEntry("parent entry", 0, bad, inode.parent, None)
    /\ UNCHANGED <<disk, entry, attribute>>

\* The entry gets a copy of the directory record.
file_entry_get_sub_file_entry_by_index ==
    /\ Ready
    /\ \E i \in 0 .. MaxIndex, bad \in Faults :
         LET made == WithDirectory(entry, bad)
             records == made.entry.directory.value
         IN  /\ entry' = made.entry
             /\ IF made.result # 1 \/ i + 1 \notin DOMAIN records
                THEN Reply("sub entry by index", i, bad, -1, None)
                ELSE NewEntry("sub entry by index", i, bad, records[i + 1].id,
                              Some(records[i + 1]))
    /\ UNCHANGED <<disk, attribute>>

\* The record of a name below a directory (FileSystemBTree).
RecordOf(id, name) ==
    LET records == disk[id].records
        I == {i \in DOMAIN records : records[i].name = name}
    IN  IF I = {} THEN None ELSE Some(records[CHOOSE i \in I : TRUE])

\* Finds an entry by the path that is one name.
EntryByName(op, id, name, bad) ==
    LET record == RecordOf(id, name)
    IN  IF "records" \in bad THEN Reply(op, name, bad, -1, None)
        ELSE IF record.none THEN Reply(op, name, bad, 0, None)
        ELSE NewEntry(op, name, bad, record.value.id, record)

file_entry_get_sub_file_entry_by_utf8_name ==
    /\ Ready
    /\ \E name \in Names, bad \in Faults :
         EntryByName("sub entry by name", entry.id, name, bad)
    /\ UNCHANGED <<disk, entry, attribute>>

file_entry_get_sub_file_entry_by_utf16_name ==
    /\ Ready
    /\ \E name \in Names, bad \in Faults :
         EntryByName("sub entry by name", entry.id, name, bad)
    /\ UNCHANGED <<disk, entry, attribute>>

\* The file system gives out the first entry.
file_system_get_file_entry_by_identifier ==
    /\ returned = NothingReturned /\ ~entry.open
    /\ \E id \in DOMAIN disk \cup {0}, bad \in Faults :
         IF "inode" \in bad THEN Reply("entry by identifier", id, bad, -1, None)
         ELSE IF id \notin DOMAIN disk THEN Reply("entry by identifier", id, bad, 0, None)
         ELSE NewEntry("entry by identifier", id, bad, id, None)
    /\ UNCHANGED <<disk, entry, attribute>>

file_system_get_file_entry_by_utf8_path ==
    /\ returned = NothingReturned /\ ~entry.open
    /\ \E name \in Names, bad \in Faults : EntryByName("entry by path", 2, name, bad)
    /\ UNCHANGED <<disk, entry, attribute>>

file_system_get_file_entry_by_utf16_path ==
    /\ returned = NothingReturned /\ ~entry.open
    /\ \E name \in Names, bad \in Faults : EntryByName("entry by path", 2, name, bad)
    /\ UNCHANGED <<disk, entry, attribute>>

----------------------------------------------------------------------------
(* The extended attribute.  Its values stay those of the entry.            *)

ReadyAttribute == Ready /\ attribute.open

AttributeValues == entry.attributes.value[attribute.index]

AttributeGetter(op, value) ==
    /\ ReadyAttribute
    /\ Reply(op, attribute.index, {}, 1, Some(value))
    /\ UNCHANGED <<disk, entry, attribute>>

\* The identifier is that of the handle, which nothing sets.
extended_attribute_get_identifier == AttributeGetter("attribute identifier", 0)

extended_attribute_get_utf8_name_size == AttributeGetter("attribute name", AttributeValues.name)

extended_attribute_get_utf8_name == AttributeGetter("attribute name", AttributeValues.name)

extended_attribute_get_utf16_name_size == AttributeGetter("attribute name", AttributeValues.name)

extended_attribute_get_utf16_name == AttributeGetter("attribute name", AttributeValues.name)

extended_attribute_get_size == AttributeGetter("attribute size", AttributeValues.size)

internal_extended_attribute_get_data_stream(bad) ==
    IF attribute.stream.none THEN attributes_get_data_stream(entry, attribute.index, bad)
    ELSE [result |-> 1, stream |-> attribute.stream]

\* A call that needs the stream; Then gives its reply.
Streaming(op, arg, Then(_)) ==
    /\ ReadyAttribute
    /\ \E bad \in Faults :
         LET made == internal_extended_attribute_get_data_stream(bad)
             reply == IF made.result = 1 THEN Then(made.stream) ELSE Refused
         IN  /\ attribute' = [attribute EXCEPT !.stream =
                     IF made.result = 1 THEN made.stream ELSE None]
             /\ Reply(op, arg, bad, reply.result, reply.value)
    /\ UNCHANGED <<disk, entry>>

\* Without a stream nothing is read, which is no error.
StreamIfAny(stream) == Value(stream)

extended_attribute_read_buffer == Streaming("attribute read", attribute.index, StreamIfAny)

extended_attribute_read_buffer_at_offset ==
    Streaming("attribute read", attribute.index, StreamIfAny)

extended_attribute_seek_offset == Streaming("attribute seek", attribute.index, StreamIfAny)

extended_attribute_get_offset == Streaming("attribute offset", attribute.index, StreamIfAny)

ExtentsOf(a) == IF a.flags = DATA_STREAM THEN a.extents ELSE <<>>

extended_attribute_get_number_of_extents ==
    Streaming("attribute extent count", attribute.index,
              LAMBDA stream : Value(Len(ExtentsOf(AttributeValues))))

extended_attribute_get_extent_by_index ==
    \E i \in 0 .. MaxIndex :
        Streaming("attribute extent by index", <<attribute.index, i>>, LAMBDA stream :
            IF i + 1 \in DOMAIN ExtentsOf(AttributeValues)
            THEN Value(ExtentsOf(AttributeValues)[i + 1]) ELSE Refused)

extended_attribute_free ==
    /\ ReadyAttribute
    /\ attribute' = NoAttribute
    /\ UNCHANGED <<disk, entry, returned>>

----------------------------------------------------------------------------
(* The application.                                                        *)

file_entry_free ==
    /\ Ready /\ ~attribute.open
    /\ entry' = NoEntry
    /\ UNCHANGED <<disk, attribute, returned>>

EntryCalls == {"parent entry", "sub entry by index", "sub entry by name",
               "entry by identifier", "entry by path"}

\* Goes on with the entry that a call returned, and frees the one it had.
KeepEntry ==
    /\ returned.op \in EntryCalls /\ returned.result = 1 /\ ~attribute.open
    /\ entry' = returned.value.value
    /\ returned' = NothingReturned
    /\ UNCHANGED <<disk, attribute>>

Return ==
    /\ returned # NothingReturned
    /\ returned' = NothingReturned
    /\ UNCHANGED <<disk, entry, attribute>>

Init ==
    /\ disk \in Disks
    /\ entry = NoEntry
    /\ attribute = NoAttribute
    /\ returned = NothingReturned

InMemory ==
    \/ file_entry_get_identifier
    \/ file_entry_get_parent_identifier
    \/ file_entry_get_creation_time
    \/ file_entry_get_modification_time
    \/ file_entry_get_access_time
    \/ file_entry_get_inode_change_time
    \/ file_entry_get_added_time
    \/ file_entry_get_owner_identifier
    \/ file_entry_get_group_identifier
    \/ file_entry_get_device_identifier
    \/ file_entry_get_device_number
    \/ file_entry_get_file_mode
    \/ file_entry_get_number_of_links
    \/ file_entry_get_utf8_name_size
    \/ file_entry_get_utf8_name
    \/ file_entry_get_utf16_name_size
    \/ file_entry_get_utf16_name

Links ==
    \/ file_entry_get_utf8_symbolic_link_target_size
    \/ file_entry_get_utf8_symbolic_link_target
    \/ file_entry_get_utf16_symbolic_link_target_size
    \/ file_entry_get_utf16_symbolic_link_target

Attributes ==
    \/ file_entry_get_number_of_extended_attributes
    \/ file_entry_has_extended_attribute_by_utf8_name
    \/ file_entry_has_extended_attribute_by_utf16_name
    \/ file_entry_get_extended_attribute_by_index
    \/ file_entry_get_extended_attribute_by_utf8_name
    \/ file_entry_get_extended_attribute_by_utf16_name

Entries ==
    \/ file_entry_get_parent_file_entry
    \/ file_entry_get_number_of_sub_file_entries
    \/ file_entry_get_sub_file_entry_by_index
    \/ file_entry_get_sub_file_entry_by_utf8_name
    \/ file_entry_get_sub_file_entry_by_utf16_name
    \/ file_system_get_file_entry_by_identifier
    \/ file_system_get_file_entry_by_utf8_path
    \/ file_system_get_file_entry_by_utf16_path

Data ==
    \/ file_entry_get_size
    \/ file_entry_get_number_of_extents
    \/ file_entry_get_extent_by_index
    \/ file_entry_read_buffer
    \/ file_entry_read_buffer_at_offset
    \/ file_entry_seek_offset
    \/ file_entry_get_offset

OfAttribute ==
    \/ extended_attribute_get_identifier
    \/ extended_attribute_get_utf8_name_size
    \/ extended_attribute_get_utf8_name
    \/ extended_attribute_get_utf16_name_size
    \/ extended_attribute_get_utf16_name
    \/ extended_attribute_get_size
    \/ extended_attribute_read_buffer
    \/ extended_attribute_read_buffer_at_offset
    \/ extended_attribute_seek_offset
    \/ extended_attribute_get_offset
    \/ extended_attribute_get_number_of_extents
    \/ extended_attribute_get_extent_by_index
    \/ extended_attribute_free

Next ==
    \/ InMemory \/ Links \/ Attributes \/ Entries \/ Data \/ OfAttribute
    \/ file_entry_free
    \/ KeepEntry
    \/ Return

Spec == Init /\ [][Next]_vars

============================================================================
