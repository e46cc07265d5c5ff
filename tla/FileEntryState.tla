--------------------------- MODULE FileEntryState ----------------------------
(* The files of a file system as file entries find them, the state of an    *)
(* entry, and what is to be true of what it keeps and returns.              *)
EXTENDS Integers, Sequences

CONSTANT Disks   \* the file systems: from an identifier to a file

\* A file is [inode, attributes, records, extents, damaged], the last when its
\* extents are not in order; an attribute is [name, flags, size, value, extents]
\* where a value is [signature, method, size]; a record is [name, id, added].

DATA_STREAM == 1   \* attribute flags: the value has extents; looked at first
EMBEDDED == 2      \* attribute flags: the value is in the record

Attribute == [name : STRING, flags : {0, DATA_STREAM, EMBEDDED}, size : Nat,
              value : [signature : STRING, method : Nat, size : Nat],
              extents : Seq(STRING)]

ASSUME AttributesAssumption ==
    \A files \in Disks : \A id \in DOMAIN files : files[id].attributes \in Seq(Attribute)

\* com.apple.decmpfs, com.apple.ResourceFork, com.apple.fs.symlink
DECMPFS == "decmpfs"
RESOURCE_FORK == "resource fork"
SYMLINK == "symlink"
MALFORMED == "malformed"     \* a name that is not UTF-8

DEVICE == "device"           \* file modes that matter

\* The compression methods that are known, and those of them whose data is in
\* the resource fork.
Methods == {3, 4, 5, 7, 8, 11, 12, 13, 14}
ResourceForkMethods == {4, 8, 12, 14}

Unknown == -1                \* (size64_t) -1
None == [none |-> TRUE]
Some(value) == [none |-> FALSE, value |-> value]

VARIABLES
    disk,       \* the file system
    entry,      \* the file entry, or NoEntry
    attribute,  \* the extended attribute, or NoAttribute
    returned    \* the call that was made and what it returned, or NothingReturned

NothingReturned == [op |-> "none"]

----------------------------------------------------------------------------
(* What the file system holds, read without a history.                     *)

\* The last attribute of a name, as a sequence of at most one.
LastNamed(id, name) ==
    LET attributes == disk[id].attributes
        I == {i \in DOMAIN attributes : attributes[i].name = name}
    IN  IF I = {} THEN <<>> ELSE <<attributes[CHOOSE i \in I : \A j \in I : j <= i]>>

HasMalformedName(id) ==
    \E i \in DOMAIN disk[id].attributes : disk[id].attributes[i].name = MALFORMED

HeaderOf(id) ==
    LET a == LastNamed(id, DECMPFS)
    IN  IF a # <<>> /\ a[1].value.signature = "fpmc" THEN Some(a[1].value) ELSE None

SizeOf(id) == IF HeaderOf(id).none THEN disk[id].inode.size ELSE HeaderOf(id).value.size

StreamIn(id) ==
    IF HeaderOf(id).none THEN [kind |-> "extents", of |-> disk[id].extents]
    ELSE [kind |-> "compressed",
          of |-> LastNamed(id, IF HeaderOf(id).value.method \in ResourceForkMethods
                               THEN RESOURCE_FORK ELSE DECMPFS)[1]]

\* Whatever calls failed before, a value that the entry keeps is the one the file
\* system holds, all of it: the size goes with the header it was read from, the
\* stream with both, the record with the inode (the on_error parts of the
\* internal_file_entry_get functions).
ValuesAreWhole ==
    entry.open =>
        LET id == entry.id
        IN  /\ entry.attributes.none \/ entry.attributes.value = disk[id].attributes
            /\ entry.link.none \/ entry.link.value = LastNamed(id, SYMLINK)[1].value
            /\ entry.directory.none \/ entry.directory.value = disk[id].records
            /\ entry.extents.none \/ entry.extents.value = disk[id].extents
            /\ entry.size # Unknown =>
                   entry.size = SizeOf(id) /\ entry.header = HeaderOf(id)
            /\ entry.stream.none \/ entry.stream.value = StreamIn(id)
            /\ entry.record.none \/ entry.record.value.id = id

\* The answer to a question about a file.
AnswerIn(op, id, arg) ==
    LET attributes == disk[id].attributes
        link == LastNamed(id, SYMLINK)
    IN  CASE op = "size" -> Some(SizeOf(id))
          [] op \in {"read", "seek", "offset"} -> Some(StreamIn(id))
          [] op = "link" -> IF link = <<>> THEN None ELSE Some(link[1].value)
          [] op = "attribute count" -> Some(Len(attributes))
          [] op = "attribute by name" ->
               IF \E i \in DOMAIN attributes : attributes[i].name = arg THEN Some(arg)
               ELSE None
          [] op = "sub entry count" -> Some(Len(disk[id].records))
          [] op = "extent count" -> Some(Len(disk[id].extents))
          [] op = "access" -> Some(disk[id].inode.access)

Questions == {"size", "read", "seek", "offset", "link", "attribute count",
              "attribute by name", "sub entry count", "extent count", "access"}

\* Calls on this file that may fail although nothing cannot be read.
HasDamage(id) ==
    \/ HasMalformedName(id)
    \/ disk[id].damaged
    \/ \E i \in DOMAIN disk[id].attributes :
         LET a == disk[id].attributes[i]
         IN  \/ a.name \in {DECMPFS, SYMLINK} /\ (a.flags = 0 \/ a.size = 0)
             \/ a.name = DECMPFS /\ a.size < 16
    \/ /\ ~HeaderOf(id).none
       /\ \/ HeaderOf(id).value.method \notin Methods
          \/ /\ HeaderOf(id).value.method \in ResourceForkMethods
             /\ \/ LastNamed(id, RESOURCE_FORK) = <<>>
                \/ LastNamed(id, RESOURCE_FORK)[1].flags = 0

\* What a call returns depends on the file system alone: not on the calls before
\* it, on those of them that failed, or on how the entry was found.  Two calls
\* with the same question never differ, and one that can be answered is.
AnswersDoNotDependOnHistory ==
    returned.op \in Questions =>
        LET expected == AnswerIn(returned.op, returned.id, returned.arg)
        IN  IF returned.result = -1 THEN returned.failed \/ HasDamage(returned.id)
            ELSE returned.value = expected /\ returned.result = (IF expected.none THEN 0 ELSE 1)

\* An attribute that was asked for by name or index is that attribute, the first
\* of its name, and what is read from it is its own data although the values
\* belong to the entry (extended_attribute_initialize keeps a reference).
AttributeIsTheOneAskedFor ==
    LET attributes == disk[entry.id].attributes
    IN  attribute.open =>
          /\ attribute.stream.none \/ attribute.stream.value = attributes[attribute.index]
          /\ returned # NothingReturned /\ returned.op = "attribute by index" =>
               attribute.index = returned.arg + 1
          /\ returned # NothingReturned /\ returned.op = "attribute by name" =>
               /\ attributes[attribute.index].name = returned.arg
               /\ \A i \in 1 .. attribute.index - 1 : attributes[i].name # returned.arg
=============================================================================
