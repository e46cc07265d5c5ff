-------------------------- MODULE FileEntryProofs --------------------------
(***************************************************************************)
(* Proofs about FileEntry, for every file system, names and indexes: what  *)
(* a file entry keeps is whole whatever failed before, its answers depend  *)
(* on the file system alone, and an extended attribute is the one that was *)
(* asked for.                                                              *)
(***************************************************************************)
EXTENDS FileEntry, WellFoundedInduction, TLAPS

-----------------------------------------------------------------------------
(***************************************************************************)
(* The invariant.                                                          *)
(***************************************************************************)

\* A pointer to an attribute, when the attributes of the file were collected.
LastIndex(id, name) ==
    Pointer(disk[id].attributes, name, Len(disk[id].attributes) + 1, 0)

\* What an entry keeps.
Fields == {"open", "id", "record", "attributes", "compressed", "resource", "symlink",
           "header", "link", "directory", "size", "extents", "stream"}

\* Every value that an entry keeps is that of its file system, or not there.
KeepsWhole(x) ==
    /\ DOMAIN x = Fields
    /\ x.open = TRUE
    /\ x.id \in DOMAIN disk
    /\ x.attributes \in {None, Some(disk[x.id].attributes)}
    /\ x.header \in {None, HeaderOf(x.id)}
    /\ x.link = None \/ x.link = Some(LastNamed(x.id, SYMLINK)[1].value)
    /\ x.directory \in {None, Some(disk[x.id].records)}
    /\ x.size \in {Unknown, SizeOf(x.id)}
    /\ x.extents \in {None, Some(disk[x.id].extents)}
    /\ x.stream = None \/ x.stream = Some(StreamIn(x.id))

RecordFits(x) == x.record.none \/ x.record.value.id = x.id

\* The pointers lead into the attributes: they are only set without attributes
\* when a name was malformed, and then there never are any.
PointersFit(x) ==
    /\ HasMalformedName(x.id) => x.attributes = None
    /\ ~HasMalformedName(x.id) /\ x.attributes = None =>
          x.compressed = 0 /\ x.resource = 0 /\ x.symlink = 0
    /\ x.attributes # None =>
          /\ x.compressed = LastIndex(x.id, DECMPFS)
          /\ x.resource = LastIndex(x.id, RESOURCE_FORK)
          /\ x.symlink = LastIndex(x.id, SYMLINK)

\* What is worked out from the attributes needs them, a link needs one of its own,
\* and the size comes with the header.
ValuesFit(x) ==
    /\ x.attributes = None =>
          x.header = None /\ x.link = None /\ x.size = Unknown /\ x.stream = None
    /\ x.link # None => LastNamed(x.id, SYMLINK) # <<>>
    /\ x.size # Unknown => x.header = HeaderOf(x.id)

Kept(x) == KeepsWhole(x) /\ RecordFits(x) /\ PointersFit(x) /\ ValuesFit(x)

\* An entry that a call makes anew.
Made(x) ==
    \E id \in DOMAIN disk : \E record :
        /\ x = file_entry_initialize(id, record)
        /\ record.none \/ record.value.id = id

\* An extended attribute refers to an attribute that its entry has collected.
AttributeKept ==
    /\ entry.open /\ ~entry.attributes.none
    /\ attribute \in [open : {TRUE}, index : DOMAIN disk[entry.id].attributes,
                      stream : {None, Some(disk[entry.id].attributes[attribute.index])}]

EntryFits == entry = NoEntry \/ Kept(entry)
AttributeFits == attribute = NoAttribute \/ AttributeKept
AnswerFits ==
    returned.op \in EntryCalls /\ returned.result = 1 =>
        ~returned.value.none /\ Made(returned.value.value)

Inv ==
    /\ disk \in Disks
    /\ EntryFits /\ AttributeFits /\ AnswerFits
    /\ AnswersDoNotDependOnHistory
    /\ AttributeIsTheOneAskedFor

-----------------------------------------------------------------------------
(***************************************************************************)
(* Values and pointers.                                                    *)
(***************************************************************************)

LEMMA Values ==
    /\ None.none = TRUE
    /\ \A v : Some(v).none = FALSE /\ Some(v).value = v /\ Some(v) # None
BY DEF None, Some

\* The attributes of a file are a sequence.
LEMMA AttributesAreSequences ==
    ASSUME disk \in Disks, NEW id \in DOMAIN disk
    PROVE  /\ Len(disk[id].attributes) \in Nat
           /\ DOMAIN disk[id].attributes = 1 .. Len(disk[id].attributes)
           /\ \A i \in DOMAIN disk[id].attributes : disk[id].attributes[i] \in Attribute
<1>1. disk[id].attributes \in Seq(Attribute)
    BY AttributesAssumption
<1> HIDE DEF Attribute
<1> QED BY <1>1

\* A set of numbers up to n has a greatest one.
LEMMA GreatestNumber ==
    ASSUME NEW n \in Nat, NEW I, I \subseteq 1 .. n, I # {}
    PROVE  \E i \in I : \A j \in I : j <= i
<1> DEFINE T == {n - i : i \in I}
           R == OpToRel(<, Nat)
<1>1. IsWellFoundedOn(R, Nat)
    BY NatLessThanWellFounded
<1> HIDE DEF R
<1>2. T \subseteq Nat /\ T # {}
    <2>1. \A i \in I : n - i \in Nat
        OBVIOUS
    <2> QED BY <2>1
<1>3. PICK k \in T : \A l \in T : ~(<<l, k>> \in R)
    BY <1>1, <1>2, WFMin
<1>4. PICK i \in I : k = n - i
    BY <1>3
<1>5. \A j \in I : j <= i
    <2> TAKE j \in I
    <2>1. ~(n - j < k)
        BY <1>2, <1>3 DEF R, OpToRel
    <2> QED BY <1>4, <2>1
<1> QED BY <1>5

\* A pointer that is set leads to the last attribute of its name, and one that is
\* not set means that there is none.
LEMMA PointerIsLast ==
    ASSUME disk \in Disks, NEW id \in DOMAIN disk, NEW name
    PROVE  LET attributes == disk[id].attributes
               index == LastIndex(id, name)
           IN  /\ index = 0 <=> LastNamed(id, name) = <<>>
               /\ index # 0 => /\ index \in DOMAIN attributes
                               /\ attributes[index].name = name
                               /\ LastNamed(id, name)[1] = attributes[index]
<1> DEFINE attributes == disk[id].attributes
           n == Len(attributes)
           I == {i \in DOMAIN attributes : attributes[i].name = name}
           last == CHOOSE i \in I : \A j \in I : j <= i
<1>1. n \in Nat /\ DOMAIN attributes = 1 .. n
    BY AttributesAreSequences
<1> DEFINE J == {i \in 1 .. (n + 1) - 1 : attributes[i].name = name}
<1>3. LastIndex(id, name) = IF I = {} THEN 0 ELSE last
    <2>1. LastIndex(id, name) =
            IF J = {} THEN 0 ELSE CHOOSE i \in J : \A j \in J : j <= i
        BY Zenon DEF LastIndex, Pointer
    <2>2. J = I
        BY <1>1
    <2> HIDE DEF I, J
    <2> QED BY Zenon, <2>1, <2>2
<1>4. LastNamed(id, name) = IF I = {} THEN <<>> ELSE <<attributes[last]>>
    BY DEF LastNamed
<1>5. CASE I = {}
    BY <1>3, <1>4, <1>5
<1>6. CASE I # {}
    <2>1. I \subseteq 1 .. n
        BY <1>1
    <2>2. \E i \in I : \A j \in I : j <= i
        BY <1>1, <1>6, <2>1, GreatestNumber
    <2>3. last \in I
        BY <2>2
    <2> HIDE DEF last
    <2>4. last # 0
        BY <2>1, <2>3
    <2> QED BY <1>3, <1>4, <1>6, <2>3, <2>4
<1> QED BY <1>5, <1>6

-----------------------------------------------------------------------------
(***************************************************************************)
(* Making values.                                                          *)
(***************************************************************************)

\* Making a value keeps the entry whole, also when it fails, and fails only when
\* something cannot be read or is damaged.
Makes(x, bad, made) ==
    /\ made.result \in {1, -1}
    /\ made.result = -1 => bad # {} \/ HasDamage(x.id)
    /\ Kept(made.entry)
    /\ made.entry.id = x.id
    /\ x.attributes # None => made.entry.attributes # None

LEMMA AttributesMade ==
    ASSUME disk \in Disks, NEW x, Kept(x), NEW bad
    PROVE  LET made == WithAttributes(x, bad)
           IN  /\ Makes(x, bad, made)
               /\ made.result = 1 => /\ made.entry.attributes = Some(disk[x.id].attributes)
                                     /\ ~HasMalformedName(x.id)
               /\ made.entry.size = x.size
<1> DEFINE made == WithAttributes(x, bad)
<1> SUFFICES /\ Makes(x, bad, made)
             /\ made.result = 1 => /\ made.entry.attributes = Some(disk[x.id].attributes)
                                   /\ ~HasMalformedName(x.id)
             /\ made.entry.size = x.size
    OBVIOUS
<1>0. /\ x.id \in DOMAIN disk
      /\ x.attributes \in {None, Some(disk[x.id].attributes)}
    BY DEF Kept, KeepsWhole
<1>1. CASE x.attributes # None
    <2>1. made = Success(x)
        BY <1>0, <1>1, Values DEF WithAttributes
    <2>2. made.result = 1 /\ made.entry = x
        BY <2>1 DEF Success
    <2>3. ~HasMalformedName(x.id)
        BY <1>1 DEF Kept, PointersFit
    <2> QED BY <1>0, <1>1, <2>2, <2>3 DEF Makes
<1>2. CASE x.attributes = None
    <2> DEFINE attributes == disk[x.id].attributes
               malformed == {i \in DOMAIN attributes : attributes[i].name = MALFORMED}
               stop == IF malformed = {} THEN Len(attributes) + 1
                       ELSE CHOOSE i \in malformed : \A j \in malformed : i <= j
               y == [x EXCEPT !.compressed = Pointer(attributes, DECMPFS, stop, @),
                              !.resource = Pointer(attributes, RESOURCE_FORK, stop, @),
                              !.symlink = Pointer(attributes, SYMLINK, stop, @)]
    <2>1. made = IF "attributes" \in bad THEN Failure(x)
                 ELSE IF malformed # {} THEN Failure(y)
                 ELSE Success([y EXCEPT !.attributes = Some(attributes)])
        BY <1>2, Values DEF WithAttributes, internal_file_entry_get_extended_attributes
    <2>2. malformed # {} <=> HasMalformedName(x.id)
        BY DEF HasMalformedName
    <2>3. malformed = {} => stop = Len(attributes) + 1
        OBVIOUS
    <2>4. \E i, j, k : y = [x EXCEPT !.compressed = i, !.resource = j, !.symlink = k]
        OBVIOUS
    <2>5. malformed = {} =>
            [y EXCEPT !.attributes = Some(attributes)] =
            [x EXCEPT !.compressed = Pointer(attributes, DECMPFS, Len(attributes) + 1, @),
                      !.resource = Pointer(attributes, RESOURCE_FORK, Len(attributes) + 1, @),
                      !.symlink = Pointer(attributes, SYMLINK, Len(attributes) + 1, @),
                      !.attributes = Some(attributes)]
        <3> HIDE DEF stop, malformed, attributes
        <3> QED BY <2>3 DEF Kept, KeepsWhole, Fields
    <2> HIDE DEF made, malformed, stop, y
    <2>6. CASE "attributes" \in bad
        <3>1. made.result = -1 /\ made.entry = x
            BY <2>1, <2>6 DEF Failure
        <3> QED BY <1>2, <2>6, <3>1 DEF Makes
    <2>7. CASE "attributes" \notin bad /\ malformed # {}
        <3>1. made.result = -1 /\ made.entry = y
            BY <2>1, <2>7 DEF Failure
        <3>2. PICK i, j, k : y = [x EXCEPT !.compressed = i, !.resource = j, !.symlink = k]
            BY <2>4
        <3>3. Kept(y)
            <4>1. /\ y.id = x.id /\ y.record = x.record /\ y.attributes = x.attributes
                  /\ y.header = x.header /\ y.link = x.link /\ y.size = x.size
                  /\ y.stream = x.stream
                BY <3>2 DEF Kept, KeepsWhole, Fields
            <4>2. KeepsWhole(y)
                BY <3>2 DEF Kept, KeepsWhole, Fields
            <4>3. RecordFits(y) /\ ValuesFit(y)
                BY <4>1 DEF Kept, RecordFits, ValuesFit
            <4>4. PointersFit(y)
                BY <4>1, <1>2, <2>2, <2>7 DEF PointersFit
            <4> QED BY <4>2, <4>3, <4>4 DEF Kept
        <3>4. y.id = x.id /\ y.size = x.size
            BY <3>2 DEF Kept, KeepsWhole, Fields
        <3>5. HasDamage(x.id)
            BY <2>2, <2>7 DEF HasDamage
        <3> QED BY <1>2, <3>1, <3>3, <3>4, <3>5 DEF Makes
    <2>8. CASE "attributes" \notin bad /\ malformed = {}
        <3> DEFINE z == [y EXCEPT !.attributes = Some(attributes)]
        <3>1. made.result = 1 /\ made.entry = z
            BY <2>1, <2>8 DEF Success
        <3>2. x.compressed = 0 /\ x.resource = 0 /\ x.symlink = 0
            BY <1>2, <2>2, <2>8 DEF Kept, PointersFit
        <3>3. z = [x EXCEPT !.compressed = LastIndex(x.id, DECMPFS),
                            !.resource = LastIndex(x.id, RESOURCE_FORK),
                            !.symlink = LastIndex(x.id, SYMLINK),
                            !.attributes = Some(attributes)]
            BY <2>8, <2>5, <3>2 DEF LastIndex, Kept, KeepsWhole, Fields
        <3> HIDE DEF z
        <3>4. Kept(z)
            <4>1. KeepsWhole(z)
                BY <3>3 DEF Kept, KeepsWhole, Fields
            <4>2. /\ z.id = x.id /\ z.record = x.record
                  /\ z.attributes = Some(attributes) /\ z.attributes # None
                  /\ z.header = x.header /\ z.link = x.link /\ z.size = x.size
                  /\ z.compressed = LastIndex(x.id, DECMPFS)
                  /\ z.resource = LastIndex(x.id, RESOURCE_FORK)
                  /\ z.symlink = LastIndex(x.id, SYMLINK)
                BY <3>3, Values DEF Kept, KeepsWhole, Fields
            <4>3. RecordFits(z) /\ ValuesFit(z)
                BY <4>2 DEF Kept, RecordFits, ValuesFit
            <4>4. PointersFit(z)
                BY <4>2, <2>2, <2>8 DEF PointersFit
            <4> QED BY <4>1, <4>3, <4>4 DEF Kept
        <3>5. /\ z.id = x.id /\ z.size = x.size
              /\ z.attributes = Some(disk[x.id].attributes)
            BY <3>3 DEF Kept, KeepsWhole, Fields
        <3> QED BY <1>2, <2>2, <2>8, <3>1, <3>4, <3>5, Values DEF Makes
    <2> QED BY <2>6, <2>7, <2>8
<1> QED BY <1>0, <1>1, <1>2

\* y is x, but for some of the values that are made.
SameFile(x, y) ==
    /\ DOMAIN y = DOMAIN x
    /\ \A f \in {"open", "id", "record", "attributes", "compressed", "resource", "symlink"} :
          y[f] = x[f]

\* Setting some of these values to what the file system holds keeps the entry whole.
LEMMA KeptWith ==
    ASSUME NEW x, Kept(x), NEW y, SameFile(x, y),
           y.header \in {None, HeaderOf(x.id)},
           y.link \in {None, Some(LastNamed(x.id, SYMLINK)[1].value)},
           y.directory \in {None, Some(disk[x.id].records)},
           y.size \in {Unknown, SizeOf(x.id)},
           y.extents \in {None, Some(disk[x.id].extents)},
           y.stream \in {None, Some(StreamIn(x.id))},
           ValuesFit(y)
    PROVE  Kept(y) /\ y.id = x.id /\ y.attributes = x.attributes
<1>1. /\ y.open = x.open /\ y.id = x.id /\ y.record = x.record
      /\ y.attributes = x.attributes /\ y.compressed = x.compressed
      /\ y.resource = x.resource /\ y.symlink = x.symlink
    BY DEF SameFile
<1>2. KeepsWhole(y)
    BY <1>1 DEF SameFile, Kept, KeepsWhole
<1>3. RecordFits(y) /\ PointersFit(y)
    BY <1>1 DEF Kept, RecordFits, PointersFit
<1> QED BY <1>1, <1>2, <1>3 DEF Kept

\* The stream that a pointer leads to is that of the last attribute of its name.
StreamIsOfLast(x, name, bad) ==
    LET last == LastNamed(x.id, name)
        index == LastIndex(x.id, name)
        source == attributes_get_data_stream(x, index, bad)
    IN  /\ source.result = 1 =>
              /\ last # <<>> /\ index # 0
              /\ source.stream \in {None, Some(last[1])}
        /\ source.result # 1 => last = <<>> \/ bad # {}
        /\ source.result = 1 /\ source.stream.none =>
              /\ index \in DOMAIN disk[x.id].attributes
              /\ disk[x.id].attributes[index].name = name
              /\ disk[x.id].attributes[index].flags = 0

LEMMA StreamOfPointer ==
    ASSUME disk \in Disks, NEW x, Kept(x), x.attributes # None, NEW bad, NEW name
    PROVE  StreamIsOfLast(x, name, bad)
<1> DEFINE index == LastIndex(x.id, name)
           a == disk[x.id].attributes[index]
           source == attributes_get_data_stream(x, index, bad)
<1>1. x.attributes.none = FALSE /\ x.attributes.value = disk[x.id].attributes
    <2>1. x.attributes \in {None, Some(disk[x.id].attributes)}
        BY DEF Kept, KeepsWhole, Fields
    <2> QED BY <2>1, Values
<1>2. /\ index = 0 <=> LastNamed(x.id, name) = <<>>
      /\ index # 0 => /\ index \in DOMAIN disk[x.id].attributes
                      /\ a.name = name
                      /\ LastNamed(x.id, name)[1] = a
    <2>1. x.id \in DOMAIN disk
        BY DEF Kept, KeepsWhole, Fields
    <2> HIDE DEF a
    <2> QED BY <2>1, PointerIsLast DEF a
<1>3. index # 0 => a \in Attribute
    BY <1>2, AttributesAreSequences DEF Kept, KeepsWhole, Fields
<1>4. source =
        IF index = 0 THEN [result |-> -1]
        ELSE IF a.flags = DATA_STREAM
        THEN IF "extents" \in bad THEN [result |-> -1]
             ELSE [result |-> 1, stream |-> Some(a)]
        ELSE [result |-> 1, stream |-> IF a.flags = EMBEDDED THEN Some(a) ELSE None]
    BY <1>1 DEF attributes_get_data_stream
<1>5. index # 0 => a.flags \in {0, DATA_STREAM, EMBEDDED}
    BY <1>3 DEF Attribute
<1> HIDE DEF a, source
<1>6. /\ source.result = 1 =>
            index # 0 /\ source.stream \in {None, Some(a)}
      /\ source.result # 1 => index = 0 \/ bad # {}
      /\ source.result = 1 /\ source.stream.none =>
            index # 0 /\ a.flags \notin {DATA_STREAM, EMBEDDED}
    BY <1>4, Values
<1> QED BY <1>2, <1>5, <1>6 DEF a, source, StreamIsOfLast

\* A symbolic link has a target when the file has the attribute of one.
LEMMA LinkMade ==
    ASSUME disk \in Disks, NEW x, Kept(x), NEW bad
    PROVE  LET made == WithLink(x, bad)
               last == LastNamed(x.id, SYMLINK)
           IN  /\ Makes(x, bad, made)
               /\ made.result = 1 =>
                     made.entry.link = IF last = <<>> THEN None ELSE Some(last[1].value)
<1> DEFINE made == WithLink(x, bad)
           last == LastNamed(x.id, SYMLINK)
<1> SUFFICES /\ Makes(x, bad, made)
             /\ made.result = 1 =>
                   made.entry.link = IF last = <<>> THEN None ELSE Some(last[1].value)
    OBVIOUS
<1>1. CASE x.link # None
    <2>1. made = Success(x)
        BY <1>1, Values DEF WithLink, Kept, KeepsWhole
    <2>2. made.result = 1 /\ made.entry = x
        BY <2>1 DEF Success
    <2>3. x.link = Some(last[1].value) /\ last # <<>>
        BY <1>1 DEF Kept, KeepsWhole, ValuesFit
    <2> HIDE DEF made, last
    <2> QED BY <2>2, <2>3 DEF Makes
<1>2. CASE x.link = None
    <2> DEFINE given == WithAttributes(x, bad)
               y == given.entry
               a == y.attributes.value[y.symlink]
               source == attributes_get_data_stream(y, y.symlink, bad)
    <2>1. Makes(x, bad, given)
        BY AttributesMade
    <2>2. made = IF given.result # 1 THEN Failure(y)
                 ELSE IF y.symlink = 0 THEN Success(y)
                 ELSE IF a.size = 0 \/ source.result # 1 \/ source.stream.none \/ "data" \in bad
                 THEN Failure([y EXCEPT !.link = None])
                 ELSE Success([y EXCEPT !.link = Some(source.stream.value.value)])
        BY <1>2, Values DEF WithLink, internal_file_entry_get_symbolic_link_data
    <2>3. given.result = 1 =>
            /\ y.attributes # None
            /\ y.attributes.value = disk[x.id].attributes
        BY AttributesMade, Values
    <2> HIDE DEF made, last, given
    <2>4. Kept(y) /\ y.id = x.id /\ (x.attributes # None => y.attributes # None)
        BY <2>1 DEF Makes
    <2>5. CASE given.result # 1
        <3>1. made.result = -1 /\ made.entry = y
            BY <2>2, <2>5 DEF Failure
        <3> QED BY <2>1, <2>5, <3>1 DEF Makes
    <2>6. ASSUME given.result = 1
          PROVE  /\ y.symlink = LastIndex(y.id, SYMLINK)
                 /\ y.symlink = 0 <=> last = <<>>
                 /\ y.symlink # 0 => /\ y.symlink \in DOMAIN disk[x.id].attributes
                                     /\ a.name = SYMLINK
        <3>1. y.symlink = LastIndex(y.id, SYMLINK)
            BY <2>3, <2>4, <2>6 DEF Kept, PointersFit
        <3> QED BY <2>3, <2>4, <2>6, <3>1, PointerIsLast DEF last, Kept, KeepsWhole
    <2>7. CASE given.result = 1 /\ y.symlink = 0
        <3>1. made.result = 1 /\ made.entry = y
            BY <2>2, <2>7 DEF Success
        <3>2. y.link = None
            BY <2>4, <2>6, <2>7 DEF last, Kept, KeepsWhole, ValuesFit
        <3> QED BY <2>4, <2>6, <2>7, <3>1, <3>2 DEF Makes
    <2>8. CASE given.result = 1 /\ y.symlink # 0
        <3> DEFINE failing == \/ a.size = 0 \/ source.result # 1 \/ source.stream.none
                              \/ "data" \in bad
                   link == IF failing THEN None ELSE Some(source.stream.value.value)
                   z == [y EXCEPT !.link = link]
        <3>1. /\ source.result = 1 => source.stream \in {None, Some(last[1])}
              /\ source.result # 1 => last = <<>> \/ bad # {}
              /\ source.result = 1 /\ source.stream.none => a.flags = 0
            <4>1. source = attributes_get_data_stream(y, LastIndex(y.id, SYMLINK), bad)
                BY <2>6, <2>8
            <4> HIDE DEF source, y
            <4>2. y.symlink = LastIndex(y.id, SYMLINK) /\ a = disk[y.id].attributes[y.symlink]
                BY <2>3, <2>4, <2>6, <2>8
            <4>3. Kept(y) /\ y.attributes # None
                BY <2>3, <2>4, <2>8
            <4>4. StreamIsOfLast(y, SYMLINK, bad)
                BY <4>3, StreamOfPointer
            <4> HIDE DEF a
            <4> QED BY <2>4, <4>1, <4>2, <4>4 DEF last, StreamIsOfLast
        <3>2. made = IF failing THEN Failure(z) ELSE Success(z)
            BY <2>2, <2>8
        <3>3. link \in {None, Some(last[1].value)}
            BY <3>1, Values
        <3>4. Kept(z) /\ z.id = y.id /\ z.attributes = y.attributes /\ z.link = link
            <4> HIDE DEF failing, link
            <4>1. /\ SameFile(y, z) /\ z.link = link
                  /\ z.header = y.header /\ z.directory = y.directory
                  /\ z.size = y.size /\ z.extents = y.extents /\ z.stream = y.stream
                BY <2>4 DEF Kept, KeepsWhole, Fields, SameFile
            <4> HIDE DEF z
            <4>2. z.attributes = y.attributes /\ z.id = y.id
                BY <4>1 DEF SameFile
            <4>3. ValuesFit(z)
                BY <2>3, <2>4, <2>6, <2>8, <4>1, <4>2 DEF Kept, ValuesFit, last
            <4>4. /\ z.header \in {None, HeaderOf(y.id)}
                  /\ z.link \in {None, Some(LastNamed(y.id, SYMLINK)[1].value)}
                  /\ z.directory \in {None, Some(disk[y.id].records)}
                  /\ z.size \in {Unknown, SizeOf(y.id)}
                  /\ z.extents \in {None, Some(disk[y.id].extents)}
                  /\ z.stream \in {None, Some(StreamIn(y.id))}
                BY <2>4, <3>3, <4>1 DEF Kept, KeepsWhole, last
            <4> QED BY <2>4, <4>1, <4>3, <4>4, KeptWith
        <3>5. failing => bad # {} \/ HasDamage(x.id)
            <4> HIDE DEF source
            <4>1. a.size = 0 \/ a.flags = 0 => HasDamage(x.id)
                BY <2>3, <2>6, <2>8 DEF HasDamage
            <4> QED BY <2>6, <2>8, <3>1, <4>1
        <3> HIDE DEF z, source
        <3>6. CASE failing
            <4>1. made.result = -1 /\ made.entry = z
                BY <3>2, <3>6 DEF Failure
            <4> QED BY <2>4, <3>4, <3>5, <3>6, <4>1 DEF Makes
        <3>7. CASE ~failing
            <4>1. made.result = 1 /\ made.entry = z
                BY <3>2, <3>7 DEF Success
            <4>2. link = Some(last[1].value)
                BY <3>1, <3>7, Values
            <4> HIDE DEF failing, link
            <4> QED BY <2>4, <2>6, <2>8, <3>4, <4>1, <4>2 DEF Makes
        <3> QED BY <3>6, <3>7
    <2> QED BY <2>5, <2>7, <2>8
<1> QED BY <1>1, <1>2

\* The directory entries are made all at once,
LEMMA DirectoryMade ==
    ASSUME disk \in Disks, NEW x, Kept(x), NEW bad
    PROVE  LET made == WithDirectory(x, bad)
           IN  /\ Makes(x, bad, made)
               /\ made.result = 1 => made.entry.directory = Some(disk[x.id].records)
<1> DEFINE made == WithDirectory(x, bad)
           directory == IF "records" \in bad THEN None ELSE Some(disk[x.id].records)
           y == [x EXCEPT !.directory = directory]
<1>1. CASE x.directory # None
    <2>1. made = Success(x)
        BY <1>1, Values DEF WithDirectory, Kept, KeepsWhole
    <2>2. made.result = 1 /\ made.entry = x
        BY <2>1 DEF Success
    <2>3. x.directory = Some(disk[x.id].records)
        BY <1>1 DEF Kept, KeepsWhole
    <2> QED BY <2>2, <2>3 DEF Makes
<1>2. CASE x.directory = None
    <2>1. made = IF "records" \in bad THEN Failure(y) ELSE Success(y)
        BY <1>2, Values DEF WithDirectory, internal_file_entry_get_directory_entries
    <2>2. /\ SameFile(x, y) /\ y.directory = directory /\ y.id = x.id
          /\ y.attributes = x.attributes /\ y.link = x.link /\ y.header = x.header
          /\ y.size = x.size /\ y.extents = x.extents /\ y.stream = x.stream
        BY DEF Kept, KeepsWhole, Fields, SameFile
    <2>3. directory \in {None, Some(disk[x.id].records)}
        OBVIOUS
    <2>4. made.entry = y /\ made.result = IF "records" \in bad THEN -1 ELSE 1
        BY <2>1 DEF Success, Failure
    <2> HIDE DEF y, directory
    <2>5. ValuesFit(y)
        BY <2>2 DEF Kept, ValuesFit
    <2>6. Kept(y)
        <3>1. /\ y.header \in {None, HeaderOf(x.id)}
              /\ y.link \in {None, Some(LastNamed(x.id, SYMLINK)[1].value)}
              /\ y.directory \in {None, Some(disk[x.id].records)}
              /\ y.size \in {Unknown, SizeOf(x.id)}
              /\ y.extents \in {None, Some(disk[x.id].extents)}
              /\ y.stream \in {None, Some(StreamIn(x.id))}
            BY <2>2, <2>3 DEF Kept, KeepsWhole
        <3> QED BY <2>2, <2>5, <3>1, KeptWith, Zenon
    <2> QED BY <2>2, <2>4, <2>6 DEF Makes, directory
<1> QED BY <1>1, <1>2

\* and so are the file extents, when they are in order.
LEMMA ExtentsMade ==
    ASSUME disk \in Disks, NEW x, Kept(x), NEW bad
    PROVE  LET made == WithExtents(x, bad)
           IN  /\ Makes(x, bad, made)
               /\ made.result = 1 => made.entry.extents = Some(disk[x.id].extents)
               /\ SameFile(x, made.entry)
               /\ made.entry.header = x.header /\ made.entry.size = x.size
<1> DEFINE made == WithExtents(x, bad)
           failing == "extents" \in bad \/ disk[x.id].damaged
           extents == IF failing THEN None ELSE Some(disk[x.id].extents)
           y == [x EXCEPT !.extents = extents]
<1>1. CASE x.extents # None
    <2>1. made = Success(x)
        BY <1>1, Values DEF WithExtents, Kept, KeepsWhole
    <2>2. made.result = 1 /\ made.entry = x
        BY <2>1 DEF Success
    <2>3. x.extents = Some(disk[x.id].extents)
        BY <1>1 DEF Kept, KeepsWhole
    <2> QED BY <2>2, <2>3 DEF Makes, SameFile
<1>2. CASE x.extents = None
    <2>1. made = IF failing THEN Failure(y) ELSE Success(y)
        BY <1>2, Values DEF WithExtents, internal_file_entry_get_file_extents
    <2>2. /\ SameFile(x, y) /\ y.extents = extents /\ y.id = x.id
          /\ y.attributes = x.attributes /\ y.link = x.link /\ y.header = x.header
          /\ y.size = x.size /\ y.directory = x.directory /\ y.stream = x.stream
        BY DEF Kept, KeepsWhole, Fields, SameFile
    <2>3. extents \in {None, Some(disk[x.id].extents)}
        OBVIOUS
    <2>4. made.entry = y /\ made.result = IF failing THEN -1 ELSE 1
        BY <2>1 DEF Success, Failure
    <2>5. failing => bad # {} \/ HasDamage(x.id)
        BY DEF HasDamage
    <2> HIDE DEF y, extents, failing
    <2>6. ValuesFit(y)
        BY <2>2 DEF Kept, ValuesFit
    <2>7. Kept(y)
        <3>1. /\ y.header \in {None, HeaderOf(x.id)}
              /\ y.link \in {None, Some(LastNamed(x.id, SYMLINK)[1].value)}
              /\ y.directory \in {None, Some(disk[x.id].records)}
              /\ y.size \in {Unknown, SizeOf(x.id)}
              /\ y.extents \in {None, Some(disk[x.id].extents)}
              /\ y.stream \in {None, Some(StreamIn(x.id))}
            BY <2>2, <2>3 DEF Kept, KeepsWhole
        <3> QED BY <2>2, <2>6, <3>1, KeptWith, Zenon
    <2> QED BY <2>2, <2>4, <2>5, <2>7 DEF Makes, extents
<1> QED BY <1>1, <1>2

\* The size is that of the header of compressed data, or of the inode, and the
\* header is kept with it.
LEMMA SizeMade ==
    ASSUME disk \in Disks, NEW x, Kept(x), NEW bad
    PROVE  LET made == WithSize(x, bad)
           IN  /\ Makes(x, bad, made)
               /\ made.result = 1 => /\ made.entry.size = SizeOf(x.id)
                                     /\ made.entry.header = HeaderOf(x.id)
                                     /\ made.entry.attributes # None
<1> DEFINE made == WithSize(x, bad)
           last == LastNamed(x.id, DECMPFS)
<1> SUFFICES /\ Makes(x, bad, made)
             /\ made.result = 1 => /\ made.entry.size = SizeOf(x.id)
                                   /\ made.entry.header = HeaderOf(x.id)
                                   /\ made.entry.attributes # None
    OBVIOUS
<1>1. CASE x.size # Unknown
    <2>1. made = Success(x)
        BY <1>1 DEF WithSize
    <2>2. made.result = 1 /\ made.entry = x
        BY <2>1 DEF Success
    <2>3. x.size = SizeOf(x.id) /\ x.header = HeaderOf(x.id) /\ x.attributes # None
        BY <1>1 DEF Kept, KeepsWhole, ValuesFit
    <2> QED BY <2>2, <2>3 DEF Makes
<1>2. CASE x.size = Unknown
    <2> DEFINE given == WithAttributes(x, bad)
               y == given.entry
               source == attributes_get_data_stream(y, y.compressed, bad)
               header == source.stream.value.value
               InodeSize == disk[y.id].inode.size
               failing == \/ source.result # 1 \/ source.stream.none \/ "data" \in bad
                          \/ source.stream.value.size < 16
    <2>1. /\ Makes(x, bad, given) /\ y.size = Unknown
          /\ given.result = 1 => y.attributes = Some(disk[x.id].attributes)
        BY <1>2, AttributesMade
    <2>2. Kept(y) /\ y.id = x.id /\ (x.attributes # None => y.attributes # None)
        BY <2>1 DEF Makes
    <2>3. made = IF given.result # 1 THEN Failure(y)
                 ELSE IF y.compressed = 0 THEN Success([y EXCEPT !.size = InodeSize])
                 ELSE IF failing THEN Failure([y EXCEPT !.header = None])
                 ELSE IF header.signature = "fpmc"
                 THEN Success([y EXCEPT !.header = Some(header), !.size = header.size])
                 ELSE Success([y EXCEPT !.header = None, !.size = InodeSize])
        BY <1>2, <2>2 DEF WithSize, internal_file_entry_get_data_size
    <2> HIDE DEF made, last, given, y
    <2>4. CASE given.result # 1
        <3>1. made.result = -1 /\ made.entry = y
            BY <2>3, <2>4 DEF Failure
        <3> QED BY <2>1, <2>2, <2>4, <3>1 DEF Makes
    <2>5. CASE given.result = 1
        <3>1. /\ y.attributes # None /\ y.attributes.value = disk[y.id].attributes
              /\ y.compressed = LastIndex(y.id, DECMPFS)
            BY <2>1, <2>2, <2>5, Values DEF Kept, PointersFit
        <3>2. StreamIsOfLast(y, DECMPFS, bad)
            BY <2>2, <3>1, StreamOfPointer
        <3>3. LET attributes == disk[y.id].attributes
                  index == LastIndex(y.id, DECMPFS)
              IN  /\ index = 0 <=> LastNamed(y.id, DECMPFS) = <<>>
                  /\ index # 0 => /\ index \in DOMAIN attributes
                                  /\ attributes[index].name = DECMPFS
                                  /\ LastNamed(y.id, DECMPFS)[1] = attributes[index]
            BY <2>2, PointerIsLast DEF Kept, KeepsWhole
        <3> DEFINE a == disk[y.id].attributes[y.compressed]
        <3>4. /\ y.compressed = 0 <=> last = <<>>
              /\ y.compressed # 0 => /\ y.compressed \in DOMAIN disk[y.id].attributes
                                     /\ a.name = DECMPFS
                                     /\ last[1] = a
              /\ source.result = 1 =>
                    last # <<>> /\ source.stream \in {None, Some(last[1])}
              /\ source.result # 1 => last = <<>> \/ bad # {}
              /\ source.result = 1 /\ source.stream.none => a.flags = 0
            BY <2>2, <3>1, <3>2, <3>3 DEF last, StreamIsOfLast
        <3>5. /\ HeaderOf(x.id) = IF last # <<>> /\ last[1].value.signature = "fpmc"
                                  THEN Some(last[1].value) ELSE None
              /\ SizeOf(x.id) = IF last # <<>> /\ last[1].value.signature = "fpmc"
                                THEN last[1].value.size ELSE InodeSize
            BY <2>2, Values DEF HeaderOf, SizeOf, last
        <3> HIDE DEF source
        <3>6. y.compressed # 0 /\ ~failing => header = last[1].value
            BY <3>4, Values
        <3>7. y.compressed # 0 /\ failing => bad # {} \/ HasDamage(x.id)
            <4>1. y.compressed # 0 /\ (a.flags = 0 \/ a.size < 16) => HasDamage(x.id)
                BY <2>2, <3>4 DEF HasDamage
            <4>2. source.result = 1 /\ ~source.stream.none => source.stream.value = a
                BY <3>4, Values
            <4> HIDE DEF a
            <4> QED BY <3>4, <4>1, <4>2
        <3> HIDE DEF a, failing, header, InodeSize
        <3> DEFINE h == IF y.compressed # 0 /\ ~failing THEN HeaderOf(x.id)
                        ELSE IF y.compressed = 0 THEN y.header ELSE None
                   s == IF y.compressed # 0 /\ failing THEN Unknown ELSE SizeOf(x.id)
                   z == [y EXCEPT !.header = h, !.size = s]
        <3>8. made = IF y.compressed # 0 /\ failing THEN Failure(z) ELSE Success(z)
            <4>1. CASE y.compressed = 0
                <5>1. z = [y EXCEPT !.size = InodeSize]
                    BY <2>2, <3>4, <3>5, <4>1 DEF Kept, KeepsWhole, Fields
                <5> QED BY <2>3, <2>5, <4>1, <5>1
            <4>2. CASE y.compressed # 0 /\ failing
                <5>1. z = [y EXCEPT !.header = None]
                    BY <2>1, <2>2, <4>2 DEF Kept, KeepsWhole, Fields
                <5> QED BY <2>3, <2>5, <4>2, <5>1
            <4>3. CASE y.compressed # 0 /\ ~failing
                <5>1. header = last[1].value /\ last # <<>>
                    BY <3>4, <3>6, <4>3
                <5> QED BY <2>3, <2>5, <3>5, <4>3, <5>1
            <4> QED BY <4>1, <4>2, <4>3
        <3>9. h \in {None, HeaderOf(x.id)} /\ s \in {Unknown, SizeOf(x.id)}
            BY <2>2 DEF Kept, KeepsWhole
        <3>10. s # Unknown => h = HeaderOf(x.id)
            BY <2>2, <3>4, <3>5 DEF Kept, KeepsWhole
        <3> HIDE DEF h, s
        <3>11. /\ SameFile(y, z) /\ z.header = h /\ z.size = s /\ z.id = y.id
               /\ z.attributes = y.attributes /\ z.link = y.link
               /\ z.directory = y.directory /\ z.extents = y.extents
               /\ z.stream = y.stream
            BY <2>2 DEF Kept, KeepsWhole, Fields, SameFile
        <3> HIDE DEF z
        <3>12. ValuesFit(z)
            BY <2>2, <3>1, <3>10, <3>11 DEF Kept, ValuesFit
        <3>13. Kept(z)
            <4>1. /\ z.header \in {None, HeaderOf(y.id)}
                  /\ z.link \in {None, Some(LastNamed(y.id, SYMLINK)[1].value)}
                  /\ z.directory \in {None, Some(disk[y.id].records)}
                  /\ z.size \in {Unknown, SizeOf(y.id)}
                  /\ z.extents \in {None, Some(disk[y.id].extents)}
                  /\ z.stream \in {None, Some(StreamIn(y.id))}
                BY <2>2, <3>9, <3>11 DEF Kept, KeepsWhole
            <4> QED BY <2>2, <3>11, <3>12, <4>1, KeptWith, Zenon
        <3>14. CASE y.compressed # 0 /\ failing
            <4>1. made.result = -1 /\ made.entry = z
                BY <3>8, <3>14 DEF Failure
            <4> QED BY <2>2, <3>1, <3>7, <3>11, <3>13, <3>14, <4>1 DEF Makes
        <3>15. CASE ~(y.compressed # 0 /\ failing)
            <4>1. made.result = 1 /\ made.entry = z
                BY <3>8, <3>15 DEF Success
            <4>2. s = SizeOf(x.id) /\ h = HeaderOf(x.id)
                BY <2>2, <3>4, <3>5, <3>15 DEF s, h, Kept, KeepsWhole
            <4> QED BY <2>2, <3>1, <3>11, <3>13, <4>1, <4>2 DEF Makes
        <3> QED BY <3>14, <3>15
    <2> QED BY <2>4, <2>5
<1> QED BY <1>1, <1>2

\* A stream of extents reads the file's extents,
LEMMA ExtentsStreamMade ==
    ASSUME disk \in Disks, NEW x, Kept(x), NEW bad,
           x.attributes # None, x.header = HeaderOf(x.id), x.header.none
    PROVE  LET made == ExtentsDataStream(x, bad)
           IN  /\ Makes(x, bad, made)
               /\ made.result = 1 => made.entry.stream = Some(StreamIn(x.id))
<1> DEFINE made == ExtentsDataStream(x, bad)
           given == WithExtents(x, bad)
           y == given.entry
           stream == IF given.result # 1 THEN None ELSE Some(StreamIn(x.id))
           z == [y EXCEPT !.stream = stream]
<1> SUFFICES /\ Makes(x, bad, made)
             /\ made.result = 1 => made.entry.stream = Some(StreamIn(x.id))
    OBVIOUS
<1>1. /\ Makes(x, bad, given)
      /\ given.result = 1 => y.extents = Some(disk[x.id].extents)
      /\ SameFile(x, y) /\ y.header = x.header
    BY ExtentsMade
<1>2. Kept(y) /\ y.id = x.id /\ y.attributes # None
    BY <1>1 DEF Makes
<1>3. StreamIn(x.id) = [kind |-> "extents", of |-> disk[x.id].extents]
    BY DEF StreamIn
<1>4. made = IF given.result # 1 THEN Failure([y EXCEPT !.stream = None])
             ELSE Success([y EXCEPT !.stream =
                      Some([kind |-> "extents", of |-> y.extents.value])])
    BY DEF ExtentsDataStream, WithExtents
<1>5. made = IF given.result # 1 THEN Failure(z) ELSE Success(z)
    <2> HIDE DEF made, given, y
    <2> QED BY <1>1, <1>3, <1>4, Values
<1> HIDE DEF made, given, y
<1>6. stream \in {None, Some(StreamIn(x.id))}
    OBVIOUS
<1>7. made.entry = z /\ made.result = IF given.result # 1 THEN -1 ELSE 1
    BY <1>5 DEF Success, Failure
<1>8. given.result # 1 => bad # {} \/ HasDamage(x.id)
    BY <1>1 DEF Makes
<1>9. made.result = 1 => stream = Some(StreamIn(x.id))
    BY <1>7
<1> HIDE DEF stream
<1>10. /\ SameFile(y, z) /\ z.stream = stream /\ z.id = y.id
       /\ z.attributes = y.attributes /\ z.link = y.link /\ z.header = y.header
       /\ z.size = y.size /\ z.directory = y.directory /\ z.extents = y.extents
    BY <1>2 DEF Kept, KeepsWhole, Fields, SameFile
<1> HIDE DEF z
<1>11. ValuesFit(z)
    BY <1>2, <1>10 DEF Kept, ValuesFit
<1>12. Kept(z)
    <2>1. /\ z.header \in {None, HeaderOf(y.id)}
          /\ z.link \in {None, Some(LastNamed(y.id, SYMLINK)[1].value)}
          /\ z.directory \in {None, Some(disk[y.id].records)}
          /\ z.size \in {Unknown, SizeOf(y.id)}
          /\ z.extents \in {None, Some(disk[y.id].extents)}
          /\ z.stream \in {None, Some(StreamIn(y.id))}
        BY <1>2, <1>6, <1>10 DEF Kept, KeepsWhole
    <2> QED BY <1>2, <1>10, <1>11, <2>1, KeptWith, Zenon
<1> QED BY <1>2, <1>7, <1>8, <1>9, <1>10, <1>12 DEF Makes

\* and one of compressed data what its method says: the attribute of the header or
\* the resource fork.
LEMMA CompressedStreamMade ==
    ASSUME disk \in Disks, NEW x, Kept(x), NEW bad,
           x.attributes # None, x.header = HeaderOf(x.id), ~x.header.none
    PROVE  LET made == CompressedDataStream(x, bad)
           IN  /\ Makes(x, bad, made)
               /\ made.result = 1 => made.entry.stream = Some(StreamIn(x.id))
<1> DEFINE made == CompressedDataStream(x, bad)
           method == x.header.value.method
           name == IF method \in ResourceForkMethods THEN RESOURCE_FORK ELSE DECMPFS
           named == LastNamed(x.id, name)
           index == IF method \in ResourceForkMethods THEN x.resource ELSE x.compressed
           source == attributes_get_data_stream(x, index, bad)
           failing == method \notin Methods \/ source.result # 1 \/ source.stream.none
           stream == IF failing THEN None
                     ELSE Some([kind |-> "compressed", of |-> source.stream.value])
           y == [x EXCEPT !.stream = stream]
<1> SUFFICES /\ Makes(x, bad, made)
             /\ made.result = 1 => made.entry.stream = Some(StreamIn(x.id))
    OBVIOUS
<1>1. made = IF failing THEN Failure(y) ELSE Success(y)
    BY DEF CompressedDataStream
<1>2. index = LastIndex(x.id, name)
    BY DEF Kept, PointersFit
<1>3. StreamIsOfLast(x, name, bad)
    BY StreamOfPointer
<1>4. LET last == LastIndex(x.id, name)
      IN  /\ last = 0 <=> LastNamed(x.id, name) = <<>>
          /\ last # 0 => /\ last \in DOMAIN disk[x.id].attributes
                         /\ disk[x.id].attributes[last].name = name
                         /\ LastNamed(x.id, name)[1] = disk[x.id].attributes[last]
    <2> HIDE DEF name
    <2> QED BY PointerIsLast DEF Kept, KeepsWhole
<1>5. LastNamed(x.id, DECMPFS) # <<>> /\ x.header = HeaderOf(x.id) /\ ~HeaderOf(x.id).none
    BY Values DEF HeaderOf
<1>6. StreamIn(x.id) = [kind |-> "compressed", of |-> named[1]]
    BY <1>5 DEF StreamIn
<1>7. /\ source.result = 1 => named # <<>> /\ source.stream \in {None, Some(named[1])}
      /\ source.result # 1 => named = <<>> \/ bad # {}
      /\ source.result = 1 /\ source.stream.none => named # <<>> /\ named[1].flags = 0
    <2> HIDE DEF name, index
    <2> QED BY <1>2, <1>3, <1>4 DEF StreamIsOfLast
<1>8. failing => bad # {} \/ HasDamage(x.id)
    <2>1. method \notin Methods => HasDamage(x.id)
        BY <1>5 DEF HasDamage
    <2>2. named = <<>> => HasDamage(x.id)
        BY <1>5 DEF HasDamage
    <2>3. named # <<>> /\ named[1].flags = 0 => HasDamage(x.id)
        <3>1. CASE method \in ResourceForkMethods
            BY <1>5, <3>1 DEF HasDamage
        <3>2. CASE method \notin ResourceForkMethods
            <4>1. name = DECMPFS
                BY <3>2
            <4> HIDE DEF name
            <4> QED BY <1>4, <4>1 DEF HasDamage
        <3> QED BY <3>1, <3>2
    <2> HIDE DEF source, named, method
    <2> QED BY <1>7, <2>1, <2>2, <2>3
<1>9. stream \in {None, Some(StreamIn(x.id))} /\ (~failing => stream = Some(StreamIn(x.id)))
    <2> HIDE DEF source, named, method
    <2> QED BY <1>6, <1>7, Values
<1> HIDE DEF made, failing, stream
<1>10. made.entry = y /\ made.result = IF failing THEN -1 ELSE 1
    BY <1>1 DEF Success, Failure
<1>11. /\ SameFile(x, y) /\ y.stream = stream /\ y.id = x.id
       /\ y.attributes = x.attributes /\ y.link = x.link /\ y.header = x.header
       /\ y.size = x.size /\ y.directory = x.directory /\ y.extents = x.extents
    BY DEF Kept, KeepsWhole, Fields, SameFile
<1> HIDE DEF y
<1>12. ValuesFit(y)
    BY <1>11 DEF Kept, ValuesFit
<1>13. Kept(y)
    <2>1. /\ y.header \in {None, HeaderOf(x.id)}
          /\ y.link \in {None, Some(LastNamed(x.id, SYMLINK)[1].value)}
          /\ y.directory \in {None, Some(disk[x.id].records)}
          /\ y.size \in {Unknown, SizeOf(x.id)}
          /\ y.extents \in {None, Some(disk[x.id].extents)}
          /\ y.stream \in {None, Some(StreamIn(x.id))}
        BY <1>9, <1>11 DEF Kept, KeepsWhole
    <2> QED BY <1>11, <1>12, <2>1, KeptWith, Zenon
<1> QED BY <1>8, <1>9, <1>10, <1>11, <1>13 DEF Makes

\* The data stream is made from a size, whose header says which of the two it is.
LEMMA StreamMade ==
    ASSUME disk \in Disks, NEW x, Kept(x), NEW bad
    PROVE  LET made == WithStream(x, bad)
           IN  /\ Makes(x, bad, made)
               /\ made.result = 1 => made.entry.stream = Some(StreamIn(x.id))
<1> DEFINE made == WithStream(x, bad)
           given == WithSize(x, bad)
           y == given.entry
<1> SUFFICES /\ Makes(x, bad, made)
             /\ made.result = 1 => made.entry.stream = Some(StreamIn(x.id))
    OBVIOUS
<1>1. CASE x.stream # None
    <2>1. made = Success(x)
        BY <1>1, Values DEF WithStream, Kept, KeepsWhole
    <2>2. made.result = 1 /\ made.entry = x
        BY <2>1 DEF Success
    <2>3. x.stream = Some(StreamIn(x.id))
        BY <1>1 DEF Kept, KeepsWhole
    <2> QED BY <2>2, <2>3 DEF Makes
<1>2. CASE x.stream = None
    <2>1. /\ Makes(x, bad, given)
          /\ given.result = 1 => /\ y.header = HeaderOf(x.id)
                                 /\ y.attributes # None
        BY SizeMade
    <2>2. made = IF given.result # 1 THEN Failure([y EXCEPT !.stream = None])
                 ELSE IF y.header.none THEN ExtentsDataStream(y, bad)
                 ELSE CompressedDataStream(y, bad)
        BY <1>2, Values DEF WithStream, internal_file_entry_get_data_stream
    <2> HIDE DEF made, given, y
    <2>3. /\ Kept(y) /\ y.id = x.id /\ (x.attributes # None => y.attributes # None)
          /\ given.result # 1 => bad # {} \/ HasDamage(x.id)
        BY <2>1 DEF Makes, y
    <2>4. CASE given.result # 1
        <3> DEFINE z == [y EXCEPT !.stream = None]
        <3>1. made.result = -1 /\ made.entry = z
            BY <2>2, <2>4 DEF Failure
        <3>2. /\ SameFile(y, z) /\ z.stream = None /\ z.id = y.id
              /\ z.attributes = y.attributes /\ z.link = y.link /\ z.header = y.header
              /\ z.size = y.size /\ z.directory = y.directory /\ z.extents = y.extents
            BY <2>3 DEF Kept, KeepsWhole, Fields, SameFile
        <3> HIDE DEF z
        <3>3. ValuesFit(z)
            BY <2>3, <3>2 DEF Kept, ValuesFit
        <3>4. Kept(z)
            BY <2>3, <3>2, <3>3, KeptWith DEF Kept, KeepsWhole
        <3> QED BY <2>3, <2>4, <3>1, <3>2, <3>4 DEF Makes
    <2>5. CASE given.result = 1 /\ y.header.none
        <3>1. /\ Makes(y, bad, made)
              /\ made.result = 1 => made.entry.stream = Some(StreamIn(y.id))
            BY <2>1, <2>2, <2>3, <2>5, ExtentsStreamMade
        <3> QED BY <2>1, <2>3, <2>5, <3>1 DEF Makes
    <2>6. CASE given.result = 1 /\ ~y.header.none
        <3>1. /\ Makes(y, bad, made)
              /\ made.result = 1 => made.entry.stream = Some(StreamIn(y.id))
            BY <2>1, <2>2, <2>3, <2>6, CompressedStreamMade
        <3> QED BY <2>1, <2>3, <2>6, <3>1 DEF Makes
    <2> QED BY <2>4, <2>5, <2>6
<1> QED BY <1>1, <1>2

-----------------------------------------------------------------------------
(***************************************************************************)
(* The calls.                                                              *)
(***************************************************************************)

\* What is read of a file system does not change.
LEMMA KeptCarries ==
    ASSUME disk' = disk, NEW x, Kept(x), entry' = x
    PROVE  Kept(entry)'
<1>1. HeaderOf(entry.id)' = HeaderOf(x.id)
    BY DEF HeaderOf, LastNamed
<1>2. SizeOf(entry.id)' = SizeOf(x.id)
    BY DEF SizeOf, HeaderOf, LastNamed
<1>3. StreamIn(entry.id)' = StreamIn(x.id)
    BY DEF StreamIn, HeaderOf, LastNamed
<1>4. /\ LastIndex(entry.id, DECMPFS)' = LastIndex(x.id, DECMPFS)
      /\ LastIndex(entry.id, RESOURCE_FORK)' = LastIndex(x.id, RESOURCE_FORK)
      /\ LastIndex(entry.id, SYMLINK)' = LastIndex(x.id, SYMLINK)
      /\ LastNamed(entry.id, SYMLINK)' = LastNamed(x.id, SYMLINK)
      /\ HasMalformedName(entry.id)' <=> HasMalformedName(x.id)
    BY DEF LastIndex, LastNamed, HasMalformedName
<1>5. KeepsWhole(entry)'
    BY <1>1, <1>2, <1>3, <1>4 DEF Kept, KeepsWhole
<1>6. RecordFits(entry)' /\ PointersFit(entry)'
    BY <1>1, <1>2, <1>3, <1>4 DEF Kept, RecordFits, PointersFit
<1>7. ValuesFit(entry)'
    BY <1>1, <1>2, <1>3, <1>4 DEF Kept, ValuesFit
<1> QED BY <1>5, <1>6, <1>7 DEF Kept

\* A call that makes a value, on an open entry, keeps the entry and the attribute
\* of it.
LEMMA EntryStays ==
    ASSUME Inv, entry.open, disk' = disk, NEW y, Kept(y), entry' = y, y.id = entry.id,
           entry.attributes # None => y.attributes # None, attribute' = attribute
    PROVE  EntryFits' /\ AttributeFits'
<1>1. Kept(entry)'
    BY KeptCarries
<1>2. CASE attribute = NoAttribute
    BY <1>1, <1>2 DEF EntryFits, AttributeFits
<1>3. CASE AttributeKept
    <2>1. y.open /\ y.attributes \in {None, Some(disk[y.id].attributes)}
        BY DEF Kept, KeepsWhole
    <2>2. ~y.attributes.none
        BY <1>3, <2>1, Values DEF AttributeKept
    <2>3. AttributeKept'
        BY <1>3, <2>1, <2>2 DEF AttributeKept
    <2> QED BY <1>1, <2>3 DEF EntryFits, AttributeFits
<1> QED BY <1>2, <1>3 DEF Inv, AttributeFits

\* The calls that answer for an attribute that was asked for.
AttributeCalls == {"attribute by index", "attribute by name"}

\* The answer to a question about the entry is right.
Right(op, arg, bad, result, value) ==
    op \in Questions =>
        LET expected == AnswerIn(op, entry.id, arg)
        IN  IF result = -1 THEN bad # {} \/ HasDamage(entry.id)
            ELSE /\ (IF result = 1 THEN value ELSE None) = expected
                 /\ result = (IF expected.none THEN 0 ELSE 1)

LEMMA AnswerGiven ==
    ASSUME disk' = disk, NEW op, NEW arg, NEW bad, NEW result, NEW value,
           op \in Questions => entry.open,
           Reply(op, arg, bad, result, value), Right(op, arg, bad, result, value)
    PROVE  AnswersDoNotDependOnHistory'
<1>1. /\ returned'.op = op /\ returned'.arg = arg /\ returned'.failed = (bad # {})
      /\ returned'.result = result /\ returned'.value = (IF result = 1 THEN value ELSE None)
      /\ entry.open => returned'.id = entry.id
    BY DEF Reply
<1>2. SUFFICES ASSUME op \in Questions
      PROVE  LET expected == AnswerIn(returned.op, returned.id, returned.arg)'
             IN  IF returned'.result = -1 THEN returned'.failed \/ HasDamage(returned.id)'
                 ELSE /\ returned'.value = expected
                      /\ returned'.result = (IF expected.none THEN 0 ELSE 1)
    BY <1>1 DEF AnswersDoNotDependOnHistory
<1>3. /\ AnswerIn(returned.op, returned.id, returned.arg)' = AnswerIn(op, entry.id, arg)
      /\ HasDamage(returned.id)' <=> HasDamage(entry.id)
    <2> DEFINE id == entry.id
    <2>1. returned'.op = op /\ returned'.id = id /\ returned'.arg = arg
        BY <1>1, <1>2
    <2>2. AnswerIn(returned.op, returned.id, returned.arg)' = AnswerIn(op, id, arg)
        BY <2>1 DEF AnswerIn, SizeOf, StreamIn, HeaderOf, LastNamed
    <2>3. HasDamage(returned.id)' <=> HasDamage(id)
        BY <2>1 DEF HasDamage, HeaderOf, LastNamed, HasMalformedName
    <2> QED BY <2>2, <2>3
<1> QED BY <1>1, <1>2, <1>3 DEF Right

\* After any other call, the attribute is the one it was.
LEMMA AttributeStays ==
    ASSUME AttributeFits', returned'.op \notin AttributeCalls
    PROVE  AttributeIsTheOneAskedFor'
<1>1. SUFFICES ASSUME attribute'.open
      PROVE  attribute'.stream.none
               \/ attribute'.stream.value = disk'[entry'.id].attributes[attribute'.index]
    BY DEF AttributeIsTheOneAskedFor, AttributeCalls
<1>2. AttributeKept'
    BY <1>1 DEF AttributeFits, NoAttribute
<1>3. attribute'.stream \in {None, Some(disk'[entry'.id].attributes[attribute'.index])}
    BY <1>2 DEF AttributeKept
<1> QED BY <1>3, Values

\* A call that answers a question, or gives a value, and makes no other entry.
LEMMA CallKeeps ==
    ASSUME Inv, entry.open, disk' = disk, attribute' = attribute,
           NEW y, Kept(y), entry' = y, y.id = entry.id,
           entry.attributes # None => y.attributes # None,
           NEW op, NEW arg, NEW bad, NEW result, NEW value,
           op \notin EntryCalls \cup AttributeCalls,
           Reply(op, arg, bad, result, value), Right(op, arg, bad, result, value)
    PROVE  Inv'
<1>1. EntryFits' /\ AttributeFits'
    BY EntryStays
<1>2. AnswersDoNotDependOnHistory'
    BY AnswerGiven
<1>3. returned'.op = op
    BY DEF Reply
<1>4. AnswerFits'
    BY <1>3 DEF AnswerFits
<1>5. AttributeIsTheOneAskedFor'
    BY <1>1, <1>3, AttributeStays
<1> QED BY <1>1, <1>2, <1>4, <1>5 DEF Inv

\* The getters of values in memory.
LEMMA GetterKeeps ==
    ASSUME Inv, NEW op, NEW result, NEW value,
           op \notin EntryCalls \cup AttributeCalls \cup Questions,
           Getter(op, result, value)
    PROVE  Inv'
<1>1. /\ entry.open /\ disk' = disk /\ attribute' = attribute /\ entry' = entry
      /\ Reply(op, 0, {}, result, value)
    BY DEF Getter, Ready
<1>2. Kept(entry)
    BY <1>1 DEF Inv, EntryFits, NoEntry
<1>3. Right(op, 0, {}, result, value)
    BY DEF Right
<1> QED BY <1>1, <1>2, <1>3, CallKeeps

LEMMA InMemoryKeeps == ASSUME Inv, InMemory PROVE Inv'
<1>1. CASE file_entry_get_access_time
    <2>1. /\ entry.open /\ disk' = disk /\ attribute' = attribute /\ entry' = entry
          /\ Reply("access", 0, {}, 1, Some(inode.access))
        BY <1>1 DEF file_entry_get_access_time, Getter, Ready
    <2>2. Kept(entry)
        BY <2>1 DEF Inv, EntryFits, NoEntry
    <2>3. Right("access", 0, {}, 1, Some(inode.access))
        BY Values DEF Right, AnswerIn, inode
    <2>4. "access" \notin EntryCalls \cup AttributeCalls
        BY DEF EntryCalls, AttributeCalls
    <2> QED BY <2>1, <2>2, <2>3, <2>4, CallKeeps
<1>2. CASE \E op \in {"identifier", "parent", "creation", "modification", "change", "owner",
                      "group", "mode", "links", "device identifier", "device number",
                      "added", "name size", "name"} : \E result, value :
              Getter(op, result, value)
    BY <1>2, GetterKeeps DEF EntryCalls, AttributeCalls, Questions
<1> QED BY <1>1, <1>2
        DEF InMemory, file_entry_get_identifier, file_entry_get_parent_identifier,
            file_entry_get_creation_time, file_entry_get_modification_time,
            file_entry_get_inode_change_time, file_entry_get_added_time,
            file_entry_get_owner_identifier, file_entry_get_group_identifier,
            file_entry_get_device_identifier, file_entry_get_device_number,
            file_entry_get_file_mode, file_entry_get_number_of_links,
            file_entry_get_utf8_name_size, file_entry_get_utf8_name,
            file_entry_get_utf16_name_size, file_entry_get_utf16_name

\* A call that makes a value: it is enough that its answer is right when the value
\* was made.
LEMMA MakingKeeps ==
    ASSUME Inv, entry.open, disk' = disk, attribute' = attribute,
           NEW op, op \notin EntryCalls \cup AttributeCalls, NEW arg, NEW bad,
           NEW made, Makes(entry, bad, made), entry' = made.entry,
           NEW given, made.result = 1 => Right(op, arg, bad, given.result, given.value),
           NEW reply, reply = IF made.result = 1 THEN given ELSE [result |-> -1, value |-> None],
           Reply(op, arg, bad, reply.result, reply.value)
    PROVE  Inv'
<1>1. /\ made.result \in {1, -1} /\ Kept(made.entry) /\ made.entry.id = entry.id
      /\ made.result = -1 => bad # {} \/ HasDamage(entry.id)
      /\ entry.attributes # None => made.entry.attributes # None
    BY DEF Makes
<1>2. Right(op, arg, bad, reply.result, reply.value)
    BY <1>1 DEF Right
<1> QED BY <1>1, <1>2, CallKeeps

\* An entry that is open is whole.
LEMMA OpenIsKept == ASSUME Inv, Ready PROVE Kept(entry) /\ entry.open /\ disk \in Disks
BY DEF Inv, EntryFits, NoEntry, Ready

LEMMA LinksKeep == ASSUME Inv, Links PROVE Inv'
<1>1. Making("link", 0, WithLink, LinkOf)
    BY DEF Links, file_entry_get_utf8_symbolic_link_target_size,
           file_entry_get_utf8_symbolic_link_target,
           file_entry_get_utf16_symbolic_link_target_size,
           file_entry_get_utf16_symbolic_link_target
<1>2. PICK bad \in Faults :
        LET made == WithLink(entry, bad)
            reply == IF made.result = 1 THEN LinkOf(made.entry)
                     ELSE [result |-> -1, value |-> None]
        IN  entry' = made.entry /\ Reply("link", 0, bad, reply.result, reply.value)
    BY <1>1 DEF Making
<1> DEFINE made == WithLink(entry, bad)
           given == LinkOf(made.entry)
           reply == IF made.result = 1 THEN given ELSE [result |-> -1, value |-> None]
           last == LastNamed(entry.id, SYMLINK)
<1>3. /\ disk' = disk /\ attribute' = attribute /\ entry.open
      /\ Kept(entry) /\ disk \in Disks
    BY <1>1, OpenIsKept DEF Making
<1>4. /\ Makes(entry, bad, made)
      /\ made.result = 1 =>
            made.entry.link = IF last = <<>> THEN None ELSE Some(last[1].value)
    BY <1>3, LinkMade
<1>5. entry' = made.entry /\ Reply("link", 0, bad, reply.result, reply.value)
    BY <1>2
<1>6. "link" \notin EntryCalls \cup AttributeCalls
    BY DEF EntryCalls, AttributeCalls
<1>7. AnswerIn("link", entry.id, 0) = IF last = <<>> THEN None ELSE Some(last[1].value)
    BY DEF AnswerIn
<1> HIDE DEF made, last
<1>8. made.result = 1 => Right("link", 0, bad, given.result, given.value)
    BY <1>4, <1>7, Values DEF Right, LinkOf, NotThere, Value
<1> HIDE DEF given
<1> QED BY <1>3, <1>4, <1>5, <1>6, <1>8, MakingKeeps

\* A value that is the one in the file system is right.
LEMMA RightValue ==
    ASSUME NEW op, NEW arg, NEW bad, NEW v, AnswerIn(op, entry.id, arg) = Some(v)
    PROVE  Right(op, arg, bad, 1, Some(v))
BY Values DEF Right

\* The number of attributes.
LEMMA AttributeCountKeeps ==
    ASSUME Inv, file_entry_get_number_of_extended_attributes
    PROVE  Inv'
<1>1. PICK bad \in Faults :
        LET made == WithAttributes(entry, bad)
            reply == IF made.result = 1 THEN Value(Len(made.entry.attributes.value))
                     ELSE [result |-> -1, value |-> None]
        IN  entry' = made.entry /\ Reply("attribute count", 0, bad, reply.result, reply.value)
    BY DEF file_entry_get_number_of_extended_attributes, Making
<1> DEFINE made == WithAttributes(entry, bad)
           given == Value(Len(made.entry.attributes.value))
           reply == IF made.result = 1 THEN given ELSE [result |-> -1, value |-> None]
<1>2. /\ disk' = disk /\ attribute' = attribute /\ entry.open
      /\ Kept(entry) /\ disk \in Disks
    BY OpenIsKept DEF file_entry_get_number_of_extended_attributes, Making
<1>3. /\ Makes(entry, bad, made)
      /\ made.result = 1 => made.entry.attributes = Some(disk[entry.id].attributes)
    BY <1>2, AttributesMade
<1>4. entry' = made.entry /\ Reply("attribute count", 0, bad, reply.result, reply.value)
    BY <1>1
<1>5. "attribute count" \notin EntryCalls \cup AttributeCalls
    BY DEF EntryCalls, AttributeCalls
<1>6. AnswerIn("attribute count", entry.id, 0) = Some(Len(disk[entry.id].attributes))
    BY DEF AnswerIn
<1> HIDE DEF made
<1>7. made.result = 1 => Right("attribute count", 0, bad, given.result, given.value)
    <2>1. made.result = 1 => given.result = 1 /\ given.value = Some(Len(disk[entry.id].attributes))
        BY <1>3, Values DEF Value
    <2> QED BY <1>6, <2>1, RightValue
<1> HIDE DEF given
<1> QED BY <1>2, <1>3, <1>4, <1>5, <1>7, MakingKeeps

\* The number of directory entries.
LEMMA SubEntryCountKeeps ==
    ASSUME Inv, file_entry_get_number_of_sub_file_entries
    PROVE  Inv'
<1>1. PICK bad \in Faults :
        LET made == WithDirectory(entry, bad)
            reply == IF made.result = 1 THEN Value(Len(made.entry.directory.value))
                     ELSE [result |-> -1, value |-> None]
        IN  entry' = made.entry /\ Reply("sub entry count", 0, bad, reply.result, reply.value)
    BY DEF file_entry_get_number_of_sub_file_entries, Making
<1> DEFINE made == WithDirectory(entry, bad)
           given == Value(Len(made.entry.directory.value))
           reply == IF made.result = 1 THEN given ELSE [result |-> -1, value |-> None]
<1>2. /\ disk' = disk /\ attribute' = attribute /\ entry.open
      /\ Kept(entry) /\ disk \in Disks
    BY OpenIsKept DEF file_entry_get_number_of_sub_file_entries, Making
<1>3. /\ Makes(entry, bad, made)
      /\ made.result = 1 => made.entry.directory = Some(disk[entry.id].records)
    BY <1>2, DirectoryMade
<1>4. entry' = made.entry /\ Reply("sub entry count", 0, bad, reply.result, reply.value)
    BY <1>1
<1>5. "sub entry count" \notin EntryCalls \cup AttributeCalls
    BY DEF EntryCalls, AttributeCalls
<1>6. AnswerIn("sub entry count", entry.id, 0) = Some(Len(disk[entry.id].records))
    BY DEF AnswerIn
<1> HIDE DEF made
<1>7. made.result = 1 => Right("sub entry count", 0, bad, given.result, given.value)
    <2>1. made.result = 1 => given.result = 1 /\ given.value = Some(Len(disk[entry.id].records))
        BY <1>3, Values DEF Value
    <2> QED BY <1>6, <2>1, RightValue
<1> HIDE DEF given
<1> QED BY <1>2, <1>3, <1>4, <1>5, <1>7, MakingKeeps

\* The number of file extents.
LEMMA ExtentCountKeeps ==
    ASSUME Inv, file_entry_get_number_of_extents
    PROVE  Inv'
<1>1. PICK bad \in Faults :
        LET made == WithExtents(entry, bad)
            reply == IF made.result = 1 THEN Value(Len(made.entry.extents.value))
                     ELSE [result |-> -1, value |-> None]
        IN  entry' = made.entry /\ Reply("extent count", 0, bad, reply.result, reply.value)
    BY DEF file_entry_get_number_of_extents, Making
<1> DEFINE made == WithExtents(entry, bad)
           given == Value(Len(made.entry.extents.value))
           reply == IF made.result = 1 THEN given ELSE [result |-> -1, value |-> None]
<1>2. /\ disk' = disk /\ attribute' = attribute /\ entry.open
      /\ Kept(entry) /\ disk \in Disks
    BY OpenIsKept DEF file_entry_get_number_of_extents, Making
<1>3. /\ Makes(entry, bad, made)
      /\ made.result = 1 => made.entry.extents = Some(disk[entry.id].extents)
    BY <1>2, ExtentsMade
<1>4. entry' = made.entry /\ Reply("extent count", 0, bad, reply.result, reply.value)
    BY <1>1
<1>5. "extent count" \notin EntryCalls \cup AttributeCalls
    BY DEF EntryCalls, AttributeCalls
<1>6. AnswerIn("extent count", entry.id, 0) = Some(Len(disk[entry.id].extents))
    BY DEF AnswerIn
<1> HIDE DEF made
<1>7. made.result = 1 => Right("extent count", 0, bad, given.result, given.value)
    <2>1. made.result = 1 => given.result = 1 /\ given.value = Some(Len(disk[entry.id].extents))
        BY <1>3, Values DEF Value
    <2> QED BY <1>6, <2>1, RightValue
<1> HIDE DEF given
<1> QED BY <1>2, <1>3, <1>4, <1>5, <1>7, MakingKeeps

\* The size.
LEMMA SizeKeeps ==
    ASSUME Inv, file_entry_get_size
    PROVE  Inv'
<1>1. PICK bad \in Faults :
        LET made == WithSize(entry, bad)
            reply == IF made.result = 1 THEN Value(made.entry.size)
                     ELSE [result |-> -1, value |-> None]
        IN  entry' = made.entry /\ Reply("size", 0, bad, reply.result, reply.value)
    BY DEF file_entry_get_size, Making
<1> DEFINE made == WithSize(entry, bad)
           given == Value(made.entry.size)
           reply == IF made.result = 1 THEN given ELSE [result |-> -1, value |-> None]
<1>2. /\ disk' = disk /\ attribute' = attribute /\ entry.open
      /\ Kept(entry) /\ disk \in Disks
    BY OpenIsKept DEF file_entry_get_size, Making
<1>3. /\ Makes(entry, bad, made)
      /\ made.result = 1 => made.entry.size = SizeOf(entry.id)
    BY <1>2, SizeMade
<1>4. entry' = made.entry /\ Reply("size", 0, bad, reply.result, reply.value)
    BY <1>1
<1>5. "size" \notin EntryCalls \cup AttributeCalls
    BY DEF EntryCalls, AttributeCalls
<1>6. AnswerIn("size", entry.id, 0) = Some(SizeOf(entry.id))
    BY DEF AnswerIn
<1> HIDE DEF made
<1>7. made.result = 1 => Right("size", 0, bad, given.result, given.value)
    <2>1. made.result = 1 => given.result = 1 /\ given.value = Some(SizeOf(entry.id))
        BY <1>3, Values DEF Value
    <2> QED BY <1>6, <2>1, RightValue
<1> HIDE DEF given
<1> QED BY <1>2, <1>3, <1>4, <1>5, <1>7, MakingKeeps

\* The calls that need the data stream.
LEMMA StreamKeeps ==
    ASSUME Inv, NEW op \in {"read", "seek", "offset"}, Making(op, 0, WithStream, StreamOf)
    PROVE  Inv'
<1>1. PICK bad \in Faults :
        LET made == WithStream(entry, bad)
            reply == IF made.result = 1 THEN StreamOf(made.entry)
                     ELSE [result |-> -1, value |-> None]
        IN  entry' = made.entry /\ Reply(op, 0, bad, reply.result, reply.value)
    BY DEF Making
<1> DEFINE made == WithStream(entry, bad)
           given == StreamOf(made.entry)
           reply == IF made.result = 1 THEN given ELSE [result |-> -1, value |-> None]
<1>2. /\ disk' = disk /\ attribute' = attribute /\ entry.open
      /\ Kept(entry) /\ disk \in Disks
    BY OpenIsKept DEF Making
<1>3. /\ Makes(entry, bad, made)
      /\ made.result = 1 => made.entry.stream = Some(StreamIn(entry.id))
    BY <1>2, StreamMade
<1>4. entry' = made.entry /\ Reply(op, 0, bad, reply.result, reply.value)
    BY <1>1
<1>5. op \notin EntryCalls \cup AttributeCalls
    BY DEF EntryCalls, AttributeCalls
<1>6. AnswerIn(op, entry.id, 0) = Some(StreamIn(entry.id))
    BY DEF AnswerIn
<1> HIDE DEF made
<1>7. made.result = 1 => Right(op, 0, bad, given.result, given.value)
    <2>1. made.result = 1 => given.result = 1 /\ given.value = Some(StreamIn(entry.id))
        BY <1>3, Values DEF StreamOf, Value
    <2> QED BY <1>6, <2>1, RightValue
<1> HIDE DEF given
<1> QED BY <1>2, <1>3, <1>4, <1>5, <1>7, MakingKeeps

\* Whether there is an attribute of a name.
LEMMA HasAttributeKeeps ==
    ASSUME Inv, file_entry_has_extended_attribute_by_utf8_name
                \/ file_entry_has_extended_attribute_by_utf16_name
    PROVE  Inv'
<1>1. PICK name \in Names, bad \in Faults :
        LET made == WithAttributes(entry, bad)
            given == IF ByName(made.entry.attributes.value, name) = 0 THEN NotThere
                     ELSE Value(TRUE)
            reply == IF made.result = 1 THEN given ELSE [result |-> -1, value |-> None]
        IN  entry' = made.entry /\ Reply("has attribute", name, bad, reply.result, reply.value)
    BY DEF file_entry_has_extended_attribute_by_utf8_name,
           file_entry_has_extended_attribute_by_utf16_name, Making,
           internal_file_entry_get_attribute_values_by_utf8_name,
           internal_file_entry_get_attribute_values_by_utf16_name
<1> DEFINE made == WithAttributes(entry, bad)
           given == IF ByName(made.entry.attributes.value, name) = 0 THEN NotThere
                    ELSE Value(TRUE)
           reply == IF made.result = 1 THEN given ELSE [result |-> -1, value |-> None]
<1>2. /\ disk' = disk /\ attribute' = attribute /\ entry.open
      /\ Kept(entry) /\ disk \in Disks
    BY OpenIsKept DEF file_entry_has_extended_attribute_by_utf8_name,
           file_entry_has_extended_attribute_by_utf16_name, Making
<1>3. Makes(entry, bad, made)
    BY <1>2, AttributesMade
<1>4. entry' = made.entry /\ Reply("has attribute", name, bad, reply.result, reply.value)
    BY <1>1
<1>5. "has attribute" \notin EntryCalls \cup AttributeCalls
    BY DEF EntryCalls, AttributeCalls
<1> HIDE DEF made
<1>6. made.result = 1 => Right("has attribute", name, bad, given.result, given.value)
    BY DEF Right, Questions
<1> HIDE DEF given
<1> QED BY <1>2, <1>3, <1>4, <1>5, <1>6, MakingKeeps

\* A file extent.
LEMMA ExtentByIndexKeeps ==
    ASSUME Inv, file_entry_get_extent_by_index
    PROVE  Inv'
<1>1. PICK i \in 0 .. MaxIndex, bad \in Faults :
        LET made == WithExtents(entry, bad)
            given == IF i + 1 \in DOMAIN made.entry.extents.value
                     THEN Value(made.entry.extents.value[i + 1]) ELSE Refused
            reply == IF made.result = 1 THEN given ELSE [result |-> -1, value |-> None]
        IN  entry' = made.entry /\ Reply("extent by index", i, bad, reply.result, reply.value)
    BY DEF file_entry_get_extent_by_index, Making
<1> DEFINE made == WithExtents(entry, bad)
           given == IF i + 1 \in DOMAIN made.entry.extents.value
                    THEN Value(made.entry.extents.value[i + 1]) ELSE Refused
           reply == IF made.result = 1 THEN given ELSE [result |-> -1, value |-> None]
<1>2. /\ disk' = disk /\ attribute' = attribute /\ entry.open
      /\ Kept(entry) /\ disk \in Disks
    BY OpenIsKept DEF file_entry_get_extent_by_index, Making
<1>3. Makes(entry, bad, made)
    BY <1>2, ExtentsMade
<1>4. entry' = made.entry /\ Reply("extent by index", i, bad, reply.result, reply.value)
    BY <1>1
<1>5. "extent by index" \notin EntryCalls \cup AttributeCalls
    BY DEF EntryCalls, AttributeCalls
<1> HIDE DEF made
<1>6. made.result = 1 => Right("extent by index", i, bad, given.result, given.value)
    BY DEF Right, Questions
<1> HIDE DEF given
<1> QED BY <1>2, <1>3, <1>4, <1>5, <1>6, MakingKeeps

LEMMA DataKeeps == ASSUME Inv, Data PROVE Inv'
<1>1. CASE file_entry_get_size
    BY <1>1, SizeKeeps
<1>2. CASE file_entry_get_number_of_extents
    BY <1>2, ExtentCountKeeps
<1>3. CASE file_entry_get_extent_by_index
    BY <1>3, ExtentByIndexKeeps
<1>4. CASE \E op \in {"read", "seek", "offset"} : Making(op, 0, WithStream, StreamOf)
    BY <1>4, StreamKeeps
<1> QED BY <1>1, <1>2, <1>3, <1>4
        DEF Data, file_entry_read_buffer, file_entry_read_buffer_at_offset,
            file_entry_seek_offset, file_entry_get_offset

-----------------------------------------------------------------------------
(***************************************************************************)
(* Extended attributes.                                                    *)
(***************************************************************************)

LEMMA LeastNumber ==
    ASSUME NEW I, I \subseteq Nat, I # {}
    PROVE  \E i \in I : \A j \in I : i <= j
<1> DEFINE R == OpToRel(<, Nat)
<1>1. IsWellFoundedOn(R, Nat)
    BY NatLessThanWellFounded
<1> HIDE DEF R
<1>2. PICK i \in I : \A j \in I : ~(<<j, i>> \in R)
    BY <1>1, WFMin
<1>3. \A j \in I : ~(j < i)
    BY <1>2 DEF R, OpToRel
<1> QED BY <1>3

\* Looking up a name gives the first attribute that has it.
FirstNamed(attributes, name, index) ==
    /\ index = 0 => \A i \in DOMAIN attributes : attributes[i].name # name
    /\ index # 0 => /\ index \in DOMAIN attributes
                    /\ attributes[index].name = name
                    /\ \A i \in 1 .. index - 1 : attributes[i].name # name

LEMMA ByNameIsFirst ==
    ASSUME disk \in Disks, NEW id \in DOMAIN disk, NEW name
    PROVE  FirstNamed(disk[id].attributes, name, ByName(disk[id].attributes, name))
<1> DEFINE attributes == disk[id].attributes
           n == Len(attributes)
           I == {i \in DOMAIN attributes : attributes[i].name = name}
           first == CHOOSE i \in I : \A j \in I : i <= j
<1>1. n \in Nat /\ DOMAIN attributes = 1 .. n
    BY AttributesAreSequences
<1>2. ByName(attributes, name) = IF I = {} THEN 0 ELSE first
    BY DEF ByName
<1>3. CASE I = {}
    BY <1>2, <1>3 DEF FirstNamed
<1>4. CASE I # {}
    <2>1. I \subseteq Nat
        BY <1>1
    <2>2. \E i \in I : \A j \in I : i <= j
        BY <1>4, <2>1, LeastNumber
    <2>3. first \in I /\ \A j \in I : first <= j
        BY <2>2
    <2>4. ByName(attributes, name) = first
        BY <1>2, <1>4
    <2> HIDE DEF first
    <2>5. first \in 1 .. n /\ attributes[first].name = name
        BY <1>1, <2>3
    <2>6. \A i \in 1 .. first - 1 : attributes[i].name # name
        <3> TAKE i \in 1 .. first - 1
        <3>1. i \in 1 .. n /\ ~(first <= i)
            BY <1>1, <2>5
        <3> QED BY <1>1, <2>3, <3>1
    <2> QED BY <1>1, <2>4, <2>5, <2>6 DEF FirstNamed
<1> QED BY <1>3, <1>4

\* To say that there is none is right when there is none.
LEMMA RightNone ==
    ASSUME NEW op, NEW arg, NEW bad, AnswerIn(op, entry.id, arg) = None
    PROVE  Right(op, arg, bad, 0, None)
<1>1. None.none
    BY Values
<1>2. (IF None.none THEN 0 ELSE 1) = 0
    BY <1>1
<1> QED BY <1>2 DEF Right

\* The index that a call picks is the one that was asked for.
Asked(op, arg, attributes, index) ==
    /\ op = "attribute by index" /\ index # 0 =>
          index \in DOMAIN attributes /\ index = arg + 1
    /\ op = "attribute by name" => FirstNamed(attributes, arg, index)

\* What a call that makes an extended attribute does.
Picks(op, arg, bad, made, index, missing) ==
    IF made.result # 1
    THEN Reply(op, arg, bad, -1, None) /\ attribute' = attribute
    ELSE IF index = 0
    THEN Reply(op, arg, bad, missing, None) /\ attribute' = attribute
    ELSE /\ Reply(op, arg, bad, 1, Some(made.entry.attributes.value[index].name))
         /\ attribute' = extended_attribute_initialize(index)

LEMMA PickKeeps ==
    ASSUME Inv, Ready, ~attribute.open, disk' = disk,
           NEW op \in AttributeCalls, NEW arg, NEW bad, NEW index, NEW missing,
           entry' = WithAttributes(entry, bad).entry,
           Picks(op, arg, bad, WithAttributes(entry, bad), index, missing),
           missing = IF op = "attribute by index" THEN -1 ELSE 0,
           WithAttributes(entry, bad).result = 1 =>
               Asked(op, arg, disk[entry.id].attributes, index)
    PROVE  Inv'
<1> DEFINE made == WithAttributes(entry, bad)
           attributes == disk[entry.id].attributes
<1>1. entry.open /\ Kept(entry) /\ disk \in Disks
    BY OpenIsKept
<1>2. /\ Makes(entry, bad, made)
      /\ made.result = 1 => made.entry.attributes = Some(attributes)
    BY <1>1, AttributesMade
<1>3. /\ entry' = made.entry /\ Picks(op, arg, bad, made, index, missing)
      /\ made.result = 1 => Asked(op, arg, attributes, index)
    OBVIOUS
<1>4. attribute = NoAttribute /\ op \notin EntryCalls
    BY DEF Inv, AttributeFits, AttributeKept, AttributeCalls, EntryCalls
<1> HIDE DEF made
<1>5. /\ made.result \in {1, -1} /\ Kept(made.entry) /\ made.entry.id = entry.id
      /\ made.result = -1 => bad # {} \/ HasDamage(entry.id)
      /\ entry.attributes # None => made.entry.attributes # None
    BY <1>2 DEF Makes
<1>6. CASE attribute' = attribute /\ \E result \in {0, -1} :
              /\ Reply(op, arg, bad, result, None)
              /\ Right(op, arg, bad, result, None)
    <2>1. EntryFits' /\ AttributeFits'
        BY <1>1, <1>3, <1>5, <1>6, EntryStays
    <2>2. PICK result \in {0, -1} : /\ Reply(op, arg, bad, result, None)
                                    /\ Right(op, arg, bad, result, None)
        BY <1>6
    <2>3. AnswersDoNotDependOnHistory'
        BY <1>1, <2>2, AnswerGiven
    <2>4. AnswerFits'
        BY <1>4, <2>2 DEF AnswerFits, Reply
    <2>5. AttributeIsTheOneAskedFor'
        BY <1>4, <1>6 DEF AttributeIsTheOneAskedFor, NoAttribute
    <2> QED BY <1>1, <2>1, <2>3, <2>4, <2>5 DEF Inv
<1>7. CASE made.result # 1
    <2>1. Reply(op, arg, bad, -1, None) /\ attribute' = attribute
        BY <1>3, <1>7 DEF Picks
    <2>2. Right(op, arg, bad, -1, None)
        BY <1>5, <1>7 DEF Right
    <2> QED BY <1>6, <2>1, <2>2
<1>8. CASE made.result = 1 /\ index = 0
    <2>1. Reply(op, arg, bad, missing, None) /\ attribute' = attribute
        BY <1>3, <1>8 DEF Picks
    <2>2. Right(op, arg, bad, missing, None)
        <3>1. CASE op = "attribute by index"
            BY <3>1 DEF Right, Questions
        <3>2. CASE op = "attribute by name"
            <4>1. \A i \in DOMAIN attributes : attributes[i].name # arg
                BY <1>3, <1>8, <3>2 DEF Asked, FirstNamed
            <4>2. AnswerIn(op, entry.id, arg) = None
                BY <3>2, <4>1 DEF AnswerIn
            <4>3. missing = 0
                BY <3>2
            <4> QED BY <4>2, <4>3, RightNone
        <3> QED BY <3>1, <3>2 DEF AttributeCalls
    <2>3. missing \in {0, -1}
        OBVIOUS
    <2> QED BY <1>6, <2>1, <2>2, <2>3
<1>9. CASE made.result = 1 /\ index # 0
    <2>1. made.entry.attributes = Some(attributes)
        BY <1>2, <1>9
    <2>2. /\ Reply(op, arg, bad, 1, Some(attributes[index].name))
          /\ attribute' = extended_attribute_initialize(index)
        BY <1>3, <1>9, <2>1, Values DEF Picks
    <2>3. /\ index \in DOMAIN attributes
          /\ op = "attribute by index" => index = arg + 1
          /\ op = "attribute by name" =>
                /\ attributes[index].name = arg
                /\ \A i \in 1 .. index - 1 : attributes[i].name # arg
        BY <1>3, <1>9 DEF Asked, FirstNamed, AttributeCalls
    <2>4. EntryFits'
        BY <1>3, <1>5, KeptCarries DEF EntryFits
    <2>5. entry'.id = entry.id /\ disk'[entry'.id].attributes = attributes
        BY <1>3, <1>5
    <2>6. /\ attribute'.open = TRUE /\ attribute'.index = index /\ attribute'.stream = None
          /\ DOMAIN attribute' = {"open", "index", "stream"}
        BY <2>2 DEF extended_attribute_initialize
    <2>7. AttributeFits'
        <3>1. entry'.open /\ ~entry'.attributes.none
            BY <1>3, <1>5, <2>1, Values DEF Kept, KeepsWhole
        <3>2. attribute' \in [open : {TRUE}, index : DOMAIN attributes,
                              stream : {None, Some(attributes[attribute'.index])}]
            BY <2>2, <2>3, <2>6 DEF extended_attribute_initialize
        <3> QED BY <2>5, <3>1, <3>2 DEF AttributeFits, AttributeKept
    <2>8. Right(op, arg, bad, 1, Some(attributes[index].name))
        <3>1. CASE op = "attribute by index"
            BY <3>1 DEF Right, Questions
        <3>2. CASE op = "attribute by name"
            <4>1. AnswerIn(op, entry.id, arg) = Some(arg)
                BY <2>3, <3>2 DEF AnswerIn
            <4> QED BY <2>3, <3>2, <4>1, RightValue
        <3> QED BY <3>1, <3>2 DEF AttributeCalls
    <2>9. AnswersDoNotDependOnHistory'
        BY <1>1, <2>2, <2>8, AnswerGiven
    <2>10. returned'.op = op /\ returned'.arg = arg
        BY <2>2 DEF Reply
    <2>11. AnswerFits'
        BY <1>4, <2>10 DEF AnswerFits
    <2>12. AttributeIsTheOneAskedFor'
        BY <2>3, <2>5, <2>6, <2>10, Values DEF AttributeIsTheOneAskedFor
    <2> QED BY <1>1, <2>4, <2>7, <2>9, <2>11, <2>12 DEF Inv
<1> QED BY <1>5, <1>7, <1>8, <1>9

LEMMA AttributesKeep == ASSUME Inv, Attributes PROVE Inv'
<1>1. CASE file_entry_get_number_of_extended_attributes
    BY <1>1, AttributeCountKeeps
<1>2. CASE \/ file_entry_has_extended_attribute_by_utf8_name
           \/ file_entry_has_extended_attribute_by_utf16_name
    BY <1>2, HasAttributeKeeps
<1>3. CASE file_entry_get_extended_attribute_by_index
    <2>1. PICK i \in 0 .. MaxIndex, bad \in Faults :
            LET made == WithAttributes(entry, bad)
                index == IF i + 1 \in DOMAIN made.entry.attributes.value THEN i + 1 ELSE 0
            IN  /\ entry' = made.entry
                /\ Picks("attribute by index", i, bad, made, index, -1)
        BY <1>3 DEF file_entry_get_extended_attribute_by_index, MakingAttribute, Picks
    <2> DEFINE made == WithAttributes(entry, bad)
               index == IF i + 1 \in DOMAIN made.entry.attributes.value THEN i + 1 ELSE 0
    <2>2. Ready /\ ~attribute.open /\ disk' = disk
        BY <1>3 DEF file_entry_get_extended_attribute_by_index, MakingAttribute
    <2>3. made.result = 1 => made.entry.attributes = Some(disk[entry.id].attributes)
        BY <2>2, OpenIsKept, AttributesMade
    <2>4. entry' = made.entry /\ Picks("attribute by index", i, bad, made, index, -1)
        BY <2>1
    <2> HIDE DEF made
    <2>5. made.result = 1 =>
             Asked("attribute by index", i, disk[entry.id].attributes, index)
        BY <2>3, Values DEF Asked
    <2>6. "attribute by index" \in AttributeCalls
        BY DEF AttributeCalls
    <2> HIDE DEF index
    <2> QED BY <2>2, <2>4, <2>5, <2>6, PickKeeps DEF made
<1>4. CASE \/ file_entry_get_extended_attribute_by_utf8_name
           \/ file_entry_get_extended_attribute_by_utf16_name
    <2>1. PICK name \in Names, bad \in Faults :
            LET made == WithAttributes(entry, bad)
                index == ByName(made.entry.attributes.value, name)
            IN  /\ entry' = made.entry
                /\ Picks("attribute by name", name, bad, made, index, 0)
        BY <1>4 DEF file_entry_get_extended_attribute_by_utf8_name,
                    file_entry_get_extended_attribute_by_utf16_name, MakingAttribute, Picks,
                    internal_file_entry_get_attribute_values_by_utf8_name,
                    internal_file_entry_get_attribute_values_by_utf16_name
    <2> DEFINE made == WithAttributes(entry, bad)
               index == ByName(made.entry.attributes.value, name)
    <2>2. Ready /\ ~attribute.open /\ disk' = disk
        BY <1>4 DEF file_entry_get_extended_attribute_by_utf8_name,
                    file_entry_get_extended_attribute_by_utf16_name, MakingAttribute
    <2>3. made.result = 1 => made.entry.attributes = Some(disk[entry.id].attributes)
        BY <2>2, OpenIsKept, AttributesMade
    <2>4. entry' = made.entry /\ Picks("attribute by name", name, bad, made, index, 0)
        BY <2>1
    <2>5. entry.id \in DOMAIN disk /\ disk \in Disks
        BY <2>2, OpenIsKept DEF Kept, KeepsWhole
    <2> HIDE DEF made
    <2>6. made.result = 1 => index = ByName(disk[entry.id].attributes, name)
        BY <2>3, Values
    <2> HIDE DEF index
    <2>7. made.result = 1 =>
             Asked("attribute by name", name, disk[entry.id].attributes, index)
        BY <2>5, <2>6, ByNameIsFirst DEF Asked
    <2>8. "attribute by name" \in AttributeCalls
        BY DEF AttributeCalls
    <2> QED BY <2>2, <2>4, <2>7, <2>8, PickKeeps DEF made
<1> QED BY <1>1, <1>2, <1>3, <1>4 DEF Attributes

\* A call on the extended attribute, which only sets its stream to the data of it.
LEMMA OnAttributeKeeps ==
    ASSUME Inv, ReadyAttribute, disk' = disk, entry' = entry,
           NEW stream, attribute' = [attribute EXCEPT !.stream = stream],
           stream \in {None, Some(disk[entry.id].attributes[attribute.index])},
           NEW op, op \notin EntryCalls \cup AttributeCalls \cup Questions,
           NEW arg, NEW bad, NEW result, NEW value, Reply(op, arg, bad, result, value)
    PROVE  Inv'
<1>1. Kept(entry) /\ entry.open /\ disk \in Disks
    BY OpenIsKept DEF ReadyAttribute
<1>2. AttributeKept
    BY DEF Inv, AttributeFits, NoAttribute, ReadyAttribute
<1>3. attribute'.index = attribute.index
    BY <1>2 DEF AttributeKept
<1>4. AttributeKept'
    BY <1>1, <1>2, <1>3 DEF AttributeKept
<1>5. EntryFits'
    BY <1>1, KeptCarries DEF EntryFits
<1>6. returned'.op = op
    BY DEF Reply
<1>7. AnswersDoNotDependOnHistory' /\ AnswerFits'
    BY <1>6 DEF AnswersDoNotDependOnHistory, AnswerFits
<1>8. AttributeIsTheOneAskedFor'
    BY <1>4, <1>6, AttributeStays DEF AttributeFits
<1> QED BY <1>1, <1>4, <1>5, <1>7, <1>8 DEF Inv, AttributeFits

\* The stream of an extended attribute is its own data.
LEMMA AttributeStreamMade ==
    ASSUME Inv, ReadyAttribute, NEW bad
    PROVE  LET made == internal_extended_attribute_get_data_stream(bad)
           IN  (IF made.result = 1 THEN made.stream ELSE None)
                 \in {None, Some(disk[entry.id].attributes[attribute.index])}
<1> DEFINE index == attribute.index
           a == disk[entry.id].attributes[index]
           made == internal_extended_attribute_get_data_stream(bad)
<1>1. Kept(entry) /\ entry.open /\ disk \in Disks
    BY OpenIsKept DEF ReadyAttribute
<1>2. /\ AttributeKept /\ attribute.stream \in {None, Some(a)}
      /\ index \in DOMAIN disk[entry.id].attributes
    <2>1. AttributeKept
        BY DEF Inv, AttributeFits, NoAttribute, ReadyAttribute
    <2> QED BY <2>1 DEF AttributeKept
<1>3. /\ entry.attributes = Some(disk[entry.id].attributes)
      /\ entry.id \in DOMAIN disk
    BY <1>1, <1>2, Values DEF AttributeKept, Kept, KeepsWhole
<1>4. index # 0
    BY <1>1, <1>2, <1>3, AttributesAreSequences
<1>5. CASE attribute.stream # None
    <2>1. made = [result |-> 1, stream |-> attribute.stream]
        BY <1>2, <1>5, Values DEF internal_extended_attribute_get_data_stream
    <2> QED BY <1>2, <2>1
<1>6. CASE attribute.stream = None
    <2>1. made = attributes_get_data_stream(entry, index, bad)
        BY <1>6, Values DEF internal_extended_attribute_get_data_stream
    <2>2. entry.attributes.none = FALSE /\ entry.attributes.value[index] = a
        BY <1>3, Values
    <2>3. \/ made = [result |-> -1] \/ made = [result |-> 1, stream |-> Some(a)]
          \/ made = [result |-> 1, stream |-> None]
        BY <1>4, <2>1, <2>2 DEF attributes_get_data_stream
    <2> QED BY <2>3
<1> QED BY <1>5, <1>6

\* The calls on an extended attribute, by their names.
OfAttributeCalls ==
    {"attribute identifier", "attribute name", "attribute size", "attribute read",
     "attribute seek", "attribute offset", "attribute extent count",
     "attribute extent by index"}

LEMMA OfAttributeKeep == ASSUME Inv, OfAttribute PROVE Inv'
<1>1. \A op \in OfAttributeCalls : op \notin EntryCalls \cup AttributeCalls \cup Questions
    BY DEF OfAttributeCalls, EntryCalls, AttributeCalls, Questions
<1>2. CASE \E op \in OfAttributeCalls : \E value : AttributeGetter(op, value)
    <2>0. PICK op \in OfAttributeCalls : \E value : AttributeGetter(op, value)
        BY <1>2
    <2>1. PICK value : AttributeGetter(op, value)
        BY <2>0
    <2>2. /\ ReadyAttribute /\ Reply(op, attribute.index, {}, 1, Some(value))
          /\ disk' = disk /\ entry' = entry /\ attribute' = attribute
        BY <2>1 DEF AttributeGetter
    <2>3. AttributeKept
        BY <2>2 DEF Inv, AttributeFits, NoAttribute, ReadyAttribute
    <2> DEFINE stream == attribute.stream
    <2>4. /\ stream \in {None, Some(disk[entry.id].attributes[attribute.index])}
          /\ attribute' = [attribute EXCEPT !.stream = stream]
        BY <2>2, <2>3 DEF AttributeKept
    <2> HIDE DEF stream
    <2> QED BY <1>1, <2>2, <2>4, OnAttributeKeeps
<1>3. CASE /\ ReadyAttribute /\ disk' = disk /\ entry' = entry
           /\ \E op \in OfAttributeCalls : \E arg, bad, result, value :
                LET made == internal_extended_attribute_get_data_stream(bad)
                IN  /\ attribute' = [attribute EXCEPT !.stream =
                            IF made.result = 1 THEN made.stream ELSE None]
                    /\ Reply(op, arg, bad, result, value)
    <2>0. PICK op \in OfAttributeCalls : \E arg, bad, result, value :
            LET made == internal_extended_attribute_get_data_stream(bad)
            IN  /\ attribute' = [attribute EXCEPT !.stream =
                        IF made.result = 1 THEN made.stream ELSE None]
                /\ Reply(op, arg, bad, result, value)
        BY <1>3
    <2>1. PICK arg, bad, result, value :
            LET made == internal_extended_attribute_get_data_stream(bad)
            IN  /\ attribute' = [attribute EXCEPT !.stream =
                        IF made.result = 1 THEN made.stream ELSE None]
                /\ Reply(op, arg, bad, result, value)
        BY <2>0
    <2> DEFINE made == internal_extended_attribute_get_data_stream(bad)
               stream == IF made.result = 1 THEN made.stream ELSE None
    <2>2. stream \in {None, Some(disk[entry.id].attributes[attribute.index])}
        BY <1>3, AttributeStreamMade
    <2>3. attribute' = [attribute EXCEPT !.stream = stream] /\ Reply(op, arg, bad, result, value)
        BY <2>1
    <2> HIDE DEF stream
    <2> QED BY <1>1, <1>3, <2>2, <2>3, OnAttributeKeeps
<1>4. CASE extended_attribute_free
    <2>1. /\ attribute' = NoAttribute /\ disk' = disk /\ entry' = entry /\ returned' = returned
          /\ returned = NothingReturned
        BY <1>4 DEF extended_attribute_free, ReadyAttribute, Ready
    <2>2. Kept(entry) /\ disk \in Disks
        BY <1>4, OpenIsKept DEF extended_attribute_free, ReadyAttribute
    <2>3. EntryFits' /\ AttributeFits'
        BY <2>1, <2>2, KeptCarries DEF EntryFits, AttributeFits
    <2>4. returned'.op \notin EntryCalls \cup AttributeCalls \cup Questions
        BY <2>1 DEF NothingReturned, EntryCalls, AttributeCalls, Questions
    <2>5. AnswerFits' /\ AnswersDoNotDependOnHistory'
        BY <2>4 DEF AnswerFits, AnswersDoNotDependOnHistory
    <2>6. AttributeIsTheOneAskedFor'
        BY <2>3, <2>4, AttributeStays
    <2> QED BY <2>1, <2>2, <2>3, <2>5, <2>6 DEF Inv
<1>5. ASSUME \/ extended_attribute_get_identifier \/ extended_attribute_get_size
             \/ extended_attribute_get_utf8_name_size \/ extended_attribute_get_utf8_name
             \/ extended_attribute_get_utf16_name_size \/ extended_attribute_get_utf16_name
      PROVE  \E op \in OfAttributeCalls : \E value : AttributeGetter(op, value)
    BY <1>5 DEF OfAttributeCalls, extended_attribute_get_identifier,
           extended_attribute_get_size, extended_attribute_get_utf8_name_size,
           extended_attribute_get_utf8_name, extended_attribute_get_utf16_name_size,
           extended_attribute_get_utf16_name
<1>6. ASSUME \/ extended_attribute_read_buffer \/ extended_attribute_read_buffer_at_offset
             \/ extended_attribute_seek_offset \/ extended_attribute_get_offset
             \/ extended_attribute_get_number_of_extents
             \/ extended_attribute_get_extent_by_index
      PROVE  /\ ReadyAttribute /\ disk' = disk /\ entry' = entry
             /\ \E op \in OfAttributeCalls : \E arg, bad, result, value :
                  LET made == internal_extended_attribute_get_data_stream(bad)
                  IN  /\ attribute' = [attribute EXCEPT !.stream =
                              IF made.result = 1 THEN made.stream ELSE None]
                      /\ Reply(op, arg, bad, result, value)
    <2>1. CASE extended_attribute_read_buffer \/ extended_attribute_read_buffer_at_offset
        BY <2>1 DEF OfAttributeCalls, extended_attribute_read_buffer,
                    extended_attribute_read_buffer_at_offset, Streaming
    <2>2. CASE extended_attribute_seek_offset \/ extended_attribute_get_offset
        BY <2>2 DEF OfAttributeCalls, extended_attribute_seek_offset,
                    extended_attribute_get_offset, Streaming
    <2>3. CASE extended_attribute_get_number_of_extents
        BY <2>3 DEF OfAttributeCalls, extended_attribute_get_number_of_extents, Streaming
    <2>4. CASE extended_attribute_get_extent_by_index
        BY <2>4 DEF OfAttributeCalls, extended_attribute_get_extent_by_index, Streaming
    <2> QED BY <1>6, <2>1, <2>2, <2>3, <2>4
<1> QED BY <1>2, <1>3, <1>4, <1>5, <1>6 DEF OfAttribute

-----------------------------------------------------------------------------
(***************************************************************************)
(* Other entries.                                                          *)
(***************************************************************************)

LEMMA NothingMoves ==
    ASSUME Inv, disk' = disk, entry' = entry, attribute' = attribute
    PROVE  EntryFits' /\ AttributeFits'
<1>1. CASE entry = NoEntry
    BY <1>1 DEF Inv, EntryFits, AttributeFits, AttributeKept
<1>2. CASE Kept(entry)
    <2>1. EntryFits'
        BY <1>2, KeptCarries DEF EntryFits
    <2>2. AttributeFits'
        BY DEF Inv, AttributeFits, AttributeKept
    <2> QED BY <2>1, <2>2
<1> QED BY <1>1, <1>2 DEF Inv, EntryFits

\* A call that gives an entry gives one that was made anew.
Gives(op, arg, bad, result, value) ==
    /\ Reply(op, arg, bad, result, value)
    /\ result = 1 => ~value.none /\ Made(value.value)

LEMMA GivenKeeps ==
    ASSUME Inv, disk' = disk, EntryFits', AttributeFits', NEW op \in EntryCalls, NEW arg,
           NEW bad, NEW result, NEW value, Gives(op, arg, bad, result, value)
    PROVE  Inv'
<1>1. /\ returned'.op = op /\ returned'.result = result
      /\ returned'.value = IF result = 1 THEN value ELSE None
    BY DEF Gives, Reply
<1>2. op \notin AttributeCalls \cup Questions
    BY DEF EntryCalls, AttributeCalls, Questions
<1>3. AnswersDoNotDependOnHistory'
    BY <1>1, <1>2 DEF AnswersDoNotDependOnHistory
<1>4. AnswerFits'
    <2>1. SUFFICES ASSUME result = 1
          PROVE  ~returned'.value.none /\ Made(returned.value.value)'
        BY <1>1 DEF AnswerFits
    <2>2. returned'.value = value /\ ~value.none /\ Made(value.value)
        BY <1>1, <2>1 DEF Gives
    <2>3. Made(returned.value.value)'
        BY <2>2 DEF Made, file_entry_initialize, None
    <2> QED BY <2>2, <2>3
<1>5. AttributeIsTheOneAskedFor'
    BY <1>1, <1>2, AttributeStays
<1> QED BY <1>3, <1>4, <1>5 DEF Inv

LEMMA NothingGives ==
    ASSUME NEW op, NEW arg, NEW bad, NEW result \in {0, -1}, Reply(op, arg, bad, result, None)
    PROVE  \E r, v : Gives(op, arg, bad, r, v)
<1>1. Gives(op, arg, bad, result, None)
    BY DEF Gives
<1> QED BY <1>1

LEMMA NewEntryGives ==
    ASSUME NEW op, NEW arg, NEW bad, NEW id, NEW record,
           record.none \/ record.value.id = id, NewEntry(op, arg, bad, id, record)
    PROVE  \E result, value : Gives(op, arg, bad, result, value)
<1>1. CASE "inode" \in bad \/ id \notin DOMAIN disk
    <2>1. Gives(op, arg, bad, -1, None)
        BY <1>1 DEF NewEntry, Gives
    <2> QED BY <2>1
<1>2. CASE ~("inode" \in bad \/ id \notin DOMAIN disk)
    <2> DEFINE x == file_entry_initialize(id, record)
    <2>1. Reply(op, arg, bad, 1, Some(x))
        BY <1>2 DEF NewEntry
    <2>2. Made(x)
        BY <1>2 DEF Made
    <2> HIDE DEF x
    <2>3. Gives(op, arg, bad, 1, Some(x))
        BY <2>1, <2>2, Values DEF Gives
    <2> QED BY <2>3
<1> QED BY <1>1, <1>2

LEMMA EntryByNameGives ==
    ASSUME NEW op, NEW id, NEW name, NEW bad, EntryByName(op, id, name, bad)
    PROVE  \E result, value : Gives(op, name, bad, result, value)
<1> DEFINE record == RecordOf(id, name)
<1>1. CASE "records" \in bad
    <2>1. Gives(op, name, bad, -1, None)
        BY <1>1 DEF EntryByName, Gives
    <2> QED BY <2>1
<1>2. CASE "records" \notin bad /\ record.none
    <2>1. Gives(op, name, bad, 0, None)
        BY <1>2 DEF EntryByName, Gives
    <2> QED BY <2>1
<1>3. CASE "records" \notin bad /\ ~record.none
    <2>1. NewEntry(op, name, bad, record.value.id, record)
        BY <1>3 DEF EntryByName
    <2> HIDE DEF record
    <2> QED BY <2>1, NewEntryGives
<1> QED BY <1>1, <1>2, <1>3

LEMMA EntriesKeep == ASSUME Inv, Entries PROVE Inv'
<1>1. CASE file_entry_get_number_of_sub_file_entries
    BY <1>1, SubEntryCountKeeps
<1>2. CASE /\ disk' = disk /\ entry' = entry /\ attribute' = attribute
           /\ \E op \in EntryCalls :
                 \E arg, bad, result, value : Gives(op, arg, bad, result, value)
    BY <1>2, NothingMoves, GivenKeeps
<1>3. CASE file_entry_get_sub_file_entry_by_index
    <2>1. PICK i \in 0 .. MaxIndex, bad \in Faults :
            LET made == WithDirectory(entry, bad)
                records == made.entry.directory.value
            IN  /\ entry' = made.entry
                /\ IF made.result # 1 \/ i + 1 \notin DOMAIN records
                   THEN Reply("sub entry by index", i, bad, -1, None)
                   ELSE NewEntry("sub entry by index", i, bad, records[i + 1].id,
                                 Some(records[i + 1]))
        BY <1>3 DEF file_entry_get_sub_file_entry_by_index
    <2> DEFINE made == WithDirectory(entry, bad)
               record == made.entry.directory.value[i + 1]
    <2>2. /\ disk' = disk /\ attribute' = attribute /\ entry.open
          /\ Kept(entry) /\ disk \in Disks
        BY <1>3, OpenIsKept DEF file_entry_get_sub_file_entry_by_index
    <2>3. Makes(entry, bad, made)
        BY <2>2, DirectoryMade
    <2>4. /\ entry' = made.entry
          /\ \/ Reply("sub entry by index", i, bad, -1, None)
             \/ NewEntry("sub entry by index", i, bad, record.id, Some(record))
        BY <2>1
    <2> HIDE DEF made, record
    <2>5. EntryFits' /\ AttributeFits'
        BY <2>2, <2>3, <2>4, EntryStays DEF Makes
    <2>6. \E result, value : Gives("sub entry by index", i, bad, result, value)
        <3>1. CASE Reply("sub entry by index", i, bad, -1, None)
            BY <3>1, NothingGives
        <3>2. CASE NewEntry("sub entry by index", i, bad, record.id, Some(record))
            <4>1. Some(record).value.id = record.id
                BY Values
            <4> QED BY <3>2, <4>1, NewEntryGives
        <3> QED BY <2>4, <3>1, <3>2
    <2>7. "sub entry by index" \in EntryCalls
        BY DEF EntryCalls
    <2> QED BY <2>2, <2>5, <2>6, <2>7, GivenKeeps
<1>4. CASE file_entry_get_parent_file_entry
    <2>1. PICK bad \in Faults :
             IF entry.id <= 2 THEN Reply("parent entry", 0, {}, 0, None)
             ELSE NewEntry("parent entry", 0, bad, inode.parent, None)
        BY <1>4 DEF file_entry_get_parent_file_entry
    <2>2. disk' = disk /\ entry' = entry /\ attribute' = attribute
        BY <1>4 DEF file_entry_get_parent_file_entry
    <2>3. \E b, result, value : Gives("parent entry", 0, b, result, value)
        <3>1. CASE Reply("parent entry", 0, {}, 0, None)
            BY <3>1, NothingGives
        <3>2. CASE NewEntry("parent entry", 0, bad, inode.parent, None)
            BY <3>2, NewEntryGives, Values
        <3> QED BY <2>1, <3>1, <3>2
    <2> QED BY <1>2, <2>2, <2>3 DEF EntryCalls
<1>5. CASE \/ file_entry_get_sub_file_entry_by_utf8_name
           \/ file_entry_get_sub_file_entry_by_utf16_name
    <2>1. PICK name \in Names, bad \in Faults :
             EntryByName("sub entry by name", entry.id, name, bad)
        BY <1>5 DEF file_entry_get_sub_file_entry_by_utf8_name,
                    file_entry_get_sub_file_entry_by_utf16_name
    <2>2. disk' = disk /\ entry' = entry /\ attribute' = attribute
        BY <1>5 DEF file_entry_get_sub_file_entry_by_utf8_name,
                    file_entry_get_sub_file_entry_by_utf16_name
    <2>3. \E result, value : Gives("sub entry by name", name, bad, result, value)
        BY <2>1, EntryByNameGives
    <2> QED BY <1>2, <2>2, <2>3 DEF EntryCalls
<1>6. CASE \/ file_system_get_file_entry_by_utf8_path
           \/ file_system_get_file_entry_by_utf16_path
    <2>1. PICK name \in Names, bad \in Faults : EntryByName("entry by path", 2, name, bad)
        BY <1>6 DEF file_system_get_file_entry_by_utf8_path,
                    file_system_get_file_entry_by_utf16_path
    <2>2. disk' = disk /\ entry' = entry /\ attribute' = attribute
        BY <1>6 DEF file_system_get_file_entry_by_utf8_path,
                    file_system_get_file_entry_by_utf16_path
    <2>3. \E result, value : Gives("entry by path", name, bad, result, value)
        BY <2>1, EntryByNameGives
    <2> QED BY <1>2, <2>2, <2>3 DEF EntryCalls
<1>7. CASE file_system_get_file_entry_by_identifier
    <2>1. PICK id \in DOMAIN disk \cup {0}, bad \in Faults :
             \/ Reply("entry by identifier", id, bad, -1, None)
             \/ Reply("entry by identifier", id, bad, 0, None)
             \/ NewEntry("entry by identifier", id, bad, id, None)
        BY <1>7 DEF file_system_get_file_entry_by_identifier
    <2>2. disk' = disk /\ entry' = entry /\ attribute' = attribute
        BY <1>7 DEF file_system_get_file_entry_by_identifier
    <2>3. \E result, value : Gives("entry by identifier", id, bad, result, value)
        <3>1. CASE Reply("entry by identifier", id, bad, -1, None)
            BY <3>1, NothingGives
        <3>2. CASE Reply("entry by identifier", id, bad, 0, None)
            BY <3>2, NothingGives
        <3>3. CASE NewEntry("entry by identifier", id, bad, id, None)
            BY <3>3, NewEntryGives, Values
        <3> QED BY <2>1, <3>1, <3>2, <3>3
    <2> QED BY <1>2, <2>2, <2>3 DEF EntryCalls
<1> QED BY <1>1, <1>3, <1>4, <1>5, <1>6, <1>7 DEF Entries

-----------------------------------------------------------------------------
(***************************************************************************)
(* The theorems.                                                           *)
(***************************************************************************)

\* An entry that was made anew is whole.
LEMMA MadeIsKept == ASSUME NEW x, Made(x) PROVE Kept(x)
<1>0. PICK id \in DOMAIN disk : \E record :
        /\ x = file_entry_initialize(id, record)
        /\ record.none \/ record.value.id = id
    BY DEF Made
<1>1. PICK record : /\ x = file_entry_initialize(id, record)
                    /\ record.none \/ record.value.id = id
    BY <1>0
<1>2. /\ DOMAIN x = Fields /\ x.open = TRUE /\ x.id = id /\ x.record = record
      /\ x.attributes = None /\ x.compressed = 0 /\ x.resource = 0 /\ x.symlink = 0
      /\ x.header = None /\ x.link = None /\ x.directory = None /\ x.size = Unknown
      /\ x.extents = None /\ x.stream = None
    BY <1>1 DEF file_entry_initialize, Fields
<1>3. KeepsWhole(x) /\ RecordFits(x) /\ PointersFit(x) /\ ValuesFit(x)
    BY <1>1, <1>2 DEF KeepsWhole, RecordFits, PointersFit, ValuesFit
<1> QED BY <1>3 DEF Kept

\* Between two calls only the entry and the attribute matter.
LEMMA IdleKeeps ==
    ASSUME disk' \in Disks, EntryFits', AttributeFits', returned' = NothingReturned
    PROVE  Inv'
<1>1. returned'.op \notin EntryCalls \cup AttributeCalls \cup Questions
    BY DEF NothingReturned, EntryCalls, AttributeCalls, Questions
<1>2. AnswerFits' /\ AnswersDoNotDependOnHistory'
    BY <1>1 DEF AnswerFits, AnswersDoNotDependOnHistory
<1>3. AttributeIsTheOneAskedFor'
    BY <1>1, AttributeStays
<1> QED BY <1>2, <1>3 DEF Inv

LEMMA InitInv == Init => Inv
<1> SUFFICES ASSUME Init PROVE Inv
    OBVIOUS
<1>1. returned.op = "none" /\ attribute.open = FALSE
    BY DEF Init, NothingReturned, NoAttribute
<1>2. AnswerFits /\ AnswersDoNotDependOnHistory /\ AttributeIsTheOneAskedFor
    BY <1>1 DEF AnswerFits, EntryCalls, AnswersDoNotDependOnHistory, Questions,
                AttributeIsTheOneAskedFor
<1> QED BY <1>2 DEF Init, Inv, EntryFits, AttributeFits

LEMMA NextInv == Inv /\ [Next]_vars => Inv'
<1> SUFFICES ASSUME Inv, [Next]_vars PROVE Inv'
    OBVIOUS
<1>0. ~attribute.open => attribute = NoAttribute
    BY DEF Inv, AttributeFits, AttributeKept
<1>1. CASE file_entry_free
    <2>1. EntryFits' /\ AttributeFits'
        BY <1>0, <1>1 DEF file_entry_free, EntryFits, AttributeFits
    <2> QED BY <1>1, <2>1, IdleKeeps DEF file_entry_free, Ready, Inv
<1>2. CASE KeepEntry
    <2> DEFINE x == returned.value.value
    <2>1. Made(x) /\ entry' = x /\ disk' = disk /\ attribute' = NoAttribute
        BY <1>0, <1>2 DEF KeepEntry, Inv, AnswerFits
    <2> HIDE DEF x
    <2>2. EntryFits' /\ AttributeFits'
        BY <2>1, MadeIsKept, KeptCarries DEF EntryFits, AttributeFits
    <2> QED BY <1>2, <2>2, IdleKeeps DEF KeepEntry, Inv
<1>3. CASE Return
    <2>1. EntryFits' /\ AttributeFits'
        BY <1>3, NothingMoves DEF Return
    <2> QED BY <1>3, <2>1, IdleKeeps DEF Return, Inv
<1>4. CASE vars' = vars
    <2>1. disk' = disk /\ entry' = entry /\ attribute' = attribute /\ returned' = returned
        BY <1>4 DEF vars
    <2>2. EntryFits' /\ AttributeFits'
        BY <2>1, NothingMoves
    <2>3. AnswerFits' /\ AttributeIsTheOneAskedFor'
        BY <2>1 DEF Inv, AnswerFits, Made, AttributeIsTheOneAskedFor
    <2>4. AnswersDoNotDependOnHistory'
        <3>1. AnswerIn(returned.op, returned.id, returned.arg)' =
                 AnswerIn(returned.op, returned.id, returned.arg)
            BY <2>1 DEF AnswerIn, SizeOf, StreamIn, HeaderOf, LastNamed
        <3>2. HasDamage(returned.id)' <=> HasDamage(returned.id)
            BY <2>1 DEF HasDamage, HeaderOf, LastNamed, HasMalformedName
        <3> QED BY <2>1, <3>1, <3>2 DEF Inv, AnswersDoNotDependOnHistory
    <2> QED BY <2>1, <2>2, <2>3, <2>4 DEF Inv
<1> QED BY <1>1, <1>2, <1>3, <1>4, InMemoryKeeps, LinksKeep, AttributesKeep, EntriesKeep,
           DataKeeps, OfAttributeKeep DEF Next

LEMMA KeptIsWhole == Inv => ValuesAreWhole
<1> SUFFICES ASSUME Inv, entry.open PROVE ValuesAreWhole
    BY DEF ValuesAreWhole
<1>1. Kept(entry)
    BY DEF Inv, EntryFits, NoEntry
<1> DEFINE id == entry.id
<1>2. /\ entry.attributes.none \/ entry.attributes.value = disk[id].attributes
      /\ entry.link.none \/ entry.link.value = LastNamed(id, SYMLINK)[1].value
      /\ entry.directory.none \/ entry.directory.value = disk[id].records
      /\ entry.extents.none \/ entry.extents.value = disk[id].extents
      /\ entry.stream.none \/ entry.stream.value = StreamIn(id)
    BY <1>1, Values DEF Kept, KeepsWhole
<1>3. entry.size # Unknown => entry.size = SizeOf(id) /\ entry.header = HeaderOf(id)
    BY <1>1 DEF Kept, KeepsWhole, ValuesFit
<1>4. entry.record.none \/ entry.record.value.id = id
    BY <1>1 DEF Kept, RecordFits
<1> QED BY <1>2, <1>3, <1>4 DEF ValuesAreWhole

\* Whatever calls failed before, every value that a file entry keeps is all of what
\* the file system holds: a size with the header it was read from, a stream with
\* both, the record with its inode (the on_error parts of the
\* internal_file_entry_get functions).
THEOREM ValuesStayWhole == Spec => []ValuesAreWhole
<1>1. Inv /\ [Next]_vars => Inv'
    BY NextInv
<1> QED BY <1>1, InitInv, KeptIsWhole, PTL DEF Spec

\* What a call on a file entry returns depends on the file system alone, and it
\* fails only when something cannot be read or the file is damaged, however many
\* calls failed before and in whatever order they came.
THEOREM HistoryDoesNotMatter == Spec => []AnswersDoNotDependOnHistory
<1>1. Inv /\ [Next]_vars => Inv'
    BY NextInv
<1>2. Inv => AnswersDoNotDependOnHistory
    BY DEF Inv
<1> QED BY <1>1, <1>2, InitInv, PTL DEF Spec

\* An extended attribute that was asked for by name or by index is that one, the
\* first of its name, and what is read from it is its own data
\* (libfsapfs_extended_attribute_initialize keeps a reference into the entry).
THEOREM AttributesAreThoseAskedFor == Spec => []AttributeIsTheOneAskedFor
<1>1. Inv /\ [Next]_vars => Inv'
    BY NextInv
<1>2. Inv => AttributeIsTheOneAskedFor
    BY DEF Inv
<1> QED BY <1>1, <1>2, InitInv, PTL DEF Spec
============================================================================
