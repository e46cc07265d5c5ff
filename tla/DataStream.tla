----------------------------- MODULE DataStream -----------------------------
(***************************************************************************)
(* Reading the data of a file or of an extended attribute: the extents and *)
(* their sizes (libfsapfs_file_entry.c, libfsapfs_attributes.c), the index *)
(* of a sealed volume that resolves them (libfsapfs_sealed_extent_tree.c), *)
(* and the four data handles below a libfdata stream: a buffer, blocks of  *)
(* extents, and compressed blocks (libfsapfs_data_block_vector.c,          *)
(* libfsapfs_data_block_data_handle.c, libfsapfs_file_system_data_handle.c *)
(* and libfsapfs_compressed_data_handle.c).                                *)
(*                                                                         *)
(* Offsets and sizes of extents count blocks, those of compressed data     *)
(* units of which BlockSize make a compressed block.  What a read gives is *)
(* where its data is from: the block and the tweak it was decrypted with.  *)
(*                                                                         *)
(* Handles on one attribute share the array of its extents, which belongs  *)
(* to the entry, and all handles of a volume share the index of sealed     *)
(* extents.  Each has a lock of its own, which protects neither: the       *)
(* application makes one call at a time.  Any read may fail.               *)
(***************************************************************************)
EXTENDS Integers, Sequences

CONSTANTS
    Handles,     \* handles on the file: file entries or extended attributes
    Files,       \* the files that may be read
    BlockSize,   \* LIBFSAPFS_COMPRESSED_DATA_HANDLE_BLOCK_SIZE
    MaxOffset,   \* reads start at 0 .. MaxOffset
    MaxRead      \* and are of 1 .. MaxRead

HEADER_SIZE == 1     \* the header in front of the data of an attribute

\* A file is [source, size, sparse, extents, tree, blocks, method, table, stored, wrong]:
\*   source   "embedded", "entry", "attribute" or "compressed"
\*   extents  [logical, length, physical, crypto, sealed], in the order of the tree
\*   tree     the leaf nodes of the sealed extent tree, sequences of
\*            [logical, size, physical]; no nodes, no tree
\*   blocks   compressed blocks [size, damaged]
\*   method   how they are stored: "inline", "table" or "zeros"
\*   table    the offsets of the blocks in the compressed data
\*   stored   the size of the compressed data
\*   wrong    that it cannot be read whatever happens

VARIABLES
    file,     \* the file
    array,    \* the arrays of extents: file_extents, value_data_file_extents
    index,    \* sealed_extent_tree: [built, entries]
    handle,   \* the data stream of every handle
    call      \* the read that every handle is in

vars == <<file, array, index, handle, call>>

None == [none |-> TRUE]
Some(value) == [none |-> FALSE, value |-> value]
NoCall == [pc |-> "idle", failed |-> FALSE, result |-> 0]
Zero == [block |-> 0, tweak |-> 0]

Lesser(a, b) == IF a < b THEN a ELSE b

\* The array that a handle works with.
Owner(t) == IF file.source = "entry" THEN t ELSE "attribute"
Owners == Handles \cup {"attribute"}

----------------------------------------------------------------------------
(* Sizes of extents.                                                       *)

IsOrdered(extents) ==
    \A i \in 1 .. Len(extents) - 1 : extents[i].logical <= extents[i + 1].logical

\* Every extent ends where the next one starts, the last one with the data.
Upto(extents, i, size) ==
    IF i < Len(extents) THEN extents[i + 1].logical - extents[i].logical
    ELSE IF extents[i].logical > size THEN 0
    ELSE size - extents[i].logical

EntrySizes(extents, size) ==
    IF ~IsOrdered(extents) \/ (extents # <<>> /\ extents[Len(extents)].logical > size)
    THEN [result |-> -1, extents |-> extents]
    ELSE [result |-> 1, extents |->
             [i \in DOMAIN extents |-> [extents[i] EXCEPT !.length = Upto(extents, i, size)]]]

\* Extents of an attribute are cut at its size, and those that have nothing left
\* are removed from the array.  Calling it again changes nothing.
AttributeSizes(extents, size) ==
    LET last == extents[Len(extents)]
        Cut(e, length) == IF e.logical >= size THEN 0 ELSE Lesser(length, size - e.logical)
        sized == [i \in DOMAIN extents |->
                     [extents[i] EXCEPT !.length = Cut(extents[i], Upto(extents, i, size))]]
    IN  IF ~IsOrdered(extents) \/ (extents # <<>> /\ last.logical > size /\ ~last.sealed)
        THEN [result |-> -1, extents |-> extents]
        ELSE [result |-> 1, extents |-> SelectSeq(sized, LAMBDA e : e.length > 0)]

HasSealed(extents) == \E i \in DOMAIN extents : extents[i].sealed

----------------------------------------------------------------------------
(* The index of sealed extents.                                            *)

\* The entries of the first n nodes.
EntriesUpto(n) ==
    UNION {{file.tree[k][i] : i \in DOMAIN file.tree[k]} : k \in 1 .. n}

\* What a node that was read before a failure added stays in the array, and is
\* added again by the next attempt: entries are sorted and searched, so that
\* copies do no harm, and a set stands for them.
sealed_extent_tree_read_node(n) ==
    [built |-> FALSE, entries |-> index.entries \cup EntriesUpto(n)]

\* Fault: the index counts as built before its nodes are read.
BuildMarksFirst(n) ==
    IF index.built THEN index
    ELSE [sealed_extent_tree_read_node(n) EXCEPT !.built = TRUE]

\* Reads nodes up to the n-th.
sealed_extent_tree_build(n) ==
    IF index.built THEN index
    ELSE [sealed_extent_tree_read_node(n) EXCEPT !.built = n = Len(file.tree)]

\* The last entry that is not behind the offset; it has to hold the offset.
sealed_extent_tree_lookup(entries, offset) ==
    LET before == {e \in entries : e.logical <= offset}
        e == CHOOSE x \in before : \A y \in before : y.logical <= x.logical
    IN  IF before = {} \/ offset - e.logical >= e.size THEN None
        ELSE Some([physical |-> e.physical + offset - e.logical,
                   size |-> e.size - (offset - e.logical)])

Resolve(extents, entries) ==
    LET Of(e) == sealed_extent_tree_lookup(entries, e.logical)
    IN  IF \E i \in DOMAIN extents : extents[i].sealed /\ Of(extents[i]).none
        THEN [result |-> -1, extents |-> extents]
        ELSE [result |-> 1, extents |->
                 [i \in DOMAIN extents |->
                     IF ~extents[i].sealed THEN extents[i]
                     ELSE [extents[i] EXCEPT
                              !.physical = Of(extents[i]).value.physical,
                              !.length = Lesser(@, Of(extents[i]).value.size)]]]

----------------------------------------------------------------------------
(* The blocks of extents.  A segment is [start, size, sparse, extent].     *)

\* Where the segments of the first i extents end.
End(extents, i) == IF i = 0 THEN 0 ELSE extents[i].logical + extents[i].length

\* A gap in front of an extent is a segment of zeros; extents may not overlap.
data_block_vector_initialize(extents, sparse) ==
    LET Gap(i) == [start |-> End(extents, i - 1), sparse |-> TRUE, extent |-> i,
                   size |-> extents[i].logical - End(extents, i - 1)]
        Of(i) == [start |-> extents[i].logical, size |-> extents[i].length, extent |-> i,
                  sparse |-> sparse /\ extents[i].physical = 0]
    IN  IF \E i \in DOMAIN extents : extents[i].logical < End(extents, i - 1)
        THEN [result |-> -1]
        ELSE [result |-> 1,
              segments |-> {Of(i) : i \in DOMAIN extents} \cup {Gap(i) : i \in DOMAIN extents},
              size |-> End(extents, Len(extents))]

data_block_data_handle_initialize(vector) ==
    [kind |-> "blocks", segments |-> vector.segments, size |-> vector.size]

data_stream_initialize_from_file_extents(extents, sparse) ==
    LET vector == data_block_vector_initialize(extents, sparse)
    IN  IF vector.result # 1 THEN None
        ELSE Some(data_block_data_handle_initialize(vector))

\* The block, with the tweak that its place in the extent gives.
file_system_data_handle_read_data_block(segment, extents, offset) ==
    LET e == extents[segment.extent]
        number == e.physical + offset - segment.start
    IN  IF segment.sparse THEN Zero
        ELSE [block |-> number, tweak |-> e.crypto + (number - e.physical)]

----------------------------------------------------------------------------
(* The other handles.                                                      *)

data_stream_initialize_from_data == Some([kind |-> "buffer", size |-> file.size])

buffer_data_handle_read_segment_data(offset) == [block |-> offset, tweak |-> 0]

\* current: the block that segment should hold, 0 for none; segment: what it holds.
compressed_data_handle_initialize ==
    [kind |-> "compressed", size |-> file.size, known |-> FALSE, current |-> 0,
     segment |-> [of |-> 0, size |-> 0]]

data_stream_initialize_from_compressed_data_stream == Some(compressed_data_handle_initialize)

\* The offsets of the blocks, with the end of the last.
BlockOffsets ==
    IF file.method = "table" THEN Append(file.table, file.stored)
    ELSE <<HEADER_SIZE, file.stored>>

\* The offsets are behind their table, in the data and in order, and no block is
\* larger than the buffer it is read into; data behind a header fits in it with
\* the header.
AreBlockOffsets(offsets) ==
    /\ IF file.method = "table" THEN offsets[1] > 0 /\ offsets[1] < file.stored
       ELSE file.stored <= BlockSize + 1
    /\ \A i \in 1 .. Len(offsets) - 1 :
         /\ offsets[i] <= offsets[i + 1]
         /\ offsets[i + 1] - offsets[i] <= BlockSize + 1

\* The data of a damaged block overwrites the segment up to where decompression
\* stops.
decompress_data(i) ==
    [result |-> IF file.blocks[i].damaged THEN -1 ELSE 1,
     segment |-> [of |-> i, size |-> IF file.blocks[i].damaged THEN BlockSize
                                     ELSE file.blocks[i].size]]

\* All blocks but the last are full.
IsShort(i, segment) == i * BlockSize < file.size /\ segment.size # BlockSize

----------------------------------------------------------------------------
(* Opening the stream of a handle.                                         *)

Ended(c, result) == [c EXCEPT !.pc = "done", !.result = result]
Fail(t) == call' = [call EXCEPT ![t] = Ended([@ EXCEPT !.failed = TRUE], -1)]
Goto(t, pc) == call' = [call EXCEPT ![t].pc = pc]

Init ==
    /\ file \in Files
    /\ array = [o \in Owners |-> None]
    /\ index = [built |-> FALSE, entries |-> {}]
    /\ handle = [t \in Handles |-> None]
    /\ call = [t \in Handles |-> NoCall]

\* Reads start at an offset; the stream, which is libfdata's, does not read beyond
\* its size.
read_buffer_at_offset(t) ==
    /\ \A other \in Handles : call[other].pc = "idle"
    /\ \E offset \in 0 .. MaxOffset, size \in 1 .. MaxRead :
         call' = [call EXCEPT ![t] =
             [pc |-> IF handle[t].none THEN "open" ELSE "read", failed |-> FALSE, result |-> 0,
              offset |-> offset, data |-> <<>>,
              want |-> IF offset >= file.size THEN 0 ELSE Lesser(size, file.size - offset)]]
    /\ UNCHANGED <<file, array, index, handle>>

OpenBuffer(t) ==
    /\ call[t].pc = "open" /\ file.source = "embedded"
    /\ handle' = [handle EXCEPT ![t] = data_stream_initialize_from_data]
    /\ Goto(t, "read")
    /\ UNCHANGED <<file, array, index>>

OpenCompressed(t) ==
    /\ call[t].pc = "open" /\ file.source = "compressed"
    /\ handle' = [handle EXCEPT ![t] = data_stream_initialize_from_compressed_data_stream]
    /\ Goto(t, "read")
    /\ UNCHANGED <<file, array, index>>

\* An array that is there is taken as it is.
attributes_get_data_stream(t) ==
    /\ call[t].pc = "open" /\ file.source \in {"entry", "attribute"}
    /\ IF array[Owner(t)].none
       THEN array' = [array EXCEPT ![Owner(t)] = Some(<<>>)] /\ Goto(t, "extents")
       ELSE UNCHANGED array
            /\ Goto(t, IF file.source = "entry" THEN "stream" ELSE "size")
    /\ UNCHANGED <<file, index, handle>>

\* The B-tree appends the extents one by one.
get_file_extents(t) ==
    /\ call[t].pc = "extents"
    /\ LET n == Len(array[Owner(t)].value)
       IN  IF n < Len(file.extents)
           THEN /\ array' = [array EXCEPT ![Owner(t)].value = Append(@, file.extents[n + 1])]
                /\ UNCHANGED call
           ELSE UNCHANGED array /\ Goto(t, "size")
    /\ UNCHANGED <<file, index, handle>>

\* On a failure the array is freed.
get_file_extents_fails(t) ==
    /\ call[t].pc = "extents"
    /\ array' = [array EXCEPT ![Owner(t)] = None]
    /\ Fail(t)
    /\ UNCHANGED <<file, index, handle>>

\* An error after that frees the array of an entry, not that of an attribute.
GiveUp(t, failed) ==
    /\ array' = IF file.source = "entry" THEN [array EXCEPT ![t] = None] ELSE array
    /\ call' = [call EXCEPT ![t] = Ended([@ EXCEPT !.failed = failed], -1)]

SizeExtents(t) ==
    LET extents == array[Owner(t)].value
        sized == IF file.source = "entry" THEN EntrySizes(extents, file.size)
                 ELSE AttributeSizes(extents, file.size)
    IN  /\ call[t].pc = "size"
        /\ IF sized.result # 1 THEN GiveUp(t, FALSE)
           ELSE /\ array' = [array EXCEPT ![Owner(t)] = Some(sized.extents)]
                /\ Goto(t, IF HasSealed(extents) THEN "tree" ELSE "stream")
        /\ UNCHANGED <<file, index, handle>>

\* Builds the index unless it was built; without a tree there is none.  The nodes
\* behind the n-th cannot be read.
get_sealed_extent_tree(t) ==
    /\ call[t].pc = "tree"
    /\ \E n \in 0 .. Len(file.tree) :
         /\ index' = IF file.tree = <<>> THEN index ELSE sealed_extent_tree_build(n)
         /\ IF file.tree = <<>> \/ (~index.built /\ n < Len(file.tree))
            THEN GiveUp(t, file.tree # <<>>)
            ELSE UNCHANGED array /\ Goto(t, "resolve")
    /\ UNCHANGED <<file, handle>>

ResolveExtents(t) ==
    LET resolved == Resolve(array[Owner(t)].value, index.entries)
    IN  /\ call[t].pc = "resolve"
        /\ IF resolved.result # 1 THEN GiveUp(t, FALSE)
           ELSE /\ array' = [array EXCEPT ![Owner(t)] = Some(resolved.extents)]
                /\ Goto(t, "stream")
        /\ UNCHANGED <<file, index, handle>>

\* Only the file entry knows of sparse extents.
OpenBlocks(t) ==
    LET stream == data_stream_initialize_from_file_extents(
                      array[Owner(t)].value, file.source = "entry" /\ file.sparse)
    IN  /\ call[t].pc = "stream"
        /\ handle' = [handle EXCEPT ![t] = stream]
        /\ call' = [call EXCEPT ![t] = IF stream.none THEN Ended(@, -1)
                                       ELSE [@ EXCEPT !.pc = "read"]]
        /\ UNCHANGED <<file, array, index>>

----------------------------------------------------------------------------
(* Reading.  A step reads one block or unit.                               *)

Position(t) == call[t].offset + Len(call[t].data)

\* Data that was read is added, and the read goes on unless that was all.
Take(t, items) ==
    call' = [call EXCEPT ![t].data =
                SubSeq(@ \o items, 1, Lesser(Len(@ \o items), call[t].want))]

IsReading(t, kind) ==
    /\ call[t].pc = "read"
    /\ handle[t].value.kind = kind
    /\ Len(call[t].data) < call[t].want

ReadBuffer(t) ==
    /\ IsReading(t, "buffer")
    /\ Take(t, <<buffer_data_handle_read_segment_data(Position(t))>>)
    /\ UNCHANGED <<file, array, index, handle>>

\* Fault: the offset of the handle is not moved behind what was read.
ReadBlockAgain(t) ==
    /\ IsReading(t, "blocks") /\ Position(t) < handle[t].value.size
    /\ UNCHANGED vars

data_block_data_handle_read_segment_data(t) ==
    LET segment == CHOOSE s \in handle[t].value.segments :
                       s.start <= Position(t) /\ Position(t) < s.start + s.size
    IN  /\ IsReading(t, "blocks") /\ Position(t) < handle[t].value.size
        /\ Take(t, <<file_system_data_handle_read_data_block(
                         segment, array[Owner(t)].value, Position(t))>>)
        /\ UNCHANGED <<file, array, index, handle>>

\* The table of block offsets is read with the first block.
get_compressed_block_offsets(t) ==
    /\ IsReading(t, "compressed") /\ ~handle[t].value.known
    /\ IF ~AreBlockOffsets(BlockOffsets)
       THEN call' = [call EXCEPT ![t] = Ended(@, -1)] /\ UNCHANGED handle
       ELSE handle' = [handle EXCEPT ![t].value.known = TRUE] /\ UNCHANGED call
    /\ UNCHANGED <<file, array, index>>

\* A method that is not known gives zeros.
ReadZeros(t) ==
    /\ IsReading(t, "compressed") /\ handle[t].value.known /\ file.method = "zeros"
    /\ Take(t, <<Zero>>)
    /\ UNCHANGED <<file, array, index, handle>>

\* Decompresses the block of the position into the segment.
LoadBlock(t) ==
    LET i == Position(t) \div BlockSize + 1
        unpacked == decompress_data(i)
    IN  /\ IsReading(t, "compressed") /\ handle[t].value.known /\ file.method # "zeros"
        /\ handle[t].value.current # i
        /\ IF i >= Len(BlockOffsets)
           THEN call' = [call EXCEPT ![t] = Ended(@, -1)] /\ UNCHANGED handle
           ELSE IF unpacked.result # 1 \/ IsShort(i, unpacked.segment)
           THEN /\ handle' = [handle EXCEPT ![t].value.segment = unpacked.segment]
                /\ call' = [call EXCEPT ![t] = Ended(@, -1)]
           ELSE /\ handle' = [handle EXCEPT ![t].value.segment = unpacked.segment,
                                            ![t].value.current = i]
                /\ UNCHANGED call
        /\ UNCHANGED <<file, array, index>>

\* Fault: copies from the start of the segment, whatever the offset in it.
CopyFromStart(t) ==
    LET h == handle[t].value
        offset == Position(t) % BlockSize
        items == [k \in 1 .. h.segment.size - offset |->
                     [block |-> h.segment.of, tweak |-> k - 1]]
    IN  /\ IsReading(t, "compressed") /\ h.known /\ file.method # "zeros"
        /\ h.current = Position(t) \div BlockSize + 1
        /\ Take(t, items)
        /\ UNCHANGED <<file, array, index, handle>>

\* Copies from the segment what is behind the offset in it.
compressed_data_handle_read_segment_data(t) ==
    LET h == handle[t].value
        offset == Position(t) % BlockSize
        items == [k \in 1 .. h.segment.size - offset |->
                     [block |-> h.segment.of, tweak |-> offset + k - 1]]
    IN  /\ IsReading(t, "compressed") /\ h.known /\ file.method # "zeros"
        /\ h.current = Position(t) \div BlockSize + 1
        /\ IF offset >= h.segment.size
           THEN call' = [call EXCEPT ![t] = Ended(@, -1)]
           ELSE Take(t, items)
        /\ UNCHANGED <<file, array, index, handle>>

\* Reading from the disk fails. Zeros are made without a read once the offsets are
\* known.
ReadFails(t) ==
    /\ \/ IsReading(t, "blocks")
       \/ /\ IsReading(t, "compressed")
          /\ file.method = "zeros" => ~handle[t].value.known
    /\ Fail(t)
    /\ UNCHANGED <<file, array, index, handle>>

\* Fault: a read ends with the block it started in.
FinishWithBlock(t) ==
    /\ call[t].pc = "read"
    /\ \/ Len(call[t].data) = call[t].want
       \/ IsReading(t, "blocks") /\ Position(t) >= handle[t].value.size
       \/ call[t].data # <<>> /\ Position(t) % BlockSize = 0
    /\ call' = [call EXCEPT ![t] = Ended(@, 1)]
    /\ UNCHANGED <<file, array, index, handle>>

FinishRead(t) ==
    /\ call[t].pc = "read"
    /\ \/ Len(call[t].data) = call[t].want
       \/ IsReading(t, "blocks") /\ Position(t) >= handle[t].value.size
    /\ call' = [call EXCEPT ![t] = Ended(@, 1)]
    /\ UNCHANGED <<file, array, index, handle>>

Return(t) ==
    /\ call[t].pc = "done"
    /\ call' = [call EXCEPT ![t] = NoCall]
    /\ UNCHANGED <<file, array, index, handle>>

\* The application frees the handle and may make another one; an entry frees its
\* extents with it, those of an attribute stay with the entry it is of.
Free(t) ==
    /\ ~handle[t].none
    /\ \A other \in Handles : call[other].pc = "idle"
    /\ handle' = [handle EXCEPT ![t] = None]
    /\ array' = IF file.source = "entry" THEN [array EXCEPT ![t] = None] ELSE array
    /\ UNCHANGED <<file, index, call>>

Work(t) ==
    \/ OpenBuffer(t)
    \/ OpenCompressed(t)
    \/ attributes_get_data_stream(t)
    \/ get_file_extents(t)
    \/ SizeExtents(t)
    \/ get_sealed_extent_tree(t)
    \/ ResolveExtents(t)
    \/ OpenBlocks(t)
    \/ ReadBuffer(t)
    \/ data_block_data_handle_read_segment_data(t)
    \/ get_compressed_block_offsets(t)
    \/ ReadZeros(t)
    \/ LoadBlock(t)
    \/ compressed_data_handle_read_segment_data(t)
    \/ FinishRead(t)
    \/ Return(t)

Next == \E t \in Handles : 
    \/ read_buffer_at_offset(t)
    \/ Work(t)
    \/ get_file_extents_fails(t)
    \/ ReadFails(t)
    \/ Free(t)

\* A call that was started goes on until it ends or fails; nothing makes the application start one.
Fairness == \A t \in Handles : WF_vars(Work(t))

Spec == Init /\ [][Next]_vars /\ Fairness

----------------------------------------------------------------------------
(* What the file holds.                                                    *)

TreeEntries == EntriesUpto(Len(file.tree))

\* The block of an extent that holds the offset, Zero where nothing is stored.
InExtent(e, offset) ==
    LET found == sealed_extent_tree_lookup(TreeEntries, offset)
        tweak == e.crypto + offset - e.logical
    IN  IF e.sealed
        THEN IF found.none THEN Zero ELSE [block |-> found.value.physical, tweak |-> tweak]
        ELSE IF file.sparse /\ e.physical = 0 THEN Zero
        ELSE [block |-> e.physical + offset - e.logical, tweak |-> tweak]

Stored(offset) ==
    CASE file.source = "embedded"   -> [block |-> offset, tweak |-> 0]
      [] file.source = "compressed" ->
           IF file.method = "zeros" THEN Zero
           ELSE [block |-> offset \div BlockSize + 1, tweak |-> offset % BlockSize]
      [] OTHER ->
           LET holds == {i \in DOMAIN file.extents :
                           /\ file.extents[i].logical <= offset
                           /\ offset < file.extents[i].logical + file.extents[i].length}
           IN  IF holds = {} THEN Zero
               ELSE InExtent(file.extents[CHOOSE i \in holds : TRUE], offset)

\* No compressed block is damaged or shorter than its place, and extents leave no
\* hole.  A block that is overwrites the segment but not the index of the block
\* that the segment holds, so that the next read of the block before it gets the
\* wrong data; a hole is covered by the extent in front of it.
Whole ==
    /\ \A i \in DOMAIN file.blocks :
         ~file.blocks[i].damaged /\ (i < Len(file.blocks) => file.blocks[i].size = BlockSize)
    /\ \A i \in 2 .. Len(file.extents) :
         file.extents[i].logical <= file.extents[i - 1].logical + file.extents[i - 1].length

\* What a read of a whole file returns is what is stored there, decrypted with
\* the right tweak, whatever reads of this or of another handle failed before,
\* in the order in which it is stored, and zeros where nothing is.
ReadsAreRight ==
    \A t \in Handles :
        Whole /\ call[t].pc = "done" /\ call[t].result = 1 =>
            \A k \in DOMAIN call[t].data :
                call[t].data[k] = Stored(call[t].offset + k - 1)

\* An error has a cause: something could not be read during this call, or the
\* file is wrong.  A call that failed leaves nothing behind that makes a later
\* one fail (the array of extents, a part of the index, the block of a handle).
ErrorsHaveCauses ==
    \A t \in Handles :
        call[t].pc = "done" /\ call[t].result = -1 => call[t].failed \/ file.wrong

\* A read that returns less than was asked for has come to the end of what is
\* stored; it does not stop between two extents or blocks.
ShortReadsAreAtTheEnd ==
    \A t \in Handles :
        LET end == call[t].offset + Len(call[t].data)
        IN  call[t].pc = "done" /\ call[t].result = 1 /\ Len(call[t].data) < call[t].want =>
                \A offset \in end .. MaxOffset + MaxRead : Stored(offset) = Zero

\* A read ends: it returns data or an error, and gives the lock back.
EveryReadEnds ==
    \A t \in Handles : call[t].pc # "idle" ~> call[t].pc = "idle"

============================================================================
