# libfsapfs: TLA+ models and proofs

libfsapfs reads Apple File System (APFS) containers. This directory holds TLA+
models of the library, of the mount tool and of the Python bindings, TLC
configurations that check them on small instances, and theorems about them that
TLAPS checks for every value of their constants. Definitions keep the names of
the C functions they model (`GetVolumeByIndex` for
`libfsapfs_container_get_volume_by_index`, `mount_fuse_readdir` for itself);
`PROJECT.json` maps each to its lines, and lists what is hard to test in the code
at the line where it bites, with the properties that are about it.

## 1. The system

| Component | State | Operations | Interacts with | Module |
|---|---|---|---|---|
| container handle (`libfsapfs_container.c`) | superblock, checkpoint map, block vector, object map B-tree, key bag, file IO handle and two ownership flags, abort flag, read/write lock | initialize, open, open_file_io_handle, close, free, signal_abort, get_size, get_identifier, is_locked, get_number_of_volumes, get_volume_by_index | makes volumes, which borrow its key bag and IO handles | `Container` |
| checkpoints (`container.c`, `checkpoint_map.c`, `container_superblock.c`) | the newest superblock and checkpoint map found so far | the scan of the checkpoint descriptor area in open_read | the operating system wrote the area, and may have crashed | `Checkpoint` |
| object map B-tree (`object_map_btree.c`) | root block, node cache, block cache | look up the newest version of an object as of a transaction | used by container, volume and file system B-tree under their locks | `ObjectMapBTree`, `ObjectStore` |
| volume handle (`libfsapfs_volume.c`), key bags, key encrypted keys, encryption context | superblock, block vectors, object map B-tree, key bag, keys, snapshots, file system, passwords, is_locked, read/write lock | open_read, close, free, password setters, unlock, queries, look-ups by identifier and path, snapshots | container key bag, object map, file system | `Volume` |
| snapshots (`snapshot*.c`) | metadata array, tree and its node cache, a snapshot's superblock | read all, get one, open, close, free | volume | `Snapshot` |
| file system B-tree (`file_system_btree.c`), names (`name.c`, `directory_record.c`) | node and block caches, learned encoding of sub node identifiers | look-ups of inodes, directory records, attributes, extents, paths | object map, encryption context | `FileSystemBTree` |
| file system, file entry, extended attribute (`file_system.c`, `file_entry.c`, `extended_attribute.c`, `attribute_values.c`) | values read on first use (attributes, link target, directory, extents, data stream, size), stream offset, a lock each | some sixty getters, read, seek | file system B-tree, data streams | `FileEntry` |
| data streams, extents, sealed extents, compressed data (`attributes.c`, `data_block*.c`, `sealed_extent_tree.c`, `compressed_data_handle.c`) | extents, the index of sealed extents, segment buffer and its index, stream offset | build a stream, read, seek | file system B-tree, block vectors, decoders | `DataStream` |
| decoders, checksums | a bit buffer; none | decode; Fletcher-64, CRC-32 | data streams, objects | not modelled |
| debug structures (space manager, reaper, Fusion and extent reference trees) | none that anything reads | print | container, volume | not modelled |
| fsapfsmount (`mount_*.c`, `fsapfsmount.c`) | mount handle, file entries in FUSE's handles | open, mount, the FUSE callbacks, names escaped and unescaped | the public API, FUSE | `Mount` |
| fsapfsinfo | option state | print | the public API | not modelled |
| Python bindings (`pyfsapfs_*.c`) | reference counts, parents, iterators, the file-like object | methods, iteration, deallocation, reading through Python | the public API, the interpreter's lock | `PythonBindings` |

What is hard here:

* **Locks.** Each public handle has a read/write lock. Every one of the dozens
  of operations releases it on every path, or a later call by another thread
  hangs. Some operations check fields before they take it, and some that take
  it for reading change caches. The Python bindings add the interpreter's lock,
  which the library takes while it holds its own.
* **Failure in the middle.** Handles are opened, and values of file entries
  made, in many stages; any may fail, one `on_error` block must free exactly what
  was made, and the next call starts from what is left.
* **Caches.** Nodes and blocks belong to caches that evict them; pointers to
  them are used after further insertions. What a cache or a segment buffer holds
  may be older than an unlock or a failed read.
* **Guesses.** How a sealed volume names its sub nodes is recorded nowhere; it
  is learned from the first node that decodes.
* **Borrowing.** Volumes borrow from containers, attributes from entries,
  snapshots from volumes; who keeps whom alive is up to the caller.
* **Other writers' crashes.** The library reads what an operating system left
  on the disk, whenever that stopped.
* **Damaged input.** Trees may have cycles, tables may have gaps.

## 2. The modules

Ten modules model the code. `ObjectStore` says what an object map promises. Three
of the ten keep what is on the disk with what is assumed of it, the variables and
the properties in a module of their own (`CheckpointState`, `SnapshotState`,
`FileEntryState`), which the component and the MC module of its run both extend.
`FileSystemKeys` has the record types of the file system. `MC...` modules have the
small instances; `MCOpenAndRead`, `MCTrees` and `MCFiles` put several components
together, with the disks and files of `MCDataStream`, `MCSnapshot`, `MCFileEntry`
and `MCFileSystemBTree`. `...Proofs` modules hold theorems. A
definition marked "Fault" is a plausible bug in the definition that follows it;
`PROJECT.json` says which property each one breaks.

### Volume

Models `libfsapfs_volume.c` with the parts of the key bag, encryption and file
system code that decide whether a volume can be read.

* `owned` is the set of pointers of `libfsapfs_internal_volume_t` that are not
  NULL. `phase` is the stage of `open_read`; each stage is an action that may
  succeed or fail with some of its parts allocated, then `OnError` and `Free`
  run. No other thread has the handle before it is open.
* A call on the open handle is three steps, `Call`, `GrabForRead` or
  `GrabForWrite`, and the operation's own action, which ends with releasing the
  lock the way the code does. What happens while the lock is held is one step:
  for a writer nobody can see what is in between, and readers change nothing.
* `disk` is what the volume's blocks hold: flags, the two key bags, key
  encrypted keys with their secrets, the snapshots, the root. Nothing is assumed
  of encrypted volumes: the container may have no key bag, a locked one, or one
  that does not name the volume, and the code then goes on without one. A password is a
  text with the number of NUL characters that are kept with it, which is what
  the UTF-8 and the UTF-16 setters differ in.
* `rootBlock` is the block of the file system's root node in the data block
  cache. Decrypting with a context that has no keys yet gives an error or
  garbage, depending on the cipher's implementation: `KeylessCrypt`.

### ObjectMapBTree and ObjectStore

Models `libfsapfs_object_map_btree.c`. A map is a set of nodes with sorted
entries; keys are (object, transaction) pairs. `heap` gives the block whose node
is at each address in memory and `cache` the addresses the node cache owns, so
that eviction, replacement and re-use of memory are visible. A descriptor that is
found may fail to be read (`Describe`). A look-up takes a
step for each access to the cache (hit, miss, read, insert, fetch) and for each
node it searches; threads interleave between any two. `Exclusive` says whether
the caller's lock is held for writing: the volume holds its own so, the container
for reading only, and both are checked. `MaxDepth` is the recursion limit. Which
node is evicted is left open, which covers whatever the cache chooses.

`ObjectStore` is the promise: asked for (o, x), answer in one step with the
newest version of o not newer than x, with none, or with an error.
`ImplementsStore` is refinement with nodes, cache and lock hidden.

### Checkpoint

Models the scan in `libfsapfs_internal_container_open_read`. The actions
`WriteMap`, `WriteAnotherMap`, `WriteSuperblock`, `WriteZero` and `Crash` stand
for the operating system and are not code of this repository: they generate the
areas that a ring of checkpoints, wrapped and interrupted anywhere, can hold.
The rest is the code: start from the superblock in block zero, look at each
block of the area (and the one after it, as the code's `<=` does), keep the
newest map and the newest superblock, then read the map.

### Container

Models `libfsapfs_container.c`: both ways of opening, with the file IO handle
that the library creates or the application passes, opened already or not; the
stages of `open_read` with a failure at any of them and the two layers of error
handling around it; the two locked sections that end opening; the queries with
what they check before they take the lock; close, free and signal_abort.
Opening does not overlap other calls on the handle, closing may.

### Snapshot

Models the walk of the snapshot metadata tree when a volume is opened, the array
of metadata it gives and the snapshot handle. `cached` holds the blocks of the
nodes in the node cache, `walk.todo` the entries of branches that are still to be
visited and the branch each is of: the pointers that the C recursion has on its
stack. A full cache frees some node, which may be a branch that the walk still
holds (`UseFreed`: what follows is undefined, and taken to end the program). A node
that is in the cache is used as it is, without the check that it is a sub node.
The root is put into the cache under its
block number and asked for under its identifier, as in the code, which is why a
translated root gives no snapshots. A disk says with `cuts` which part of the
content each node holds, and `ContentAssumption` what a tree that a file system
wrote looks like: the leaves hold the content in order, and a branch shares its
part out among its entries. Damage makes nodes and records unreadable.

### FileSystemBTree

Models look-ups by identifier, the three enumerations (directory entries,
attributes, extents) and look-ups by UTF-8 and UTF-16 path. A call takes a step
for each node that is read, and any read may fail. Keys are compared as in the
code, by identifier, type and, for directory records, hash and name, where a
branch is compared with case and a leaf without; a path of one byte or 16-bit unit
leads to where it starts; names are
sequences of characters of a small alphabet with tables for folding, NFD and the
bytes in UTF-8. `encoding` is what was learned of `branch_child_oid_encoding`;
each branch entry gives one or two candidates, of which one beyond `MaxIdentifier`
is an error (the check for overflow), and a candidate counts when a node of the right
level is there. `volume.content` is the sequence of records the tree
was cut from, so that `LookupsAreExact` compares with something the model did not
compute. The node cache only saves reads: as every subset of reads may fail, it
adds no behaviour.

### FileEntry

Models a file entry and an extended attribute of it: each value that is read on
first use is `None` or `Some(value)`, as the C field is NULL or set; each getter is
an action with a set `bad` of what cannot be read during it, and leaves what its
`on_error` leaves. Extents, streams and bytes are names for what they hold; what
reading through them gives is `DataStream`'s.

### DataStream

Models reading: the sizes of extents worked out from their neighbours, sparse
ranges, the index of sealed extents and how it is built node by node, the stream
of segments, and compressed blocks with their table, the segment buffer and the
index of the block it holds. Every method of compression reads the stored data when
its offsets are asked for first, that of zeros too, and data without a table may be
one unit larger than a block and no more. Offsets count blocks, and what a read returns is
which block with which tweak. Two handles share the arrays and the index.

### Mount

Models `fsapfsmount`: main, the mount handle, and every FUSE callback as the
sequence of library calls it makes, each of which may fail; `entries` counts the
file entries the library has given out, and `list_offset` is how much of the
buffer of listxattr is filled. Names are sequences of characters, escaped and
unescaped character by character because a property is about that conversion. The
characters are the ones the conversion tells apart and any `Others`; the digits of
an escape count as one character. FUSE runs single threaded (`fuse_loop`). A name
may have a separator, which is shown as `\x2f` and turned back into a separator
before the look-up splits the path. Opening for writing is refused, and an
attribute larger than `MaxInt` cannot be read.

### PythonBindings

Models the Python objects with their counts and parents, the library objects
they wrap and what each borrows from, the interpreter's lock, each library
object's lock and that of the file IO handle. A method takes the interpreter,
gives it up, waits for the library's lock, works, comes back into Python for each
read of the file-like object (a seek and a read), and takes the interpreter again
for the result. A second `open_file_object` is refused and frees the file IO handle
of the container, after which `opened` is "dangling": what the library does with it
is undefined, and the model goes on as if the memory were still good. When a count reaches zero the deallocation runs, in the library
too, and lets go of the parent.

## 3. How the modules compose

`ObjectMapBTree` refines `ObjectStore`, and `Volume`, `Container`, `Snapshot` and
`FileSystemBTree` use an object map only as the store does (found, not found,
error). `Container` takes the scan of `Checkpoint` as one stage that succeeds or
fails, and opening a volume (`Volume`) as part of `GetVolumeByIndex`. `Volume`
takes the walk of `Snapshot` as a stage whose result is the array of snapshots.
`FileEntry` asks `FileSystemBTree` for exactly the records of an identifier, which
is what `LookupsAreExact` gives, and leaves bytes to `DataStream`. `Mount` and
`PythonBindings` use the library through results of calls that may fail;
`PythonBindings` has the borrowing between container, volume, entry and
attribute.

## 4. What TLC checks

Every property is preceded in its module by what it says of the code.

Components that share no state are checked in one run: a variable `component` says
whose behaviour it is, and the others stay in an initial state. A run of this kind
has the states of its components one after the other, not their product, and the
properties are the components' own: those of a module that the MC module extends, or
of an instance, which the MC module gives a name.

| Run | Shows |
|---|---|
| VolumeUnlock | Two threads, fifteen volumes, three calls in any interleaving, snapshot indexes checked by the caller. Everything is given back whichever stage fails (`NothingLeftBehind`); a volume whose key bag can be found is unlocked only with its keys (`KeyBagKeepsLocked`); answers come from plain text only (`AnswersComeFromPlaintext`); every lock is released (`LockHeldOnlyInside`); an open volume is not locked again (`StaysUnlocked`); unlock refuses only when no key encrypted key opens (`RefusalIsHonest`). 3.2 million states. |
| OpenAndRead | *Container*: six containers, two threads, three calls, fairness; close may overlap queries: `AllOrNothing`, `HandlesGivenBack`, `LockHeldInsideOnly`, `EveryCallReturns`. *Checkpoint*: six checkpoints in a ring of five blocks, a crash between any two writes or in the middle of one. Opening succeeds when no block is torn (`CrashDoesNoHarm`), and if it succeeds it is at the newest complete checkpoint (`OpensAtNewestCheckpoint`) with a map that is not older (`MapIsNotOlder`). The block after the area, which the scan takes in, is no part of a checkpoint, or a map or a superblock that an older, larger area left there: each property says which of these it allows. *DataStream*: two handles on embedded, extent, sparse, sealed and compressed data, every offset and size, failures in between: `ReadsAreRight` for files without holes and damaged blocks, and for all files `ErrorsHaveCauses`, `ShortReadsAreAtTheEnd`, `EveryReadEnds`. 228,000 states. |
| Trees | *ObjectMapBTree* under a lock for writing: every layout of every content of 2 objects x 2 transactions over one to three levels, every target with identifiers 0 to 3, a cycle, an empty branch and a bad root; a cache of one node. `LookupIsSnapshotRead`, `EveryLookupReturns`, and the refinement `ImplementsStore`. Under a lock for reading, two threads: no node leaks, no block is cached twice (`SharedNodesAreOwned`, which is `NodesAreOwned` of that instance). *Snapshot*: trees of one to three levels, damaged, looping, larger than the cache or with a translated root: all snapshots or none (`AllSnapshotsOrNone`), the walk loses no node before the cache is full (`HeldUntilFull`), opening ends (`OpenEnds`). 383,000 states. |
| Files | *FileSystemBTree*: trees of one to three levels, cut into leaves in every way, sealed and not, with both encodings, damage and reads that fail: look-ups give exactly what the tree holds or an error with a cause (`LookupsAreExact`), paths lead to the file they name, one of one unit to where it starts, and to no other (`PathsLeadNowhereElse`), and what is learned about sub nodes is right (`EncodingIsRight`). *FileEntry*: any sequence of calls on an entry and an attribute of 22 files, any read failing at any call: what is kept is whole (`ValuesAreWhole`), what a call answers depends on the file system alone (`AnswersDoNotDependOnHistory`), and attributes are those asked for (`AttributeIsTheOneAskedFor`). *Mount*: two images, every option, two handles, any library call failing: no file entry is lost or freed twice (`EntriesAreHeld`), listed names without separator open (`PlainNamesResolve`), answers are complete (`AnswersAreRight`) or have a cause (`ErrorsHaveCauses`). 746,000 states. |
| Python | Two threads on a container read through a file-like object: library objects outlive what uses them, and so does the file IO handle but for a second open (`OnlyReopeningFreesWhatIsUsed`), counts are right (`ReferencesAreCounted`), iteration neither skips nor repeats (`IterationIsExact`), reads are where the library asked (`ReadsAreWhereAsked`) and no threads wait for each other's locks (`CallsGoOn`). 1.2 million states. |

Deadlock is not checked where the system may stop: calls are bounded, an
application need not make any, a program ends when it follows a NULL or freed
pointer, and fsapfsmount ends when it cannot mount. Python's threads always go on,
and `CallsGoOn` says that none of them waits for ever.

### Where the code disagrees with what it says

Seven runs end in a counterexample. Each has one property that says what a comment
or a test of the repository says; `PROJECT.json` quotes the lines. Where a run above
has a property about the same code, it says what does hold.

| Run | Property | What happens | What holds |
|---|---|---|---|
| VolumeSnapshotIndex | `EveryCallReturns` | `get_snapshot_by_index` with an index outside the array returns with the read lock held (`volume.c:3624`), and the next writer waits for ever | `LockHeldOnlyInside`, for indexes that were checked |
| VolumeKeys | `UnlockedHasKeys` | an encrypted volume whose key bag is not found says that it is not locked and has no keys: open_read clears `is_locked` without one (`volume.c:552-577`), and so does unlock (`:1293`) | `KeyBagKeepsLocked` |
| ObjectMapShared | `NoFreedNodeIsUsed` | a look-up under the container's lock for reading (`container.c:2265`) searches a node that another one evicted | `NodesAreOwned`, for any lock |
| FileSystemPaths | `PathsResolve` | a path of one byte leads to the directory it starts from (`file_system_btree.c:6085`); a name in another case is missed when a branch is compared with case (`:2174`) | `PathsLeadNowhereElse` |
| SnapshotRoot | `SnapshotsAreAllOrNone` | a root that is translated is cached under another number than it is asked for (`snapshot_metadata_tree.c:698`, `:719`), and the volume has no snapshots | `AllSnapshotsOrNone` |
| MountSeparator | `ListedNamesResolve` | a name with a separator is listed escaped, and the path is cut where it is turned back (`mount_path_string.c:583`) | `PlainNamesResolve` |
| PythonReopen | `UsesAreLive` | a second `open_file_object` frees the file IO handle the library uses (`pyfsapfs_container.c:704`, `:758`), in reads and in the close that the test makes next | `OnlyReopeningFreesWhatIsUsed` |

### Also seen in the code

The models do what the code does here too, or name the condition that leaves it
out; the properties are stated so that they hold, and say so.

* Volume and container: the UTF-16 password setters store the end-of-string
  character, so that the right password is refused (`volume.c:2325`); a volume
  after an empty slot has no index (`container_superblock.c:396`); the abort flag
  is read by nothing (`container.c:264`); `get_number_of_volumes` and
  `get_volume_by_index` check the superblock before they take the lock
  (`UseMissingSuperblock`); the scan's `<=` takes in the block after the area.
* File system B-tree: a node of the right level at the other encoding's identifier teaches the wrong encoding
  (`file_system_btree.c:582`); the by_name functions fail when they find something, but nothing calls
  them (`:5836`).
* Data: a hole is covered by the extent before it (`file_entry.c:4381`), and a
  compressed block that fails to decompress leaves its bytes in the segment of the
  block before it (`compressed_data_handle.c:1172`): both are `Whole` in
  `ReadsAreRight`; a failed build of the index of sealed extents keeps its entries
  for the next try (`sealed_extent_tree.c:666`); the block offset within compressed
  data has 32 bits (`:1222`).
* File entry: when collecting attributes fails, three pointers into the freed
  array stay until the next call sets them (`file_entry.c:2031`); a short read of
  the header loses its stream (`:5277`).
* Snapshots: a tree of more nodes than the cache has entries may lose a branch that
  the walk holds (`snapshot_metadata_tree.c:1907`, `UseFreed`); block numbers of superblocks are read as 32 bits
  (`snapshot_metadata.c:289`, `Width`); `snapshot_free` does not free the superblock
  (`snapshot.c:209`).
* Mounting: the on_error of getxattr does not free the attribute
  (`mount_fuse.c:842`); an error of a look-up is reported as ENOENT; block devices
  and sockets get two links (`:105`); `-f all` is named in a message and refused.
* Python: closing a container with volumes alive leaves stale pointers; an iterator's index is read and moved on around the library call
  (`pyfsapfs_volumes.c:442`), so that threads must not share it;
  `get_file_entry_by_identifier` raises where its docstring says None
  (`pyfsapfs_volume.c:1013`).

### What the models ask of the application

The library leaves some order of calls to its caller, and the models keep to it:
a handle is opened while no other thread uses it; handles made from another one
are freed first; several handles on one file are read one call at a time, as their
locks do not cover what they share (`DataStream`); a Python container is opened
and closed by a thread that has it to itself, closed when nothing made from it is
left, and an iterator belongs to a thread (the guard of `sequence_iternext`, which
`pyfsapfs_volumes.c:435-449` leaves to the application). A container may be opened
again while it is open.

### Bounds

* Two threads: each property of locks and caches speaks of one thread against
  the others, and the counterexamples need two.
* Volumes: three calls by two threads reach password set, unlock, and look-up
  before and after it; the volumes differ in each condition that `open_read` and
  `unlock` test.
* Object maps: contents within {1, 2} x {1, 2}, targets within {0..3} x {0..3},
  so that targets lie before, between and after all keys; three levels have a
  leaf that is not under the root's first child; a cache of one node evicts on
  every level. `MaxDepth = 3` is above the depth of the well-formed maps and is
  reached by the cycle; only its being finite matters.
* Checkpoints: a ring of five blocks wraps more than once in six checkpoints.
* Containers: three calls allow a failed open, an open and a close, or an open
  and a query that a close overlaps.
* File system: up to three leaves, so that the records of one identifier can
  begin in one leaf, fill a second and end in a third; names that differ in case,
  in decomposition and in order of hash and name. No tree has a loop: a sub node
  counts only at the level below its branch, which leaves no room for one (the
  object maps and snapshot metadata trees, where levels are not checked, have them).
  `MaxIdentifier` is one less than what some branch entry gives.
* File entries: 22 files with every kind of attribute the code treats
  specially, also missing, empty, too short or with a name that is not UTF-8. The
  state of an entry is finite, so that sequences of calls are not bounded.
* Data: compressed blocks of two units and reads of up to four from offsets up to
  four cross at least two boundaries and pass the end.
* Snapshots: a cache of three nodes, and trees of fewer, as many and more nodes. The
  Width of block
  numbers, 64 here, is above all blocks used.
* Mounting: two handles, so that one is open while a callback fails; sizes below,
  at and above what is needed; an attribute larger than an integer; a name with a
  separator, beside a directory and a file that it may be taken for.
* Object maps under a lock for reading: three addresses for two threads, so that
  memory is used again at once, and five where it need not be (ObjectMapShared).
* Python: two threads, two items for each sequence, one read in a call.

### Fairness

Weak fairness of each thread's own steps, lock acquisition included: a thread
inside the library is not suspended for ever, and gets a lock that stays free.
Calls are not fair: an application need not make any, so handles may be left
alone and, where calls are bounded, TLC's deadlock check is off. In `Snapshot` the
walk is one call that goes on until it ends, and in `DataStream` so is a read; the
failure of a read is never required. `CallsGoOn` states the absence of circular
waiting as an invariant, as Python's scheduler promises a thread little more.

## 5. What is proved

TLAPS proves these for all values of the constants, from the assumptions named
in the modules (`ThreadsAssumption`, `DisksAssumption`, ...), which TLC
evaluates on every instance. Three of them say only that there are finitely many
of what is counted (`FiniteAssumption` of `PythonBindings`: threads and Python
objects) or that numbers are numbers (`ImagesAssumption` and `SizesAssumption` of
`Mount`: identifiers, sizes of attributes and of buffers). `NamesAssumption` of
`Mount` and `ContentAssumption` of `SnapshotState` say what a file system writes: a
link has a target, the names in a directory differ, and the snapshot metadata tree
is in order. TLC checked each inductive invariant on the
instance of its run before it was proved.

**VolumeProofs.**

* `TypeCorrect`: `TypeOK`. It needs to know that no thread is in a call unless
  the volume is open, and that a thread that will release the lock holds it
  (`IdleUnlessOpen`, `ReadersHold`): releasing takes one off a natural number.
* `KeyBagsKeepLocked`, `VolumesStayUnlocked`, `AnswersAreFromPlaintext`:
  from `KeyInv`. `KeysFollow` ties `is_locked`, the keys, and the parts `open_read`
  has made stage by stage, for volumes whose key bag the container can find; of the
  others it says nothing, as they are unlocked without keys (run VolumeKeys); `PlainNeedsKeys` says that a plain root block in the
  cache was decrypted with keys; `AnswersArePlain` carries it to the results,
  which are set in one call and looked at in later states.
* `NothingIsLeftBehind`: from `ObjectMapIsLocal`, that the object map, which
  `close` does not free, is only allocated between the stage that reads it and
  `OnError`.
* `RefusalsAreHonest`: an action property of one step, which the lemma
  `NoKeyOpens` gives for every key bag. `NoResultInside` says that the 0 which
  a step puts into `result` is that step's own, so that the property is about
  `unlock` and no other operation.
* `LockIsHeldOnlyInside`, assuming `CheckedIndexes`: `IndexesStayGood` says that
  an index that was checked is still good when it is used, as the snapshots of
  an open volume do not change. Without the assumption the theorem is false
  (run VolumeSnapshotIndex).

**ObjectMapBTreeProofs.**

* `TypeCorrect`: with `PointersOK`, that a thread that inserts or searches has a
  pointer.
* `LookupsAreSnapshotReads`, assuming `Exclusive`, that the caller holds its lock for
  writing, as the volume does: `OwnInv` says that at most one thread is in a look-up,
  that every cached node is live, and that the node being inserted is not in the
  cache already, so that what is searched is the node asked for. Without the
  assumption it is not (run ObjectMapShared). `ReadInv` says of the block a
  look-up is at that the target lies in its span, and that every key of the map
  up to the target is at most some key under this block up to the target. Going
  down a branch keeps this, because a branch's keys are keys of the map; in a
  leaf it gives that the entry before the target is the greatest key of the
  whole map that is not beyond the target. It holds for trees of any depth
  and any shape that `WellFormed` allows, and for any eviction.
* `BTreeImplementsStore`, assuming `Exclusive` and that all maps are well
  formed: initial states map to initial states, and each step to a step of
  `ObjectStore` or to none.
* `NodesStayOwned`, which assumes no lock: `OwnedInv` adds that a thread about to
  insert a node has one that is not cached yet (`InsertsNewNode`) and that no
  other thread is about to insert (`InsertsAreTheirOwn`). So what goes wrong
  without the lock for writing is the use of nodes that were freed, never the
  cache itself as the models take its operations to be atomic.

**ContainerProofs.**

* `TypeCorrect` and `LockIsHeldInsideOnly`: with `CallsFit`, that a thread is
  only at stages of the kind of call it makes.
* `ContainerIsAllOrNothing`: `AllOrNothing` says nothing while a container is
  being opened, so it is not inductive. `PartsInv` adds `PartsFit`, which gives
  the parts that are allocated at each stage of opening, and `OpenersAlone`,
  that nothing but a signal to abort runs beside an open: this is how an
  application must use the handle, as `open_read` takes no lock. The theorem
  then covers queries and closes that overlap in any way.
* `HandlesAreGivenBack`: `HandlesInv` keeps account of the file IO handles
  through opening by name and by handle; for the latter, that the application's
  handle would be as the application left it once what was opened in the library
  is closed (`Restored`).

**CheckpointProofs.**

* `TypeCorrect`: with `StagesFit`, that a map was found when one is read.
* `NewestCheckpointIsOpened`: `NewestBefore(index)` says that the scan keeps the
  newest whole superblock of the first block and of the blocks before `index`;
  at the end of the scan that is the whole area and the block after it.
  `DiskFits`, about what the operating system writes, gives that a superblock is
  of a transaction that was begun.
* `MapsAreNotOlder`: the scan keeps the newest map and the newest superblock
  apart, and only what the ring can hold relates them. `RingFits` says what that
  is while a checkpoint is written, between two and after a crash: the last
  superblock is followed, going round the ring, by maps of the next transaction
  only (`CheckpointBegun`), so that one is overwritten no earlier than the next is
  there, and a crash leaves a checkpoint, a torn superblock or a torn map
  (`CheckpointKept`, `SuperblockTorn`, `MapTorn`). `MapScanFits` is `ScanFits` for
  maps; a torn superblock ends the scan, a torn map fails the reading of it.
* `CrashesDoNoHarm`: from the same two, and that a scan only fails at a torn
  block or without a map.

**SnapshotProofs.**

* `TypeCorrect`: the cache keeps to its size and goes with the tree, the walk
  keeps to the recursion limit. `CacheOK` adds that nothing is cached before the
  walk starts and that there is a tree during it, `WalkOK` that everything still
  to be done is an entry of a node of this disk, at a depth within the limit.
* `NodesAreHeldUntilFull`: every node of the walk is in the cache or the cache is
  full, whatever is evicted; and as what is cached are nodes of the tree, a held node
  that is missing from a full cache is one more than the cache has room for.
* `AllOrNone`: `AllSnapshotsOrNone` speaks of the end of the walk only.
  `Progress` says what it is in between: what is collected is the first part of
  the content, the node that is read holds the part after it, and the entries of
  branches that are still to be done hold the rest, each from where the one
  before it ends (`Collected`, `Continues`). It does so for damaged trees, too, as
  a walk that comes to its end has read every node. `Descends` says that in a tree
  without damage the level goes down as the depth goes up, so that the recursion
  limit is no reason to fail. Neither is about the cache: it need not hold the tree.

**MountProofs.**

* `EntriesHeld`: `EntriesAreHeld` for every container and any failure. `CallOK`
  adds that a callback that still looks up its path holds nothing, and that the
  handle it opens stays free until it is set; the lemmas `OwnsOneMore`,
  `OwnsAsMany` and `OwnsNothing` count what a step gets and frees.
* `AnswersRight`: the answer is given many library calls after the path was looked
  up. `Knows` says what the callback has learned by each of its stages: that
  `found` is the file entry at the path, that the first `index` attributes, or sub
  file entries, are what `out` lists, and how many are left. That a listing is
  complete and shows nothing twice needs the lemma `Ranks`: asking for sub file
  entry 0, 1, ... goes through all of them, once each, by the pigeonhole
  principle. `FoundIsThere` says that a path leads to an entry of the volume, for
  paths of any length. That the size told is the size of the list needs
  `list_offset` in `Knows`: it is the size of the list of the names so far.
* `ErrorsAreCaused`: `ErrorsHaveCauses`, from the same invariant. An attribute that
  does not fit shows that the list as a whole does not, as the size of a list of
  some of the names is at most that of all (`SizeOfPart`, `SizeOfOneMore`).
* `NamesResolve`: `PlainNamesResolve` for names and paths of any length.
  `NamesAreShown` carries to the answer that readdir shows each name as
  `mount_path_string_copy_from_file_entry_path` makes it. The rest is about
  operators: turning back what is shown gives the name (`CopyOfShown`), in the
  middle of a path as well, because between two characters that are not part of
  one escape no escape is open (`Closed`, `CopyOfPathIn`); a name without
  separator is one segment (`SegmentOfName`), so that the look-up of the whole
  path is that of the name in the directory (`LookUpIn`), which has one entry of
  that name (`NamedIsOne`).

The operators that go through a path or a list are recursive functions. The lemma
`Induct` is induction for a set of natural numbers, from the library's fact that
a nonempty set of them has a least element; `RunExists` gives the function that a
start and steps define, so that the recursive definitions are what they say
(`CopyRuns`, `SegmentRuns`, `ShowRuns`, `SizeRuns`), and `SeqInduct` is induction
over sequences. The proof of `ErrorsHaveCauses` found that it was stated with a
`CASE` of overlapping guards, which has no definite meaning; it is a disjunction
now, of the errors and their causes.

**FileEntryProofs**, from `AttributesAssumption`, that the attributes of a file
are a sequence of attributes.

* `ValuesStayWhole`: `ValuesAreWhole` says too little of a value that is not there.
  `Kept` adds to it where the three pointers to special attributes lead
  (`PointersFit`): to the last attribute of their name once the attributes are
  collected, nowhere before that, and anywhere only when a name is malformed, as
  then the attributes never are collected and nothing is made from them; and what
  goes with what (`ValuesFit`): header, link, size and stream need the attributes,
  the size comes with the header. One lemma for each value (`AttributesMade`,
  `LinkMade`, `SizeMade`, `StreamMade`, ...) says that making it, whether it fails
  or not, keeps an entry whole, and what it is when made.
* `HistoryDoesNotMatter`: `AnswersDoNotDependOnHistory`, from the same lemmas, which
  also give the causes of a failure. The proof found a file for which the property
  was false: one compressed in a resource fork whose attribute has neither flag,
  which cannot be read although every block can. `HasDamage` now names it, and
  the Files run has such a file.
* `AttributesAreThoseAskedFor`: `AttributeIsTheOneAskedFor`. `AttributeFits` says that
  the entry of an extended attribute has its attributes, so that the stream is made
  from the values asked for and never from freed ones.

**PythonBindingsProofs.**

* `CountsAreRight`: `ReferencesAreCounted` is about states between steps, and a
  step of a method drops or takes several references, so `RefInv` is stated of
  any objects, counts and calls (`Good`), with one object that may have a
  reference too many: the proof goes through the moments within a step. `Good`
  says of an object that is there that its parent is there and of the right kind,
  that its count is the application's references, its children and the calls of
  its methods, that one thread frees it exactly when that is 0, and what its
  library object borrows from; of a call, that its object is there. The lemmas
  under "Counting" give what one more or one less of each does to the count; the
  deallocation of a child, which drops a reference to its parent and may go on
  with that, is a step to the same invariant.
* `OnlyReopeningFrees`: from `RefInv`, along the chain of parents, and
  `OpenInv`: opening and closing are alone, a closed container has nothing made
  from it, and a thread that reads or closes has the file IO handle, which nothing
  takes away but a close and a second `open_file_object`.
* `ReadsStayWhereAsked`: `ReadInv` says that a thread between the seek and the
  read has the lock of the file IO handle and that the position is its target.
* `IterationsAreExact`: `IterInv` adds that a call of `iternext` has the item that
  comes next and that no other thread iterates over the same sequence.

**Only model-checked.** Liveness (`EveryCallReturns`, `EveryLookupReturns`,
`EveryReadEnds`, `OpenEnds`) and `CallsGoOn`: the prover reaches neither liveness
under fairness nor `ENABLED`. What is left of the safety properties is about the
searches in the file system B-tree (`LookupsAreExact`,
`PathsLeadNowhereElse`, `EncodingIsRight`) and about the bytes of data streams (`ReadsAreRight`,
`ShortReadsAreAtTheEnd`, `ErrorsHaveCauses` of `DataStream`): induction over the
entries of a node, the blocks of a compressed file and the extents of a sparse one,
each with its order, which stays with TLC. They also depend on the files and volumes
of the runs: extents that do not overlap and reach the size of the file, a sealed
extent within one entry of its tree, a tree whose keys are in order, and no node of
the same level at the identifiers of the other encoding. A theorem for all files
would have to state these conditions first; the code checks only some of them.

## 6. What is not modelled, and the plan

Not modelled:

* the decoders (bit stream, Huffman, DEFLATE, zbitmap) and checksums: functions
  of byte strings far longer than what TLC can enumerate, without state that
  outlives a call; `DataStream` takes their result, or their failure, as given;
* parsers of fixed layouts beyond whether they succeed and what they yield;
  ciphers, key derivation and the Unicode tables;
* what only debug builds read (space manager, reaper, Fusion and extent reference
  trees), debug output, error objects and their messages;
* failures of the lock primitives and of `free` functions, and of memory
  allocation other than as a failure of the stage it is in;
* fsapfsinfo, which prints what the library returns, and the Dokan callbacks,
  which repeat the FUSE ones;
* the by_name functions of the file system B-tree and the look-up of one snapshot
  by identifier, which nothing calls.

Every safety property is proved except the ones that the end of section 5 leaves to
TLC, with the reason.
