------------------------------ MODULE Container ------------------------------
(***************************************************************************)
(* The container handle of libfsapfs (libfsapfs_container.c): opening a    *)
(* container by name or through a file IO handle of the application, the   *)
(* queries on it, closing and freeing it, and which of this happens under  *)
(* its read/write lock.                                                    *)
(*                                                                         *)
(* Only the last steps of opening take the lock: the container is read     *)
(* without it.  Closing takes it, but what the queries check before they   *)
(* take it may have changed once they have it.                             *)
(*                                                                         *)
(* Any read and any allocation while the container is opened may fail.     *)
(* How the newest checkpoint is found is the module Checkpoint, how a      *)
(* volume's superblock is found ObjectMapBTree, and what becomes of the    *)
(* volume handle Volume.                                                   *)
(***************************************************************************)
EXTENDS Integers, FiniteSets, Sequences

CONSTANTS
    Threads,   \* threads that share the container handle
    Disks,     \* the containers that may be opened
    Indexes,   \* volume indexes an application may ask for
    MaxCalls   \* bound on the calls

\* A container: the volume identifiers in its superblock (0 in a slot without
\* a volume), its key bag, whether it is one half of a Fusion drive, and
\* whether its superblock names an object map.
Disk == [slots : Seq(Nat), keyBag : {"none", "locked", "readable"},
         fusion : BOOLEAN, objectMap : BOOLEAN]

ASSUME ThreadsAssumption == IsFiniteSet(Threads) /\ Threads # {}
ASSUME DisksAssumption == Disks \subseteq Disk
ASSUME IndexesAssumption == Indexes \subseteq Int
ASSUME MaxCallsAssumption == MaxCalls \in Nat

\* The pointers of libfsapfs_internal_container_t that open_read sets, and its
\* own locals.
Fields == {"superblock", "checkpoint_map", "data_block_vector",
           "object_map_btree", "key_bag"}
Locals == {"object", "container_superblock", "container_data_handle",
           "object_map"}
Parts == Fields \cup Locals

OpenOps == {"open", "open_file_io_handle"}
CheckedOps == {"get_size", "get_number_of_volumes", "get_volume_by_index"}
ReadOps == CheckedOps \cup {"get_identifier", "is_locked"}
Ops == OpenOps \cup ReadOps \cup {"close", "signal_abort"}

NoCall == [op |-> "none", index |-> 0, write |-> FALSE]

Calls ==
    [op : OpenOps, index : {0}, write : BOOLEAN]
    \cup [op : Ops \ (OpenOps \cup {"get_volume_by_index"}), index : {0},
          write : {FALSE}]
    \cup [op : {"get_volume_by_index"}, index : Indexes, write : {FALSE}]

\* The stages of opening: the file IO handle, those of open_read, and storing
\* the file IO handle and the flag that the library made it.
OpenStages == {"open_handle", "read_superblock", "scan", "read_map",
               "build_vector", "read_object_map", "read_key_bag", "on_error",
               "unwind", "store_handle", "store_created"}

NoResult == -2

VARIABLES
    disk,
    owned,         \* the parts that are allocated
    handle,        \* file_io_handle: "none", "own" or "application"
    openedInLibrary, createdInLibrary, \* the flags that go with it
    openedHere,    \* file_io_handle_opened_in_library, the local of opening
    ownHandle,     \* the handle that open creates: "none", "closed" or "open"
    appHandle,     \* whether the application's handle is open
    appOpened,     \* whether the application opened it
    containerSize, \* whether io_handle->container_size is set
    abort,         \* io_handle->abort
    readers,       \* whether each thread holds the lock for reading
    pc, call, result, calls

handleVars == <<handle, openedInLibrary, createdInLibrary, openedHere,
                ownHandle, appHandle, appOpened>>
ioVars == <<containerSize, abort>>
vars == <<disk, owned, handleVars, ioVars, readers, pc, call, result, calls>>

TypeOK ==
    /\ disk \in Disks
    /\ owned \subseteq Parts
    /\ handle \in {"none", "own", "application"}
    /\ openedInLibrary \in BOOLEAN /\ createdInLibrary \in BOOLEAN
    /\ openedHere \in BOOLEAN
    /\ ownHandle \in {"none", "closed", "open"}
    /\ appHandle \in BOOLEAN /\ appOpened \in BOOLEAN
    /\ containerSize \in BOOLEAN /\ abort \in BOOLEAN
    /\ readers \in [Threads -> 0 .. 1]
    /\ pc \in [Threads -> OpenStages \cup {"idle", "check", "waiting", "inside",
                                          "crashed"}]
    /\ call \in [Threads -> Calls \cup {NoCall}]
    /\ result \in [Threads -> {-1, 0, 1, NoResult}]
    /\ calls \in 0 .. MaxCalls

\* libfsapfs_container_initialize: a zeroed structure with an IO handle.
Init ==
    /\ disk \in Disks
    /\ owned = {}
    /\ handle = "none"
    /\ openedInLibrary = FALSE /\ createdInLibrary = FALSE
    /\ openedHere = FALSE
    /\ ownHandle = "none"
    /\ appOpened \in BOOLEAN
    /\ appHandle = appOpened
    /\ containerSize = FALSE
    /\ abort = FALSE
    /\ readers = [t \in Threads |-> 0]
    /\ pc = [t \in Threads |-> "idle"]
    /\ call = [t \in Threads |-> NoCall]
    /\ result = [t \in Threads |-> NoResult]
    /\ calls = 0

-----------------------------------------------------------------------------
(***************************************************************************)
(* Calls.  An application shares the handle once it is open: opening does  *)
(* not overlap another call, but closing may.  Aborting is meant to be     *)
(* signalled while another call runs.                                      *)
(***************************************************************************)

Active(ops) == {t \in Threads : pc[t] # "idle" /\ call[t].op \in ops}

Allowed(c) ==
    c.op # "signal_abort" =>
        /\ Active(OpenOps) = {}
        /\ c.op \in OpenOps => Active(Ops \ {"signal_abort"}) = {}

Goto(t, where) == pc' = [pc EXCEPT ![t] = where]

Return(t, r) ==
    /\ Goto(t, "idle")
    /\ result' = [result EXCEPT ![t] = r]

Call(t) ==
    /\ pc[t] = "idle"
    /\ calls < MaxCalls
    /\ \E c \in Calls : Allowed(c) /\ call' = [call EXCEPT ![t] = c]
    /\ calls' = calls + 1
    /\ Goto(t, "check")
    /\ result' = [result EXCEPT ![t] = NoResult]
    /\ UNCHANGED <<disk, owned, handleVars, ioVars, readers>>

Checking(t, ops) == pc[t] = "check" /\ call[t].op \in ops

\* libfsapfs_container_signal_abort takes no lock.
SignalAbort(t) ==
    /\ Checking(t, {"signal_abort"})
    /\ abort' = TRUE
    /\ Return(t, 1)
    /\ UNCHANGED <<disk, owned, handleVars, containerSize, readers, call, calls>>

-----------------------------------------------------------------------------
(***************************************************************************)
(* Opening.                                                                *)
(***************************************************************************)

\* The checks of libfsapfs_container_open and _open_file_io_handle: writing is
\* not supported, and a container that is open is not opened again.  open has
\* created its file IO handle by the time the latter is seen, and frees it.
CheckOpen(t) ==
    /\ Checking(t, OpenOps)
    /\ \/ /\ call[t].write \/ handle # "none"
          /\ Return(t, -1)
          /\ UNCHANGED ownHandle
       \/ /\ ~call[t].write /\ handle = "none"
          /\ ownHandle' = IF call[t].op = "open" THEN "closed" ELSE ownHandle
          /\ Goto(t, "open_handle")
          /\ UNCHANGED result
       \/ /\ call[t].op = "open"
          /\ Return(t, -1)
          /\ UNCHANGED ownHandle
    /\ UNCHANGED <<disk, owned, handle, openedInLibrary, createdInLibrary,
                   openedHere, appHandle, appOpened, ioVars, readers, call,
                   calls>>

\* A handle that is not open is opened, and the library remembers that.
OpenHandle(t) ==
    /\ pc[t] = "open_handle"
    /\ LET open == IF call[t].op = "open" THEN FALSE ELSE appHandle
       IN  \/ /\ openedHere' = ~open
              /\ IF call[t].op = "open"
                 THEN ownHandle' = "open" /\ UNCHANGED appHandle
                 ELSE appHandle' = TRUE /\ UNCHANGED ownHandle
              /\ Goto(t, "read_superblock")
           \/ /\ openedHere' = FALSE
              /\ Goto(t, "unwind")
              /\ UNCHANGED <<ownHandle, appHandle>>
    /\ UNCHANGED <<disk, owned, handle, openedInLibrary, createdInLibrary,
                   appOpened, ioVars, readers, call, result, calls>>

\* A stage of libfsapfs_internal_container_open_read: it allocates `parts`,
\* frees `done` and goes on, or fails with some of its parts allocated.
Stage(t, stage, ok, parts, done, leftovers, next) ==
    /\ pc[t] = stage
    /\ \/ /\ ok
          /\ owned' = (owned \cup parts) \ done
          /\ Goto(t, next)
       \/ /\ \E left \in leftovers : owned' = owned \cup left
          /\ Goto(t, "on_error")
    /\ UNCHANGED <<disk, handleVars, abort, readers, call, result, calls>>

\* The superblock in the first block gives the sizes.  A container that has not
\* given everything up is not opened: this error leaves its parts alone.
ReadSuperblock(t) ==
    IF owned \cap Fields # {}
    THEN /\ pc[t] = "read_superblock"
         /\ Goto(t, "unwind")
         /\ UNCHANGED <<disk, owned, handleVars, ioVars, readers, call, result,
                        calls>>
    ELSE /\ Stage(t, "read_superblock", ~disk.fusion, {"superblock"}, {},
                  {{}, {"superblock"}}, "scan")
         /\ \/ containerSize' = TRUE
            \/ pc'[t] = "on_error" /\ UNCHANGED containerSize

\* The scan for the newest checkpoint, which may replace the superblock.
Scan(t) ==
    /\ Stage(t, "scan", TRUE, {"object"}, {"object"},
             {{}, {"object"}, {"object", "container_superblock"}}, "read_map")
    /\ UNCHANGED containerSize

ReadMap(t) ==
    /\ Stage(t, "read_map", TRUE, {"checkpoint_map"}, {},
             {{}, {"checkpoint_map"}}, "build_vector")
    /\ UNCHANGED containerSize

\* The vector takes over the data handle.
BuildVector(t) ==
    /\ Stage(t, "build_vector", TRUE, {"data_block_vector"}, {},
             {{}, {"container_data_handle"}, {"data_block_vector"}},
             "read_object_map")
    /\ UNCHANGED containerSize

ReadObjectMap(t) ==
    /\ Stage(t, "read_object_map", disk.objectMap,
             {"object_map", "object_map_btree"}, {"object_map"},
             {{}, {"object_map"}, {"object_map", "object_map_btree"}},
             "read_key_bag")
    /\ UNCHANGED containerSize

\* A key bag that does not open with the container's identifier is kept, and
\* makes the container locked.
ReadKeyBag(t) ==
    /\ Stage(t, "read_key_bag", TRUE,
             IF disk.keyBag = "none" THEN {} ELSE {"key_bag"}, {},
             IF disk.keyBag = "none" THEN {} ELSE {{}, {"key_bag"}},
             "store_handle")
    /\ UNCHANGED containerSize

\* The on_error part of open_read.
OnError(t) ==
    /\ pc[t] = "on_error"
    /\ owned' = owned \ {"key_bag", "object_map_btree", "object_map",
                         "data_block_vector", "container_data_handle",
                         "checkpoint_map", "container_superblock", "object",
                         "superblock"}
    /\ Goto(t, "unwind")
    /\ UNCHANGED <<disk, handleVars, ioVars, readers, call, result, calls>>

\* Fault: the handle is left open when the container could not be read.
UnwindLeavesOpen(t) ==
    /\ pc[t] = "unwind"
    /\ ownHandle' = IF call[t].op = "open" THEN "none" ELSE ownHandle
    /\ openedHere' = FALSE
    /\ Return(t, -1)
    /\ UNCHANGED <<disk, owned, handle, openedInLibrary, createdInLibrary,
                   appHandle, appOpened, ioVars, readers, call, calls>>

\* The on_error parts of open_file_io_handle and then of open: a handle that
\* was opened here is closed, and one that open created is freed.
Unwind(t) ==
    /\ pc[t] = "unwind"
    /\ ownHandle' = IF call[t].op = "open" THEN "none" ELSE ownHandle
    /\ appHandle' = (appHandle /\ (call[t].op = "open" \/ ~openedHere))
    /\ openedHere' = FALSE
    /\ Return(t, -1)
    /\ UNCHANGED <<disk, owned, handle, openedInLibrary, createdInLibrary,
                   appOpened, ioVars, readers, call, calls>>

\* The lock can be taken for writing.  What is done under it then cannot fail
\* and is one step, from taking the lock to releasing it.
Unlocked == \A t \in Threads : readers[t] = 0

\* The first locked part of opening.
StoreHandle(t) ==
    /\ pc[t] = "store_handle"
    /\ Unlocked
    /\ handle' = IF call[t].op = "open" THEN "own" ELSE "application"
    /\ openedInLibrary' = openedHere
    /\ openedHere' = FALSE
    /\ IF call[t].op = "open"
       THEN Goto(t, "store_created") /\ UNCHANGED result
       ELSE Return(t, 1)
    /\ UNCHANGED <<disk, owned, createdInLibrary, ownHandle, appHandle,
                   appOpened, ioVars, readers, call, calls>>

\* The second one, of open only.
StoreCreated(t) ==
    /\ pc[t] = "store_created"
    /\ Unlocked
    /\ createdInLibrary' = TRUE
    /\ Return(t, 1)
    /\ UNCHANGED <<disk, owned, handle, openedInLibrary, openedHere, ownHandle,
                   appHandle, appOpened, ioVars, readers, call, calls>>

-----------------------------------------------------------------------------
(***************************************************************************)
(* Queries.                                                                *)
(***************************************************************************)

\* container_superblock_read_data counts the slots that are in use.
NumberOfVolumes ==
    Cardinality({i \in DOMAIN disk.slots : disk.slots[i] # 0})

\* What the queries check before they take the lock.
CheckQuery(t) ==
    /\ Checking(t, ReadOps)
    /\ IF \/ call[t].op \in CheckedOps /\ "superblock" \notin owned
          \/ /\ call[t].op = "get_volume_by_index"
             /\ call[t].index \notin 0 .. NumberOfVolumes - 1
       THEN Return(t, -1)
       ELSE Goto(t, "waiting") /\ UNCHANGED result
    /\ UNCHANGED <<disk, owned, handleVars, ioVars, readers, call, calls>>

GrabForRead(t) ==
    /\ pc[t] = "waiting" /\ call[t].op \in ReadOps
    /\ readers' = [readers EXCEPT ![t] = 1]
    /\ Goto(t, "inside")
    /\ UNCHANGED <<disk, owned, handleVars, ioVars, call, result, calls>>

Inside(t, op) == pc[t] = "inside" /\ call[t].op = op

\* The query returns and releases the lock.
ReturnForRead(t, r) ==
    /\ Return(t, r)
    /\ readers' = [readers EXCEPT ![t] = 0]

queryFrame == <<disk, owned, handleVars, ioVars, call, calls>>

GetSize(t) ==
    /\ Inside(t, "get_size")
    /\ ReturnForRead(t, 1)
    /\ UNCHANGED queryFrame

\* Fault: a missing superblock is an error that keeps the lock.
GetIdentifierKeepsLock(t) ==
    /\ Inside(t, "get_identifier")
    /\ IF "superblock" \in owned THEN ReturnForRead(t, 1)
       ELSE Return(t, -1) /\ UNCHANGED readers
    /\ UNCHANGED queryFrame

\* The superblock is checked by the function that copies the identifier.
GetIdentifier(t) ==
    /\ Inside(t, "get_identifier")
    /\ ReturnForRead(t, IF "superblock" \in owned THEN 1 ELSE -1)
    /\ UNCHANGED queryFrame

IsLocked(t) ==
    /\ Inside(t, "is_locked")
    /\ ReturnForRead(t, IF "key_bag" \in owned /\ disk.keyBag = "locked"
                        THEN 1 ELSE 0)
    /\ UNCHANGED queryFrame

GetNumberOfVolumes(t) ==
    /\ Inside(t, "get_number_of_volumes")
    /\ "superblock" \in owned
    /\ ReturnForRead(t, 1)
    /\ UNCHANGED queryFrame

\* Fault: an error leaves without releasing the lock.
GetVolumeByIndexKeepsLock(t) ==
    /\ Inside(t, "get_volume_by_index")
    /\ "superblock" \in owned
    /\ ReturnForRead(t, 1) \/ (Return(t, -1) /\ UNCHANGED readers)
    /\ UNCHANGED queryFrame

\* The slot's identifier is looked up in the object map and the volume opened:
\* either may fail, and 0 is not in the object map.
GetVolumeByIndex(t) ==
    /\ Inside(t, "get_volume_by_index")
    /\ "superblock" \in owned
    /\ \/ ReturnForRead(t, -1)
       \/ /\ disk.slots[call[t].index + 1] # 0
          /\ "object_map_btree" \in owned
          /\ ReturnForRead(t, 1)
    /\ UNCHANGED queryFrame

\* Following the superblock pointer after it was set to NULL ends the program:
\* the thread is taken to be lost.
UseMissingSuperblock(t) ==
    /\ pc[t] = "inside"
    /\ call[t].op \in {"get_number_of_volumes", "get_volume_by_index"}
    /\ "superblock" \notin owned
    /\ Goto(t, "crashed")
    /\ UNCHANGED <<disk, owned, handleVars, ioVars, readers, call, result,
                   calls>>

-----------------------------------------------------------------------------
(***************************************************************************)
(* Closing.                                                                *)
(***************************************************************************)

CheckClose(t) ==
    /\ Checking(t, {"close"})
    /\ IF handle = "none" THEN Return(t, -1)
       ELSE Goto(t, "waiting") /\ UNCHANGED result
    /\ UNCHANGED <<disk, owned, handleVars, ioVars, readers, call, calls>>

\* What closing does to the file IO handle and the IO handle.
CloseHandle ==
    /\ appHandle' = (appHandle /\ ~(handle = "application" /\ openedInLibrary))
    /\ ownHandle' = IF handle # "own" THEN ownHandle
                    ELSE IF createdInLibrary THEN "none"
                    ELSE IF openedInLibrary THEN "closed" ELSE ownHandle
    /\ openedInLibrary' = FALSE
    /\ createdInLibrary' = FALSE
    /\ handle' = "none"
    /\ containerSize' = FALSE
    /\ abort' = FALSE
    /\ UNCHANGED <<openedHere, appOpened>>

\* Fault: closing forgets the checkpoint map.
CloseForgetsMap(t) ==
    /\ pc[t] = "waiting" /\ call[t].op = "close"
    /\ Unlocked
    /\ CloseHandle
    /\ owned' = owned \cap {"checkpoint_map"}
    /\ Return(t, 0)
    /\ UNCHANGED <<disk, readers, call, calls>>

\* libfsapfs_container_close from taking the lock to releasing it.
Close(t) ==
    /\ pc[t] = "waiting" /\ call[t].op = "close"
    /\ Unlocked
    /\ CloseHandle
    /\ owned' = owned \ Fields
    /\ Return(t, 0)
    /\ UNCHANGED <<disk, readers, call, calls>>

\* libfsapfs_container_free, once no thread uses the handle, closes it when it
\* is open.  The application may then make a new one, which starts out the same.
Free ==
    /\ \A t \in Threads : pc[t] = "idle"
    /\ IF handle # "none"
       THEN CloseHandle /\ owned' = owned \ Fields
       ELSE /\ containerSize' = FALSE /\ abort' = FALSE
            /\ UNCHANGED <<owned, handleVars>>
    /\ call' = [t \in Threads |-> NoCall]
    /\ result' = [t \in Threads |-> NoResult]
    /\ UNCHANGED <<disk, readers, pc, calls>>

-----------------------------------------------------------------------------

Opening(t) ==
    \/ CheckOpen(t) \/ OpenHandle(t) \/ ReadSuperblock(t)
    \/ Scan(t) \/ ReadMap(t) \/ BuildVector(t) \/ ReadObjectMap(t)
    \/ ReadKeyBag(t) \/ OnError(t) \/ Unwind(t) \/ StoreHandle(t)
    \/ StoreCreated(t)

Query(t) ==
    \/ CheckQuery(t) \/ GrabForRead(t) \/ GetSize(t) \/ GetIdentifier(t)
    \/ IsLocked(t) \/ GetNumberOfVolumes(t) \/ GetVolumeByIndex(t)
    \/ UseMissingSuperblock(t)

Step(t) ==
    \/ SignalAbort(t) \/ Opening(t) \/ Query(t) \/ CheckClose(t) \/ Close(t)

Next == Free \/ \E t \in Threads : Call(t) \/ Step(t)

Spec == Init /\ [][Next]_vars

\* A thread inside the library keeps running, and gets the lock when it stays
\* free for it.  Nothing obliges an application to call.
FairSpec == Spec /\ \A t \in Threads : WF_vars(Step(t))

-----------------------------------------------------------------------------
(***************************************************************************)
(* Properties.                                                             *)
(***************************************************************************)

Reading(t) == pc[t] \in OpenStages

\* While no thread opens it, a container has all its parts or none: whatever
\* stage of opening failed, nothing is left that would leak or make the next
\* open fail because a value is "already set".
AllOrNothing ==
    (\A t \in Threads : ~Reading(t)) =>
        IF handle = "none" THEN owned = {}
        ELSE owned \in {Fields, Fields \ {"key_bag"}}

\* The library gives file IO handles back as it got them: it frees a handle it
\* created, closes a handle it opened, and leaves alone one the application
\* had opened, however opening failed and however often it was tried.
HandlesGivenBack ==
    (\A t \in Threads : ~Reading(t)) =>
        /\ handle # "own" => ownHandle = "none"
        /\ handle # "application" => appHandle = appOpened
        /\ handle = "none" => ~openedInLibrary /\ ~createdInLibrary

\* The lock is held by threads inside a query only, error paths included.
LockHeldInsideOnly ==
    \A t \in Threads :
        readers[t] = IF pc[t] \in {"inside", "crashed"} THEN 1 ELSE 0

\* Every call returns, unless a thread has crashed and the program with it.
EveryCallReturns ==
    \A t \in Threads :
        pc[t] = "check" ~> pc[t] = "idle" \/ \E u \in Threads : pc[u] = "crashed"
=============================================================================
