------------------------------- MODULE Volume -------------------------------
(***************************************************************************)
(* The volume handle of libfsapfs (libfsapfs_volume.c): how it is opened   *)
(* in stages, what a failed open gives back, how passwords unlock it, and  *)
(* how threads that share the handle take its read/write lock.             *)
(*                                                                         *)
(* The volume's blocks are described by `disk`, one of the constant set    *)
(* Disks; any read of them may also fail, and so may any allocation while  *)
(* the volume is opened.  The lock primitives and the cipher's key         *)
(* schedule do not fail.                                                   *)
(***************************************************************************)
EXTENDS Integers, FiniteSets, Sequences

CONSTANTS
    Threads,          \* threads that share the volume handle
    Disks,            \* the volumes that may be opened
    Texts,            \* password texts an application may set
    Files,            \* file identifiers and paths an application may ask for
    SnapshotIndexes,  \* snapshot indexes an application may ask for
    CheckedIndexes,   \* it asks for the number of snapshots first, as the tools do
    KeylessCrypt,     \* what decrypting before set_keys may do
    MaxCalls          \* bound on the calls made on one opened handle

(***************************************************************************)
(* What is on the disk.                                                    *)
(***************************************************************************)

\* An entry of the volume key bag.  Only entries of type 3 are key encrypted
\* keys; `state` is what reading and unlocking one finds.
KeyBagEntry ==
    [type : {2, 3}, state : {"good", "damaged", "unsupported"}, secret : Texts]

Disk ==
    [encrypted    : BOOLEAN,                         \* volume_flags & 1 is 0
     containerBag : {"none", "locked", "readable"},  \* the container's key bag
     extent       : {"absent", "empty", "present"},  \* the volume's key bag
     entries      : Seq(KeyBagEntry),
     masterKey    : BOOLEAN,                         \* in the container key bag
     snapshotTree : {"none", "damaged", "good"},
     snapshots    : Nat,
     sealed       : BOOLEAN,
     sealedBlock  : {"volume", "snapshot", "damaged"},
     root         : BOOLEAN,                         \* root identifier is not 0
     rootMapped   : BOOLEAN,                         \* and is in the object map
     files        : SUBSET Files]

ASSUME ThreadsAssumption == IsFiniteSet(Threads) /\ Threads # {}
ASSUME DisksAssumption == Disks \subseteq Disk
ASSUME IndexesAssumption ==
    SnapshotIndexes \subseteq Int /\ CheckedIndexes \in BOOLEAN
ASSUME KeylessAssumption ==
    KeylessCrypt \subseteq {"fails", "garbage"} /\ KeylessCrypt # {}
ASSUME MaxCallsAssumption == MaxCalls \in Nat

NoThread == "no thread"
NoPassword == [text |-> "none", nuls |-> -1]
\* The argument of an empty password.
EmptyText == "empty"
ASSUME NoThreadAssumption == NoThread \notin Threads
ASSUME EmptyTextAssumption == EmptyText \notin Texts

\* What libfsapfs_internal_volume_t owns: its pointers that are not NULL.
Parts == {"superblock", "container_vector", "object_map", "object_map_btree",
          "key_bag", "encryption_context", "snapshots", "snapshot_tree",
          "file_system_vector", "file_system"}

\* The stages of libfsapfs_internal_volume_open_read, then the open volume.
Stages == {"read_superblock", "build_container_vector", "read_object_map",
           "read_key_bag", "read_snapshots", "select_superblock",
           "build_file_system_vector"}

ReadOps == {"get_features_flags", "get_size", "get_identifier",
            "get_utf8_name_size", "get_utf8_name", "get_utf16_name_size",
            "get_utf16_name", "is_locked", "get_next_file_entry_identifier",
            "get_number_of_snapshots", "get_snapshot_by_index"}
PasswordOps == {"set_utf8_password", "set_utf16_password",
                "set_utf8_recovery_password", "set_utf16_recovery_password"}
FileOps == {"get_root_directory", "get_file_entry_by_identifier",
            "get_file_entry_by_utf8_path", "get_file_entry_by_utf16_path"}
Ops == ReadOps \cup PasswordOps \cup FileOps \cup {"unlock"}

NoCall == [op |-> "none", arg |-> "none", index |-> 0]
RootFile == "root directory"

\* The calls an application may make.
Calls ==
    [op : (ReadOps \ {"get_snapshot_by_index"}) \cup {"unlock"},
     arg : {"none"}, index : {0}]
    \cup [op : {"get_snapshot_by_index"}, arg : {"none"},
          index : SnapshotIndexes]
    \cup [op : PasswordOps, arg : Texts \cup {EmptyText}, index : {0}]
    \cup [op : FileOps \ {"get_root_directory"}, arg : Files, index : {0}]
    \cup [op : {"get_root_directory"}, arg : {RootFile}, index : {0}]

\* Not a value any operation returns.
NoResult == -2

VARIABLES
    disk,        \* the volume's blocks
    phase,       \* "absent", a stage of opening, "failing", "freeing" or "open"
    owned,       \* the parts of the handle that are allocated
    superblock,  \* whose superblock the handle holds
    isLocked,    \* is_locked
    keysSet,     \* the encryption context has been given the master key
    userPassword, recoveryPassword,
    rootBlock,   \* the root node's block in the data block cache
    writer,      \* the thread that holds read_write_lock for writing
    readers,     \* how often each thread holds it for reading
    pc, call, result, \* each thread's call on the handle
    calls        \* calls made on the handle so far

handleVars == <<phase, owned, superblock, isLocked, keysSet, userPassword,
                recoveryPassword, rootBlock>>
threadVars == <<pc, call, result, calls>>
lockVars == <<writer, readers>>
vars == <<disk, handleVars, threadVars, lockVars>>
\* What no stage of opening touches.
openFrame == <<disk, keysSet, userPassword, recoveryPassword, rootBlock,
               threadVars, lockVars>>

Password == [text : Texts, nuls : 0 .. 1] \cup {NoPassword}

TypeOK ==
    /\ disk \in Disks
    /\ phase \in Stages \cup {"absent", "failing", "freeing", "open"}
    /\ owned \subseteq Parts
    /\ superblock \in {"none", "volume", "snapshot"}
    /\ isLocked \in BOOLEAN
    /\ keysSet \in BOOLEAN
    /\ userPassword \in Password
    /\ recoveryPassword \in Password
    /\ rootBlock \in {"none", "plain", "garbage"}
    /\ writer \in Threads \cup {NoThread}
    /\ readers \in [Threads -> Nat]
    /\ pc \in [Threads -> {"idle", "waiting", "inside"}]
    /\ call \in [Threads -> Calls \cup {NoCall}]
    /\ result \in [Threads -> {-1, 0, 1, NoResult}]
    /\ calls \in 0 .. MaxCalls

-----------------------------------------------------------------------------
(***************************************************************************)
(* Opening: container_get_volume_by_index creates the handle, reads the    *)
(* volume through it and frees it when that fails.  No other thread has    *)
(* the handle yet.                                                         *)
(***************************************************************************)

Init ==
    /\ disk \in Disks
    /\ phase = "absent"
    /\ owned = {}
    /\ superblock = "none"
    /\ isLocked = TRUE
    /\ keysSet = FALSE
    /\ userPassword = NoPassword
    /\ recoveryPassword = NoPassword
    /\ rootBlock = "none"
    /\ writer = NoThread
    /\ readers = [t \in Threads |-> 0]
    /\ pc = [t \in Threads |-> "idle"]
    /\ call = [t \in Threads |-> NoCall]
    /\ result = [t \in Threads |-> NoResult]
    /\ calls = 0

\* libfsapfs_volume_initialize: a zeroed structure, locked, with a new lock.
Initialize ==
    /\ phase = "absent"
    /\ phase' = "read_superblock"
    /\ isLocked' = TRUE
    /\ writer' = NoThread
    /\ readers' = [t \in Threads |-> 0]
    /\ calls' = 0
    /\ call' = [t \in Threads |-> NoCall]
    /\ result' = [t \in Threads |-> NoResult]
    /\ UNCHANGED <<disk, owned, superblock, keysSet, userPassword,
                   recoveryPassword, rootBlock, pc>>

\* A stage allocates its parts and goes on, or fails with some of them (and
\* its locals) allocated and jumps to on_error.
Stage(stage, parts, leftovers, ok, next) ==
    /\ phase = stage
    /\ \/ /\ ok
          /\ owned' = owned \cup parts
          /\ phase' = next
       \/ /\ \E left \in leftovers : owned' = owned \cup left
          /\ phase' = "failing"

ReadSuperblock ==
    /\ Stage("read_superblock", {"superblock"}, {{}, {"superblock"}}, TRUE,
             "build_container_vector")
    /\ superblock' = IF "superblock" \in owned' THEN "volume" ELSE "none"
    /\ UNCHANGED <<isLocked, openFrame>>

BuildContainerVector ==
    /\ Stage("build_container_vector", {"container_vector"},
             {{}, {"container_vector"}}, TRUE, "read_object_map")
    /\ UNCHANGED <<superblock, isLocked, openFrame>>

\* The object map is a local: it is freed once its B-tree is initialised and,
\* on failure, by on_error.
ReadObjectMap ==
    /\ Stage("read_object_map", {"object_map_btree"}, {{}, {"object_map"}}, TRUE,
             "read_key_bag")
    /\ UNCHANGED <<superblock, isLocked, openFrame>>

\* Looks for the volume's key bag in the container's.  A volume that is
\* flagged unencrypted, or is in a container without a key bag, is not locked.
ReadKeyBag ==
    /\ IF disk.containerBag = "none" \/ ~disk.encrypted
       THEN /\ isLocked' = FALSE
            /\ Stage("read_key_bag", {}, {{}}, TRUE, "read_snapshots")
       ELSE IF disk.containerBag = "locked" \/ disk.extent = "absent"
       THEN /\ isLocked' = (disk.containerBag = "locked")
            /\ Stage("read_key_bag", {}, {{}}, TRUE, "read_snapshots")
       ELSE /\ Stage("read_key_bag", {"key_bag", "encryption_context"},
                     {{}, {"key_bag"}}, disk.extent = "present", "read_snapshots")
            /\ isLocked' = (phase' = "read_snapshots")
    /\ UNCHANGED <<superblock, openFrame>>

\* A snapshot metadata tree that cannot be read is given up on: the error is
\* dropped and the tree freed, the (empty) array of snapshots stays.
ReadSnapshots ==
    /\ \/ Stage("read_snapshots",
                IF disk.snapshotTree = "none" THEN {"snapshots"}
                                              ELSE {"snapshots", "snapshot_tree"},
                {{}, {"snapshots"}}, disk.snapshotTree # "damaged",
                "select_superblock")
       \/ /\ phase = "read_snapshots"
          /\ disk.snapshotTree # "none"
          /\ owned' = owned \cup {"snapshots"}
          /\ phase' = "select_superblock"
    /\ UNCHANGED <<superblock, isLocked, openFrame>>

\* The snapshots that the array holds.
NumberOfSnapshots ==
    IF "snapshot_tree" \in owned THEN disk.snapshots ELSE 0

\* A sealed volume is read through its first snapshot: that snapshot's
\* superblock, of either type, replaces the volume's.
SelectSuperblock ==
    /\ phase = "select_superblock"
    /\ LET replace == disk.sealed /\ NumberOfSnapshots > 0
       IN  \/ /\ replace => disk.sealedBlock # "damaged"
              /\ superblock' = IF replace THEN "snapshot" ELSE superblock
              /\ phase' = IF disk.root THEN "build_file_system_vector"
                                     ELSE "failing"
           \/ /\ replace
              /\ phase' = "failing"
              /\ UNCHANGED superblock
    /\ UNCHANGED <<owned, isLocked, openFrame>>

BuildFileSystemVector ==
    /\ Stage("build_file_system_vector", {"file_system_vector"},
             {{}, {"file_system_vector"}}, TRUE, "open")
    /\ UNCHANGED <<superblock, isLocked, openFrame>>

\* Fault: on_error forgets the local object map.
OnErrorForgetsObjectMap ==
    /\ phase = "failing"
    /\ phase' = "freeing"
    /\ owned' = owned \cap {"object_map", "snapshots"}
    /\ superblock' = "none"
    /\ UNCHANGED <<isLocked, openFrame>>

\* The on_error part of open_read.  The array of snapshots is only freed when
\* there is a tree.
OnError ==
    /\ phase = "failing"
    /\ phase' = "freeing"
    /\ owned' = owned \ ({"file_system_vector", "encryption_context", "key_bag",
                          "snapshot_tree", "object_map_btree", "object_map",
                          "container_vector", "superblock"}
                         \cup IF "snapshot_tree" \in owned THEN {"snapshots"}
                                                         ELSE {})
    /\ superblock' = "none"
    /\ UNCHANGED <<isLocked, openFrame>>

\* libfsapfs_internal_volume_close: wipes the passwords and frees every part.
\* The object map is not one of them.
Close ==
    /\ owned' = owned \cap {"object_map"}
    /\ superblock' = "none"
    /\ isLocked' = TRUE
    /\ keysSet' = FALSE
    /\ userPassword' = NoPassword
    /\ recoveryPassword' = NoPassword
    /\ rootBlock' = "none"

\* libfsapfs_volume_free, after a failed open or by the application once no
\* thread is in a call.  It takes no lock.
Free ==
    /\ phase \in {"freeing", "open"}
    /\ \A t \in Threads : pc[t] = "idle"
    /\ phase' = "absent"
    /\ Close
    /\ UNCHANGED <<disk, threadVars, lockVars>>

-----------------------------------------------------------------------------
(***************************************************************************)
(* Calls on the open handle.  A thread makes a call, takes the lock the    *)
(* operation needs, and runs the operation, which releases the lock.       *)
(***************************************************************************)

Call(t) ==
    /\ phase = "open"
    /\ pc[t] = "idle"
    /\ calls < MaxCalls
    /\ calls' = calls + 1
    /\ pc' = [pc EXCEPT ![t] = "waiting"]
    /\ \E c \in Calls :
        /\ CheckedIndexes /\ c.op = "get_snapshot_by_index" =>
              c.index \in 0 .. NumberOfSnapshots - 1
        /\ call' = [call EXCEPT ![t] = c]
    /\ result' = [result EXCEPT ![t] = NoResult]
    /\ UNCHANGED <<disk, handleVars, lockVars>>

\* libcthreads_read_write_lock_grab_for_read: waits for a writer only.
GrabForRead(t) ==
    /\ pc[t] = "waiting"
    /\ call[t].op \in ReadOps
    /\ writer = NoThread
    /\ readers' = [readers EXCEPT ![t] = @ + 1]
    /\ pc' = [pc EXCEPT ![t] = "inside"]
    /\ UNCHANGED <<disk, handleVars, call, result, calls, writer>>

\* libcthreads_read_write_lock_grab_for_write: waits for everyone, a read
\* hold of the same thread included.
GrabForWrite(t) ==
    /\ pc[t] = "waiting"
    /\ call[t].op \notin ReadOps
    /\ writer = NoThread
    /\ \A u \in Threads : readers[u] = 0
    /\ writer' = t
    /\ pc' = [pc EXCEPT ![t] = "inside"]
    /\ UNCHANGED <<disk, handleVars, call, result, calls, readers>>

Inside(t, op) ==
    /\ pc[t] = "inside"
    /\ call[t].op = op

Return(t, r) ==
    /\ pc' = [pc EXCEPT ![t] = "idle"]
    /\ result' = [result EXCEPT ![t] = r]
    /\ UNCHANGED <<disk, phase, call, calls>>

ReleaseForRead(t) ==
    /\ readers' = [readers EXCEPT ![t] = @ - 1]
    /\ UNCHANGED writer

ReleaseForWrite(t) ==
    /\ writer' = NoThread
    /\ UNCHANGED readers

\* An operation that only looks at the handle.
Getter(t, op, results) ==
    /\ Inside(t, op)
    /\ \E r \in results : Return(t, r)
    /\ ReleaseForRead(t)
    /\ UNCHANGED handleVars

GetFeaturesFlags(t) == Getter(t, "get_features_flags", {1})
\* Not implemented: sets the size to 0 and returns -1.
GetSize(t) == Getter(t, "get_size", {-1})
GetIdentifier(t) == Getter(t, "get_identifier", {1})
GetUtf8NameSize(t) == Getter(t, "get_utf8_name_size", {-1, 1})
GetUtf8Name(t) == Getter(t, "get_utf8_name", {-1, 1})
GetUtf16NameSize(t) == Getter(t, "get_utf16_name_size", {-1, 1})
GetUtf16Name(t) == Getter(t, "get_utf16_name", {-1, 1})
IsLocked(t) == Getter(t, "is_locked", {IF isLocked THEN 1 ELSE 0})
GetNextFileEntryIdentifier(t) ==
    Getter(t, "get_next_file_entry_identifier", {1})
GetNumberOfSnapshots(t) == Getter(t, "get_number_of_snapshots", {1})

\* Fault: the error path of a snapshot that cannot be read keeps the lock.
GetSnapshotByIndexKeepsLock(t) ==
    /\ Inside(t, "get_snapshot_by_index")
    /\ \/ ReleaseForRead(t) /\ Return(t, 1)
       \/ UNCHANGED lockVars /\ Return(t, -1)
    /\ UNCHANGED handleVars

\* An index outside the array returns at once, the lock still held; a
\* snapshot whose superblock cannot be read goes through on_error.
GetSnapshotByIndex(t) ==
    /\ Inside(t, "get_snapshot_by_index")
    /\ LET present == call[t].index \in 0 .. NumberOfSnapshots - 1
       IN  IF present
           THEN ReleaseForRead(t) /\ \E r \in {-1, 1} : Return(t, r)
           ELSE Return(t, -1) /\ UNCHANGED lockVars
    /\ UNCHANGED handleVars

\* Fault: a new password locks the volume again.
SetUtf8PasswordRelocks(t) ==
    /\ Inside(t, "set_utf8_password")
    /\ IF call[t].arg = EmptyText
       THEN userPassword' = NoPassword /\ Return(t, -1) /\ UNCHANGED isLocked
       ELSE /\ userPassword' = [text |-> call[t].arg, nuls |-> 0]
            /\ isLocked' = TRUE
            /\ Return(t, 1)
    /\ ReleaseForWrite(t)
    /\ UNCHANGED <<owned, superblock, keysSet, recoveryPassword, rootBlock>>

\* The password setters wipe the old password first, so that an empty one
\* fails and leaves none.  The UTF-8 setters store the bytes of the string.
SetUtf8Password(t) ==
    /\ Inside(t, "set_utf8_password")
    /\ IF call[t].arg = EmptyText
       THEN userPassword' = NoPassword /\ Return(t, -1)
       ELSE /\ userPassword' = [text |-> call[t].arg, nuls |-> 0]
            /\ Return(t, 1)
    /\ ReleaseForWrite(t)
    /\ UNCHANGED <<owned, superblock, isLocked, keysSet, recoveryPassword,
                   rootBlock>>

\* libuna_utf8_string_size_from_utf16 counts the end-of-string character; the
\* UTF-16 setters add one more, and unlock takes off one.
Utf8StringSizeFromUtf16Nuls == 1

SetUtf16Password(t) ==
    /\ Inside(t, "set_utf16_password")
    /\ IF call[t].arg = EmptyText
       THEN userPassword' = NoPassword /\ Return(t, -1)
       ELSE /\ userPassword' = [text |-> call[t].arg,
                                nuls |-> Utf8StringSizeFromUtf16Nuls + 1 - 1]
            /\ Return(t, 1)
    /\ ReleaseForWrite(t)
    /\ UNCHANGED <<owned, superblock, isLocked, keysSet, recoveryPassword,
                   rootBlock>>

SetUtf8RecoveryPassword(t) ==
    /\ Inside(t, "set_utf8_recovery_password")
    /\ IF call[t].arg = EmptyText
       THEN recoveryPassword' = NoPassword /\ Return(t, -1)
       ELSE /\ recoveryPassword' = [text |-> call[t].arg, nuls |-> 0]
            /\ Return(t, 1)
    /\ ReleaseForWrite(t)
    /\ UNCHANGED <<owned, superblock, isLocked, keysSet, userPassword,
                   rootBlock>>

SetUtf16RecoveryPassword(t) ==
    /\ Inside(t, "set_utf16_recovery_password")
    /\ IF call[t].arg = EmptyText
       THEN recoveryPassword' = NoPassword /\ Return(t, -1)
       ELSE /\ recoveryPassword' = [text |-> call[t].arg,
                                    nuls |-> Utf8StringSizeFromUtf16Nuls + 1 - 1]
            /\ Return(t, 1)
    /\ ReleaseForWrite(t)
    /\ UNCHANGED <<owned, superblock, isLocked, keysSet, userPassword,
                   rootBlock>>

\* libfsapfs_key_encrypted_key_unlock_with_password: the unwrapped key has the
\* expected initialization vector only under the very bytes of the secret.
UnlockWithPassword(entry, password) ==
    password = [text |-> entry.secret, nuls |-> 0]

\* Fault: the recovery password is only tried when there is no other.
GetVolumeKeyIgnoresRecovery(entries, user, recovery) ==
    LET p == IF user = NoPassword THEN recovery ELSE user
    IN  IF \E i \in DOMAIN entries :
              entries[i].type = 3 /\ UnlockWithPassword(entries[i], p)
        THEN 1 ELSE 0

\* libfsapfs_volume_key_bag_get_volume_key: the key encrypted keys are tried
\* in order, each with the user and then the recovery password.  The first one
\* that opens or cannot be handled decides.
GetVolumeKey(entries, user, recovery) ==
    LET given == {user, recovery} \ {NoPassword}
        opens(e) == \E p \in given : UnlockWithPassword(e, p)
        fails(e) == \/ e.state = "damaged"
                    \/ e.state = "unsupported" /\ given # {}
        deciding == {i \in DOMAIN entries :
                        entries[i].type = 3 /\ (fails(entries[i]) \/ opens(entries[i]))}
    IN  IF deciding = {} THEN 0
        ELSE IF fails(entries[CHOOSE i \in deciding :
                                \A j \in deciding : i <= j]) THEN -1
        ELSE 1

\* What libfsapfs_internal_volume_unlock returns: without a volume key bag the
\* volume is taken to be unlocked, and a volume key without its master key in
\* the container's key bag is an error.
UnlockResult ==
    IF "key_bag" \notin owned THEN 1
    ELSE LET k == GetVolumeKey(disk.entries, userPassword, recoveryPassword)
         IN  IF k = 1 /\ ~disk.masterKey THEN -1 ELSE k

\* Fault: a refused password clears is_locked as well.
InternalUnlockClears(r) ==
    /\ r = UnlockResult
    /\ isLocked' = (isLocked /\ r = -1)
    /\ keysSet' = (keysSet \/ (r = 1 /\ "key_bag" \in owned))

\* libfsapfs_internal_volume_unlock.
InternalUnlock(r) ==
    /\ r = UnlockResult
    /\ isLocked' = (isLocked /\ r # 1)
    /\ keysSet' = (keysSet \/ (r = 1 /\ "key_bag" \in owned))

Unlock(t) ==
    /\ Inside(t, "unlock")
    /\ IF isLocked
       THEN \E r \in {-1, 0, 1} : InternalUnlock(r) /\ Return(t, r)
       ELSE Return(t, 1) /\ UNCHANGED <<isLocked, keysSet>>
    /\ ReleaseForWrite(t)
    /\ UNCHANGED <<owned, superblock, userPassword, recoveryPassword, rootBlock>>

-----------------------------------------------------------------------------
(***************************************************************************)
(* Reading the file system.                                                *)
(***************************************************************************)

\* libfsapfs_internal_volume_get_file_system: tries to unlock a locked volume,
\* goes on when no password fits, and fails when the root is not in the object
\* map or that cannot be read.
InternalGetFileSystem(r) ==
    /\ IF isLocked
       THEN \E u \in {-1, 0, 1} : InternalUnlock(u) /\ (u = -1 => r = -1)
       ELSE UNCHANGED <<isLocked, keysSet>>
    /\ r = 1 => disk.rootMapped
    /\ owned' = IF r = 1 THEN owned \cup {"file_system"} ELSE owned

\* What the file system B-tree gets for the block of its root node: what the
\* data block cache holds, or else what reading and decrypting it gives.  A
\* volume without an encryption context is not decrypted.
RootBlocks ==
    IF rootBlock # "none" THEN {rootBlock}
    ELSE {"fails"} \cup
         IF "encryption_context" \in owned
         THEN IF keysSet' THEN {"plain"} ELSE KeylessCrypt
         ELSE IF disk.encrypted THEN {"garbage"} ELSE {"plain"}

\* Fault: the root node is used without looking at its type.
ReadFileEntryUnchecked(t) ==
    \E b \in RootBlocks :
        /\ rootBlock' = IF b = "fails" THEN "none" ELSE b
        /\ Return(t, IF b = "fails" THEN -1 ELSE 0)

\* libfsapfs_file_system_get_file_entry_by_...: a root block that is not a
\* B-tree node is an error, and so is a failure to read further nodes.
ReadFileEntry(t) ==
    \E b \in RootBlocks :
        /\ rootBlock' = IF b = "fails" THEN "none" ELSE b
        /\ \/ Return(t, -1)
           \/ /\ b = "plain"
              /\ Return(t, IF call[t].arg \in disk.files \cup {RootFile}
                           THEN 1 ELSE 0)

\* The four operations that look a file entry up: the file system is made on
\* the first of them and kept.
LookUp(t) ==
    /\ IF "file_system" \in owned
       THEN /\ UNCHANGED <<owned, isLocked, keysSet>>
            /\ ReadFileEntry(t)
       ELSE \/ InternalGetFileSystem(-1) /\ UNCHANGED rootBlock /\ Return(t, -1)
            \/ InternalGetFileSystem(1) /\ ReadFileEntry(t)
    /\ ReleaseForWrite(t)
    /\ UNCHANGED <<superblock, userPassword, recoveryPassword>>

GetRootDirectory(t) == Inside(t, "get_root_directory") /\ LookUp(t)
GetFileEntryByIdentifier(t) ==
    Inside(t, "get_file_entry_by_identifier") /\ LookUp(t)
GetFileEntryByUtf8Path(t) ==
    Inside(t, "get_file_entry_by_utf8_path") /\ LookUp(t)
GetFileEntryByUtf16Path(t) ==
    Inside(t, "get_file_entry_by_utf16_path") /\ LookUp(t)

-----------------------------------------------------------------------------

Open == \/ Initialize \/ ReadSuperblock \/ BuildContainerVector
        \/ ReadObjectMap \/ ReadKeyBag \/ ReadSnapshots \/ SelectSuperblock
        \/ BuildFileSystemVector \/ OnError

Body(t) ==
    \/ GetFeaturesFlags(t) \/ GetSize(t) \/ GetIdentifier(t)
    \/ GetUtf8NameSize(t) \/ GetUtf8Name(t)
    \/ GetUtf16NameSize(t) \/ GetUtf16Name(t)
    \/ IsLocked(t) \/ GetNextFileEntryIdentifier(t)
    \/ GetNumberOfSnapshots(t) \/ GetSnapshotByIndex(t)
    \/ SetUtf8Password(t) \/ SetUtf16Password(t)
    \/ SetUtf8RecoveryPassword(t) \/ SetUtf16RecoveryPassword(t)
    \/ Unlock(t)
    \/ GetRootDirectory(t) \/ GetFileEntryByIdentifier(t)
    \/ GetFileEntryByUtf8Path(t) \/ GetFileEntryByUtf16Path(t)

Step(t) == GrabForRead(t) \/ GrabForWrite(t) \/ Body(t)

Next == Open \/ Free \/ \E t \in Threads : Call(t) \/ Step(t)

Spec == Init /\ [][Next]_vars

\* A thread inside the library keeps running, and the lock is granted to a
\* thread for which it stays free.  Nothing obliges an application to call.
FairSpec == Spec /\ \A t \in Threads : WF_vars(Step(t))

-----------------------------------------------------------------------------
(***************************************************************************)
(* Properties.                                                             *)
(***************************************************************************)

\* Whichever stage of open_read fails, on_error and volume_free between them
\* free everything that was allocated, and a freed volume leaves no password
\* or key behind: on_error alone does not free the array of snapshots.
NothingLeftBehind ==
    phase = "absent" =>
        /\ owned = {}
        /\ ~keysSet
        /\ userPassword = NoPassword
        /\ recoveryPassword = NoPassword

\* An open volume that does not call itself locked can be read: it is not
\* encrypted or its encryption context has the master key.  The code takes a
\* volume for unlocked when it finds no volume key bag for it (open_read with a
\* container that has no key bag or one without the volume, and unlock when the
\* container's key bag is locked), so that this does not hold.
UnlockedHasKeys ==
    phase = "open" /\ ~isLocked /\ disk.encrypted => keysSet

\* That is the only way: a volume whose key bag is on the disk for the container
\* to find calls itself unlocked only once it has its keys, whatever passwords
\* were set, refused or wiped, and whichever look-up or unlock came first.
KeyBagKeepsLocked ==
    phase = "open" /\ ~isLocked /\ disk.encrypted
        /\ disk.containerBag = "readable" /\ disk.extent # "absent" => keysSet

\* A look-up answers (found or not found) only from the plain text of the file
\* system, however unlocking, failed look-ups and cached blocks interleave.
AnswersComeFromPlaintext ==
    phase = "open" =>
        \A t \in Threads :
            call[t].op \in FileOps /\ result[t] \in {0, 1} =>
                /\ rootBlock = "plain"
                /\ disk.encrypted => keysSet

\* A thread holds read_write_lock exactly while it is inside an operation,
\* once, and for writing only when it is alone: every way out of every
\* operation, error paths included, releases what it grabbed.
LockHeldOnlyInside ==
    /\ \A t \in Threads :
        /\ readers[t] = IF pc[t] = "inside" /\ call[t].op \in ReadOps
                        THEN 1 ELSE 0
        /\ writer = t <=> pc[t] = "inside" /\ call[t].op \notin ReadOps
    /\ writer # NoThread => \A t \in Threads : readers[t] = 0

\* While a volume is open it is never locked again and never loses its keys.
StaysUnlocked ==
    [][phase = "open" /\ phase' = "open" =>
         /\ ~isLocked => ~isLocked'
         /\ keysSet => keysSet']_vars

\* volume_unlock returns 0 only when no key encrypted key of the volume opens
\* with the bytes of either stored password, wherever in the key bag it is.
RefusalIsHonest ==
    [][\A t \in Threads :
         pc[t] = "inside" /\ call[t].op = "unlock" /\ result'[t] = 0 =>
            \A i \in DOMAIN disk.entries :
                disk.entries[i].type = 3 =>
                    [text |-> disk.entries[i].secret, nuls |-> 0]
                        \notin {userPassword, recoveryPassword}]_vars

\* Every call on the handle returns.
EveryCallReturns ==
    \A t \in Threads : pc[t] = "waiting" ~> pc[t] = "idle"
=============================================================================
