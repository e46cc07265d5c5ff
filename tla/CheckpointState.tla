--------------------------- MODULE CheckpointState ---------------------------
(* The blocks of a checkpoint descriptor area, how far the scan of it is,   *)
(* and what is to be true of what it finds.                                 *)
EXTENDS Integers

CONSTANTS
    AreaSize,       \* checkpoint_descriptor_area_number_of_blocks
    MaxTransaction, \* bound on the number of checkpoints
    TornWrites,     \* a crash may tear the block that is being written
    BlocksAfter     \* what may be in the block after the area

\* A block: its object type, its transaction identifier, and whether its
\* checksum is right.
Block == [type : {"map", "superblock", "other"}, xid : Nat, whole : BOOLEAN]

ASSUME AreaAssumption == AreaSize \in Nat /\ AreaSize >= 2
ASSUME TransactionAssumption == MaxTransaction \in Nat
ASSUME TornAssumption == TornWrites \in BOOLEAN
ASSUME AfterAssumption == BlocksAfter \subseteq Block /\ BlocksAfter # {}

Other == [type |-> "other", xid |-> 0, whole |-> TRUE]
Map(xid, whole) == [type |-> "map", xid |-> xid, whole |-> whole]
Superblock(xid, whole) ==
    [type |-> "superblock", xid |-> xid, whole |-> whole]

VARIABLES
    area,       \* the blocks of the descriptor area, and the one after it
    zero,       \* the superblock in the first block of the container
    next,       \* where in the ring the operating system writes next
    xid,        \* the newest transaction it has begun
    mode,       \* "idle", "checkpoint" (map written, superblock not) or "crashed"
    scan,       \* where open_read is
    index,      \* metadata_block_index
    superblock, \* the transaction of the superblock that is kept
    mapIndex, mapXid, \* the checkpoint map that is kept
    opened      \* what open_read returned, or NoResult

-----------------------------------------------------------------------------
(***************************************************************************)
(* Properties.                                                             *)
(***************************************************************************)

\* The transactions whose checkpoint is complete: its superblock is whole, in
\* the area or in the first block.
Complete ==
    {n \in 1 .. xid :
        Superblock(n, TRUE) \in {area[i] : i \in 0 .. AreaSize - 1} \cup {zero}}

\* A container that opens, opens at its newest complete checkpoint, wherever
\* the ring has wrapped and the machine has stopped, as long as there is no
\* superblock in the block after the area, which the scan takes in.
OpensAtNewestCheckpoint ==
    opened = 1 /\ area[AreaSize].type # "superblock" =>
        superblock \in Complete /\ \A n \in Complete : n <= superblock

\* The map is never older than the superblock: it is the map of the same
\* checkpoint or of one that was begun after it and not completed, as long as
\* there is no map and no superblock in the block after the area.
MapIsNotOlder ==
    opened = 1 /\ area[AreaSize].type = "other" =>
        mapXid \in {superblock, superblock + 1}

\* Between two whole writes a crash does no harm: the container opens.
CrashDoesNoHarm ==
    (\A i \in 0 .. AreaSize : area[i].whole) => opened # -1
=============================================================================
