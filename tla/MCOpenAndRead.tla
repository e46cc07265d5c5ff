---------------------------- MODULE MCOpenAndRead ---------------------------
(***************************************************************************)
(* The two ends of using the library, for TLC: opening a container, that   *)
(* is the handle (Container) and the search for the newest checkpoint      *)
(* (Checkpoint), and reading the data of a file (DataStream).  They share  *)
(* no state: a behaviour is one of the component it starts with, while the *)
(* others stay as they begin.                                              *)
(***************************************************************************)
EXTENDS Container, CheckpointState

CONSTANTS
    t1, t2,
    Handles, Files, BlockSize, MaxOffset, MaxRead   \* of DataStream

PlainDisk == [slots |-> <<11>>, keyBag |-> "none", fusion |-> FALSE,
              objectMap |-> TRUE]
LockedDisk == [PlainDisk EXCEPT !.keyBag = "locked"]
EncryptedDisk == [PlainDisk EXCEPT !.keyBag = "readable", !.slots = <<11, 12>>]
FusionDisk == [PlainDisk EXCEPT !.fusion = TRUE]
MaplessDisk == [PlainDisk EXCEPT !.objectMap = FALSE]
\* The first of two volumes was deleted.
GapDisk == [PlainDisk EXCEPT !.slots = <<0, 12>>]

AllDisks == {PlainDisk, LockedDisk, EncryptedDisk, FusionDisk, MaplessDisk,
             GapDisk}
AnyIndex == {-1, 0, 1, 2}

\* The block after the area belongs to the checkpoint data area, or still holds
\* a map or a superblock of a container that had a larger area.
AnyAfter == {Other, Map(2, TRUE), Superblock(2, TRUE)}

VARIABLES
    component,  \* whose behaviour it is
    file, array, extentIndex, stream, read

Area == INSTANCE Checkpoint

Data == INSTANCE DataStream WITH index <- extentIndex, handle <- stream, call <- read

Small == INSTANCE MCDataStream
AllFiles == Small!MCFiles

areaVars == <<area, zero, next, xid, mode, scan, index, superblock, mapIndex, mapXid, opened>>
dataVars == <<file, array, extentIndex, stream, read>>
allVars == <<component, vars, areaVars, dataVars>>

AllInit ==
    /\ component \in {"container", "checkpoint", "stream"}
    /\ Init /\ (component # "container" => disk = PlainDisk /\ ~appOpened)
    /\ Area!Init /\ (component # "checkpoint" => area[AreaSize] = Other)
    /\ Data!Init /\ (component # "stream" => file.source = "embedded" /\ file.size = 1)

AllNext ==
    \/ component = "container" /\ Next /\ UNCHANGED <<component, areaVars, dataVars>>
    \/ component = "checkpoint" /\ Area!Next /\ UNCHANGED <<component, vars, dataVars>>
    \/ component = "stream" /\ Data!Next /\ UNCHANGED <<component, vars, areaVars>>

\* The fairness of Container and DataStream.
Fairness ==
    /\ \A t \in Threads :
         WF_allVars(component = "container" /\ Step(t) /\ UNCHANGED <<component, areaVars, dataVars>>)
    /\ \A h \in Handles :
         WF_allVars(component = "stream" /\ Data!Work(h) /\ UNCHANGED <<component, vars, areaVars>>)

AllSpec == AllInit /\ [][AllNext]_allVars /\ Fairness

----------------------------------------------------------------------------
(* The properties of DataStream.                                           *)

\* What a read returns is what is stored there (DataStream: the data handles).
ReadsAreRight == Data!ReadsAreRight

\* A read fails only when something can be the cause (DataStream: also after a
\* read that failed before).
ErrorsHaveCauses == Data!ErrorsHaveCauses

\* A read is short only at the end of the data (DataStream: the read loop).
ShortReadsAreAtTheEnd == Data!ShortReadsAreAtTheEnd

\* A read that was started ends (DataStream: the read loop).
EveryReadEnds == Data!EveryReadEnds
=============================================================================
