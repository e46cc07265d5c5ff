----------------------------- MODULE Checkpoint -----------------------------
(***************************************************************************)
(* How a container is opened at its newest checkpoint: the scan of the     *)
(* checkpoint descriptor area in libfsapfs_internal_container_open_read    *)
(* (libfsapfs_container.c).                                                *)
(*                                                                         *)
(* The area is written by the operating system, not by this library: each  *)
(* checkpoint puts its maps and then its superblock into a ring of blocks, *)
(* and a crash may come between any two writes, or tear the last one.  The *)
(* library then reads what is there.                                       *)
(***************************************************************************)
EXTENDS CheckpointState, FiniteSets

diskVars == <<area, zero, next, xid, mode>>
vars == <<diskVars, scan, index, superblock, mapIndex, mapXid, opened>>

NoMap == -1
NoResult == -2

TypeOK ==
    /\ area \in [0 .. AreaSize -> Block]
    /\ zero \in Block
    /\ next \in 0 .. AreaSize - 1
    /\ xid \in Nat
    /\ mode \in {"idle", "checkpoint", "crashed"}
    /\ scan \in {"closed", "scan", "map", "done"}
    /\ index \in 0 .. AreaSize + 1
    /\ superblock \in Nat
    /\ mapIndex \in 0 .. AreaSize \cup {NoMap}
    /\ mapXid \in Nat
    /\ opened \in {-1, 1, NoResult}

\* A container that was just made: its first checkpoint is complete.
Init ==
    /\ \E after \in BlocksAfter :
        area = [i \in 0 .. AreaSize |->
                    CASE i = 0 -> Map(1, TRUE)
                      [] i = 1 -> Superblock(1, TRUE)
                      [] i = AreaSize -> after
                      [] OTHER -> Other]
    /\ zero = Superblock(1, TRUE)
    /\ next = 2 % AreaSize
    /\ xid = 1
    /\ mode = "idle"
    /\ scan = "closed"
    /\ index = 0
    /\ superblock = 0
    /\ mapIndex = NoMap
    /\ mapXid = 0
    /\ opened = NoResult

-----------------------------------------------------------------------------
(***************************************************************************)
(* The operating system.                                                   *)
(***************************************************************************)

Write(block) ==
    /\ area' = [area EXCEPT ![next] = block]
    /\ next' = (next + 1) % AreaSize

\* A checkpoint begins with its map.
WriteMap ==
    /\ mode = "idle" /\ scan = "closed"
    /\ xid < MaxTransaction
    /\ xid' = xid + 1
    /\ Write(Map(xid', TRUE))
    /\ mode' = "checkpoint"
    /\ UNCHANGED <<zero, scan, index, superblock, mapIndex, mapXid, opened>>

\* It may need more than one, as many as leave room for the superblock.
WriteAnotherMap ==
    /\ mode = "checkpoint" /\ scan = "closed"
    /\ area[(next + AreaSize - 1) % AreaSize].type = "map"
    /\ Cardinality({i \in 0 .. AreaSize - 1 : area[i] = Map(xid, TRUE)})
            < AreaSize - 1
    /\ Write(Map(xid, TRUE))
    /\ UNCHANGED <<zero, xid, mode, scan, index, superblock, mapIndex, mapXid,
                   opened>>

\* It is complete with its superblock.
WriteSuperblock ==
    /\ mode = "checkpoint" /\ scan = "closed"
    /\ Write(Superblock(xid, TRUE))
    /\ mode' = "idle"
    /\ UNCHANGED <<zero, xid, scan, index, superblock, mapIndex, mapXid, opened>>

\* The superblock in the first block is brought up to date now and then.
WriteZero ==
    /\ mode = "idle" /\ scan = "closed"
    /\ zero' = Superblock(xid, TRUE)
    /\ UNCHANGED <<area, next, xid, mode, scan, index, superblock, mapIndex,
                   mapXid, opened>>

\* The machine stops, between two writes or in the middle of one.
Crash ==
    /\ mode # "crashed" /\ scan = "closed"
    /\ mode' = "crashed"
    /\ \/ UNCHANGED <<area, next, xid>>
       \/ /\ TornWrites /\ mode = "checkpoint"
          /\ Write(Superblock(xid, FALSE))
          /\ UNCHANGED xid
       \/ /\ TornWrites /\ mode = "idle"
          /\ xid < MaxTransaction
          /\ xid' = xid + 1
          /\ Write(Map(xid', FALSE))
    /\ UNCHANGED <<zero, scan, index, superblock, mapIndex, mapXid, opened>>

-----------------------------------------------------------------------------
(***************************************************************************)
(* libfsapfs_internal_container_open_read.                                 *)
(***************************************************************************)

Fail ==
    /\ scan' = "done"
    /\ opened' = -1

\* Starts from the superblock in the first block of the container.
ReadZero ==
    /\ scan = "closed"
    /\ IF zero.whole
       THEN /\ superblock' = zero.xid
            /\ scan' = "scan"
            /\ UNCHANGED opened
       ELSE Fail /\ UNCHANGED superblock
    /\ UNCHANGED <<diskVars, index, mapIndex, mapXid>>

\* Fault: a map of the same transaction replaces the one that is kept, and an
\* older one too.
ScanMapKeepsLast ==
    /\ scan = "scan" /\ index <= AreaSize
    /\ area[index].type = "map"
    /\ mapIndex' = index
    /\ mapXid' = area[index].xid
    /\ index' = index + 1
    /\ UNCHANGED <<diskVars, scan, superblock, opened>>

\* Fault: the last superblock of the area is taken for the newest.
ScanSuperblockKeepsLast ==
    /\ scan = "scan" /\ index <= AreaSize
    /\ area[index].type = "superblock"
    /\ IF ~area[index].whole THEN Fail /\ UNCHANGED <<superblock, index>>
       ELSE /\ superblock' = area[index].xid
            /\ index' = index + 1
            /\ UNCHANGED <<scan, opened>>
    /\ UNCHANGED <<diskVars, mapIndex, mapXid>>

\* Fault: the map must be of the transaction of the superblock.
ReadMapMatches ==
    /\ scan = "map"
    /\ scan' = "done"
    /\ opened' = IF area[mapIndex].whole /\ mapXid = superblock THEN 1 ELSE -1
    /\ UNCHANGED <<diskVars, index, superblock, mapIndex, mapXid>>

\* The scan ends after index AreaSize: the block after the area is read too.
Scanning == scan = "scan" /\ index <= AreaSize

\* A map is kept when it is newer than the one kept so far.
ScanMap ==
    /\ Scanning
    /\ area[index].type = "map"
    /\ IF area[index].xid > mapXid
       THEN mapIndex' = index /\ mapXid' = area[index].xid
       ELSE UNCHANGED <<mapIndex, mapXid>>
    /\ index' = index + 1
    /\ UNCHANGED <<diskVars, scan, superblock, opened>>

\* A superblock is read, its checksum included, and kept when it is newer.
ScanSuperblock ==
    /\ Scanning
    /\ area[index].type = "superblock"
    /\ IF ~area[index].whole THEN Fail /\ UNCHANGED <<superblock, index>>
       ELSE /\ superblock' = IF area[index].xid > superblock
                             THEN area[index].xid ELSE superblock
            /\ index' = index + 1
            /\ UNCHANGED <<scan, opened>>
    /\ UNCHANGED <<diskVars, mapIndex, mapXid>>

ScanOther ==
    /\ Scanning
    /\ area[index].type = "other"
    /\ index' = index + 1
    /\ UNCHANGED <<diskVars, scan, superblock, mapIndex, mapXid, opened>>

ScanEnds ==
    /\ scan = "scan"
    /\ index > AreaSize
    /\ IF mapIndex = NoMap THEN Fail ELSE scan' = "map" /\ UNCHANGED opened
    /\ UNCHANGED <<diskVars, index, superblock, mapIndex, mapXid>>

\* The map that was kept is read, its checksum included.
ReadMap ==
    /\ scan = "map"
    /\ scan' = "done"
    /\ opened' = IF area[mapIndex].whole THEN 1 ELSE -1
    /\ UNCHANGED <<diskVars, index, superblock, mapIndex, mapXid>>

Scan == ScanMap \/ ScanSuperblock \/ ScanOther \/ ScanEnds \/ ReadMap

Next == \/ WriteMap \/ WriteAnotherMap \/ WriteSuperblock \/ WriteZero \/ Crash
        \/ ReadZero \/ Scan

Spec == Init /\ [][Next]_vars

=============================================================================
