-------------------------- MODULE CheckpointProofs --------------------------
(***************************************************************************)
(* Proofs about the scan for the newest checkpoint, for areas of any size, *)
(* any number of transactions and any crash.  See the module Checkpoint    *)
(* for what the properties say of the code.                                *)
(***************************************************************************)
EXTENDS Checkpoint, FiniteSetTheorems, TLAPS

\* The scan has a map to read when it says so, and begins at the first block.
StagesFit ==
    /\ scan = "map" => mapIndex # NoMap
    /\ scan = "closed" => index = 0

TypeInv == TypeOK /\ StagesFit

\* Maps and superblocks are blocks.
LEMMA BlocksAreTyped ==
    ASSUME NEW n \in Nat, NEW w \in BOOLEAN
    PROVE  Map(n, w) \in Block /\ Superblock(n, w) \in Block
BY DEF Map, Superblock, Block

\* The position after the last one written is in the area.
LEMMA NextIsInArea ==
    ASSUME NEW n \in Nat PROVE n % AreaSize \in 0 .. AreaSize - 1
BY AreaAssumption

\* A container that was just made is well typed.
LEMMA TypeInvInit == Init => TypeInv
<1> SUFFICES ASSUME Init PROVE TypeInv
    OBVIOUS
<1>1. PICK after \in BlocksAfter :
        area = [i \in 0 .. AreaSize |->
                    CASE i = 0 -> Map(1, TRUE)
                      [] i = 1 -> Superblock(1, TRUE)
                      [] i = AreaSize -> after
                      [] OTHER -> Other]
    BY DEF Init
<1>2. /\ Map(1, TRUE) \in Block /\ Superblock(1, TRUE) \in Block
      /\ Other \in Block /\ after \in Block
    BY BlocksAreTyped, AfterAssumption DEF Other, Block
<1>3. area \in [0 .. AreaSize -> Block]
    BY <1>1, <1>2
<1>4. next \in 0 .. AreaSize - 1
    BY NextIsInArea DEF Init
<1>5. zero \in Block
    BY Zenon, <1>2 DEF Init
<1>6. /\ xid = 1 /\ mode = "idle" /\ scan = "closed" /\ index = 0
      /\ superblock = 0 /\ mapIndex = NoMap /\ mapXid = 0 /\ opened = NoResult
    BY DEF Init
<1> QED BY <1>2, <1>3, <1>4, <1>5, <1>6, AreaAssumption
        DEF TypeInv, TypeOK, StagesFit

\* Every write and every step of the scan keeps the types.
LEMMA TypeInvNext == TypeInv /\ [Next]_vars => TypeInv'
<1> SUFFICES ASSUME TypeInv, [Next]_vars PROVE TypeInv'
    OBVIOUS
<1> USE AreaAssumption DEF TypeInv, TypeOK, StagesFit
<1>1. CASE UNCHANGED vars
    BY <1>1 DEF vars, diskVars
<1>2. ASSUME NEW b \in Block, Write(b)
      PROVE  area' \in [0 .. AreaSize -> Block] /\ next' \in 0 .. AreaSize - 1
    <2>1. area' \in [0 .. AreaSize -> Block]
        BY <1>2 DEF Write
    <2>2. next' \in 0 .. AreaSize - 1
        BY <1>2, NextIsInArea DEF Write
    <2> QED BY <2>1, <2>2
<1>3. CASE WriteMap
    <2>1. xid' \in Nat
        BY <1>3 DEF WriteMap
    <2>2. Map(xid', TRUE) \in Block
        BY <2>1, BlocksAreTyped
    <2>3. area' \in [0 .. AreaSize -> Block] /\ next' \in 0 .. AreaSize - 1
        BY <1>2, <1>3, <2>2 DEF WriteMap
    <2> QED BY <1>3, <2>1, <2>3 DEF WriteMap
<1>4. CASE WriteAnotherMap
    <2>1. area' \in [0 .. AreaSize -> Block] /\ next' \in 0 .. AreaSize - 1
        BY <1>2, <1>4, BlocksAreTyped DEF WriteAnotherMap
    <2> QED BY <1>4, <2>1 DEF WriteAnotherMap
<1>5. CASE WriteSuperblock
    <2>1. area' \in [0 .. AreaSize -> Block] /\ next' \in 0 .. AreaSize - 1
        BY <1>2, <1>5, BlocksAreTyped DEF WriteSuperblock
    <2> QED BY <1>5, <2>1 DEF WriteSuperblock
<1>6. CASE WriteZero
    BY <1>6, BlocksAreTyped DEF WriteZero
<1>7. CASE Crash
    <2>1. /\ area' \in [0 .. AreaSize -> Block] /\ next' \in 0 .. AreaSize - 1
          /\ xid' \in Nat
        <3>1. CASE UNCHANGED <<area, next, xid>>
            BY <3>1
        <3>2. CASE Write(Superblock(xid, FALSE)) /\ UNCHANGED xid
            BY <1>2, <3>2, BlocksAreTyped
        <3>3. CASE xid' = xid + 1 /\ Write(Map(xid', FALSE))
            <4>1. xid' \in Nat
                BY <3>3
            <4> QED BY <1>2, <3>3, <4>1, BlocksAreTyped
        <3> QED BY <1>7, <3>1, <3>2, <3>3 DEF Crash
    <2> QED BY <1>7, <2>1 DEF Crash
<1>8. CASE ReadZero
    BY <1>8 DEF ReadZero, Fail, diskVars, Block
<1>9. CASE ScanMap
    <2>1. index \in 0 .. AreaSize /\ area[index].xid \in Nat
        BY <1>9 DEF ScanMap, Scanning, Block
    <2> QED BY <1>9, <2>1 DEF ScanMap, Scanning, diskVars, NoMap
<1>10. CASE ScanSuperblock
    <2>1. index \in 0 .. AreaSize /\ area[index].xid \in Nat
        BY <1>10 DEF ScanSuperblock, Scanning, Block
    <2> QED BY <1>10, <2>1 DEF ScanSuperblock, Scanning, Fail, diskVars
<1>11. CASE ScanOther \/ ScanEnds
    <2>1. CASE ScanOther
        BY <2>1 DEF ScanOther, Scanning, diskVars
    <2>2. CASE ScanEnds
        BY <2>2 DEF ScanEnds, Scanning, Fail, diskVars
    <2> QED BY <1>11, <2>1, <2>2
<1>12. CASE ReadMap
    BY <1>12 DEF ReadMap, diskVars
<1> QED BY <1>1, <1>3, <1>4, <1>5, <1>6, <1>7, <1>8, <1>9, <1>10, <1>11, <1>12
        DEF Next, Scan

\* The scan stays inside the area and the one block after it, for areas of any
\* size, and reads a map only when it found one.
THEOREM TypeCorrect == Spec => []TypeOK
<1>1. TypeInv => TypeOK
    BY DEF TypeInv
<1> QED BY <1>1, TypeInvInit, TypeInvNext, PTL DEF Spec

-----------------------------------------------------------------------------
(***************************************************************************)
(* The newest checkpoint.                                                  *)
(***************************************************************************)

WholeSuperblock(b) == b.type = "superblock" /\ b.whole

\* A block is the whole superblock of a transaction when it looks like one.
LEMMA WholeSuperblocks ==
    ASSUME NEW b \in Block, NEW n
    PROVE  b = Superblock(n, TRUE) <=> WholeSuperblock(b) /\ b.xid = n
BY DEF Block, Superblock, WholeSuperblock

\* The first block holds a whole superblock, and superblocks in the area are
\* of transactions that were begun.
DiskFits ==
    /\ zero.type = "superblock" /\ zero.whole /\ zero.xid \in 1 .. xid
    /\ \A i \in 0 .. AreaSize - 1 :
          area[i].type = "superblock" => area[i].xid \in 1 .. xid

\* The blocks before `end` hold no newer superblock than the one that is kept,
\* which is one of them or the one in the first block.
NewestBefore(end) ==
    /\ zero.xid <= superblock
    /\ \A i \in 0 .. AreaSize :
          i < end /\ WholeSuperblock(area[i]) => area[i].xid <= superblock
    /\ \/ superblock = zero.xid
       \/ \E i \in 0 .. AreaSize :
             /\ i < end /\ WholeSuperblock(area[i])
             /\ area[i].xid = superblock

ScanFits ==
    /\ scan = "closed" => opened = NoResult
    /\ scan = "scan" => opened = NoResult /\ NewestBefore(index)
    /\ scan = "map" => opened = NoResult /\ NewestBefore(AreaSize + 1)
    /\ opened = 1 => scan = "done" /\ NewestBefore(AreaSize + 1)

NewestInv == DiskFits /\ ScanFits

\* The scan compares every superblock with the one it keeps, and the operating
\* system writes nothing while a container is open.
LEMMA NewestNext == TypeInv /\ NewestInv /\ [Next]_vars => NewestInv'
<1> SUFFICES ASSUME TypeInv, NewestInv, [Next]_vars PROVE NewestInv'
    OBVIOUS
<1> USE AreaAssumption DEF TypeInv, TypeOK, NewestInv
<1>1. CASE UNCHANGED vars
    BY <1>1 DEF vars, diskVars, DiskFits, ScanFits, NewestBefore
\* Writing needs a closed container.
<1>2. ASSUME scan = "closed", UNCHANGED <<scan, opened>> PROVE ScanFits'
    BY <1>2 DEF ScanFits, NoResult
<1>3. ASSUME NEW b \in Block, Write(b), UNCHANGED zero, xid' \in {xid, xid + 1},
             b.type = "superblock" => b.xid \in 1 .. xid
      PROVE  DiskFits'
    <2>1. /\ zero'.type = "superblock" /\ zero'.whole
          /\ zero'.xid \in 1 .. xid'
        BY <1>3 DEF DiskFits
    <2>2. ASSUME NEW i \in 0 .. AreaSize - 1, area'[i].type = "superblock"
          PROVE  area'[i].xid \in 1 .. xid'
        <3>1. area'[i] = b \/ area'[i] = area[i]
            BY <1>3 DEF Write
        <3> QED BY <1>3, <2>2, <3>1 DEF DiskFits
    <2> QED BY <2>1, <2>2 DEF DiskFits
<1>4. xid \in 1 .. xid
    BY DEF DiskFits
<1>5. CASE WriteMap
    <2>0. xid' = xid + 1 /\ xid' \in Nat
        BY <1>5 DEF WriteMap
    <2>1. Map(xid', TRUE) \in Block
        BY <2>0, BlocksAreTyped
    <2>2. DiskFits'
        BY <1>3, <1>5, <2>0, <2>1 DEF WriteMap, Map
    <2> QED BY <1>2, <1>5, <2>2 DEF WriteMap
<1>6. CASE WriteAnotherMap
    <2>1. Map(xid, TRUE) \in Block
        BY BlocksAreTyped
    <2>2. DiskFits'
        BY <1>3, <1>6, <2>1 DEF WriteAnotherMap, Map
    <2> QED BY <1>2, <1>6, <2>2 DEF WriteAnotherMap
<1>7. CASE WriteSuperblock
    <2>1. Superblock(xid, TRUE) \in Block
        BY BlocksAreTyped
    <2>2. DiskFits'
        BY <1>3, <1>4, <1>7, <2>1 DEF WriteSuperblock, Superblock
    <2> QED BY <1>2, <1>7, <2>2 DEF WriteSuperblock
<1>8. CASE WriteZero
    <2>1. DiskFits'
        BY <1>4, <1>8 DEF WriteZero, DiskFits, Superblock
    <2> QED BY <1>2, <1>8, <2>1 DEF WriteZero
<1>9. CASE Crash
    <2>1. UNCHANGED zero
        BY <1>9 DEF Crash
    <2>2. DiskFits'
        <3>1. CASE UNCHANGED <<area, next, xid>>
            BY <2>1, <3>1 DEF DiskFits
        <3>2. CASE Write(Superblock(xid, FALSE)) /\ UNCHANGED xid
            <4>1. Superblock(xid, FALSE) \in Block
                BY BlocksAreTyped
            <4> QED BY <1>3, <1>4, <2>1, <3>2, <4>1 DEF Superblock
        <3>3. CASE xid' = xid + 1 /\ Write(Map(xid', FALSE))
            <4>1. xid' \in Nat
                BY <3>3
            <4>2. Map(xid', FALSE) \in Block
                BY <4>1, BlocksAreTyped
            <4> QED BY <1>3, <2>1, <3>3, <4>2 DEF Map
        <3> QED BY <1>9, <3>1, <3>2, <3>3 DEF Crash
    <2> QED BY <1>2, <1>9, <2>2 DEF Crash
\* Reading leaves the disk alone.
<1>10. ASSUME UNCHANGED diskVars PROVE DiskFits'
    BY <1>10 DEF diskVars, DiskFits
<1>11. CASE ReadZero
    <2>1. zero.whole /\ zero.xid \in Nat
        BY DEF DiskFits
    <2>2. /\ superblock' = zero.xid /\ scan' = "scan" /\ index' = 0
          /\ opened' = NoResult /\ UNCHANGED <<area, zero>>
        BY <1>11, <2>1 DEF ReadZero, diskVars, StagesFit, ScanFits
    <2>3. NewestBefore(index)'
        BY <2>1, <2>2 DEF NewestBefore
    <2>4. ScanFits'
        BY <2>2, <2>3 DEF ScanFits, NoResult
    <2> QED BY <1>10, <1>11, <2>4 DEF ReadZero
<1>12. CASE ScanMap \/ ScanOther
    <2>1. /\ scan = "scan" /\ index \in 0 .. AreaSize
          /\ area[index].type # "superblock" /\ index' = index + 1
          /\ UNCHANGED <<area, zero, scan, superblock, opened>>
        BY <1>12 DEF ScanMap, ScanOther, Scanning, diskVars
    <2>2. NewestBefore(index) /\ opened = NoResult
        BY <2>1 DEF ScanFits
    <2>3. NewestBefore(index)'
        BY <2>1, <2>2 DEF NewestBefore, WholeSuperblock
    <2>4. ScanFits'
        BY <2>1, <2>2, <2>3 DEF ScanFits, NoResult
    <2> QED BY <1>10, <1>12, <2>4 DEF ScanMap, ScanOther
<1>13. CASE ScanSuperblock
    <2>1. /\ scan = "scan" /\ index \in 0 .. AreaSize /\ UNCHANGED <<area, zero>>
          /\ area[index].type = "superblock"
        BY <1>13 DEF ScanSuperblock, Scanning, diskVars
    <2>2. NewestBefore(index) /\ opened = NoResult
        BY <2>1 DEF ScanFits
    <2>3. area[index] \in Block
        BY <2>1
    <2>4. CASE ~area[index].whole
        BY <1>10, <1>13, <2>4 DEF ScanSuperblock, Fail, ScanFits
    <2>5. CASE area[index].whole
        <3>1. WholeSuperblock(area[index])
            BY <2>1, <2>5 DEF WholeSuperblock
        <3>2. /\ index' = index + 1 /\ UNCHANGED <<scan, opened>>
              /\ superblock' = IF area[index].xid > superblock
                               THEN area[index].xid ELSE superblock
            BY <1>13, <2>5 DEF ScanSuperblock
        <3>3. zero.xid \in Nat /\ \A i \in 0 .. AreaSize : area[i].xid \in Nat
            BY DEF Block
        <3>4. NewestBefore(index)'
            BY <2>1, <2>2, <3>1, <3>2, <3>3 DEF NewestBefore, WholeSuperblock
        <3>5. ScanFits'
            BY <2>1, <2>2, <3>2, <3>4 DEF ScanFits, NoResult
        <3> QED BY <1>10, <1>13, <3>5 DEF ScanSuperblock
    <2> QED BY <2>4, <2>5
<1>14. CASE ScanEnds
    <2>1. /\ scan = "scan" /\ index = AreaSize + 1
          /\ UNCHANGED <<area, zero, superblock>>
        BY <1>14 DEF ScanEnds, diskVars
    <2>2. NewestBefore(AreaSize + 1) /\ opened = NoResult
        BY <2>1 DEF ScanFits
    <2>3. NewestBefore(AreaSize + 1)'
        BY <2>1, <2>2 DEF NewestBefore
    <2>4. ScanFits'
        BY <1>14, <2>2, <2>3 DEF ScanEnds, Fail, ScanFits, NoResult
    <2> QED BY <1>10, <1>14, <2>4 DEF ScanEnds
<1>15. CASE ReadMap
    <2>1. /\ NewestBefore(AreaSize + 1) /\ UNCHANGED <<area, zero, superblock>>
          /\ scan' = "done"
        BY <1>15 DEF ReadMap, diskVars, ScanFits
    <2>2. NewestBefore(AreaSize + 1)'
        BY <2>1 DEF NewestBefore
    <2> QED BY <1>10, <1>15, <2>1, <2>2 DEF ReadMap, ScanFits
<1> QED BY <1>1, <1>5, <1>6, <1>7, <1>8, <1>9, <1>11, <1>12, <1>13, <1>14, <1>15
        DEF Next, Scan

\* A container that was just made has one superblock, and nothing was scanned.
LEMMA NewestInit == Init => NewestInv
<1> SUFFICES ASSUME Init PROVE NewestInv
    OBVIOUS
<1>1. /\ xid = 1 /\ zero = Superblock(1, TRUE)
      /\ scan = "closed" /\ opened = NoResult
    BY DEF Init
<1>2. ASSUME NEW i \in 0 .. AreaSize - 1, area[i].type = "superblock"
      PROVE  area[i].xid = 1
    <2>1. /\ i \in 0 .. AreaSize /\ i # AreaSize
        BY AreaAssumption
    <2>2. area[i] \in {Map(1, TRUE), Superblock(1, TRUE), Other}
        BY Zenon, <2>1 DEF Init
    <2> QED BY <1>2, <2>2 DEF Map, Superblock, Other
<1> QED BY <1>1, <1>2 DEF NewestInv, DiskFits, ScanFits, NoResult, Superblock

\* A container that opens, opens at its newest complete checkpoint: for an area
\* of any size, wherever the ring has wrapped, and whenever the machine has
\* stopped, as long as the block after the area is no superblock.
THEOREM NewestCheckpointIsOpened == Spec => []OpensAtNewestCheckpoint
<1>1. TypeInv /\ NewestInv => OpensAtNewestCheckpoint
    <2> SUFFICES ASSUME TypeInv, NewestInv,
                        opened = 1, area[AreaSize].type # "superblock"
                 PROVE  /\ superblock \in Complete
                        /\ \A n \in Complete : n <= superblock
        BY DEF OpensAtNewestCheckpoint
    <2> USE AreaAssumption DEF TypeInv, TypeOK, NewestInv
    <2>1. NewestBefore(AreaSize + 1)
        BY DEF ScanFits
    <2>2. zero = Superblock(zero.xid, TRUE) /\ zero.xid \in 1 .. xid
        BY WholeSuperblocks DEF DiskFits, WholeSuperblock
    <2>3. superblock \in Complete
        <3>1. CASE superblock = zero.xid
            BY <2>2, <3>1 DEF Complete
        <3>2. ASSUME NEW i \in 0 .. AreaSize, WholeSuperblock(area[i]),
                     area[i].xid = superblock
              PROVE  superblock \in Complete
            <4>1. i \in 0 .. AreaSize - 1
                <5>1. area[i].type # area[AreaSize].type
                    BY <3>2 DEF WholeSuperblock
                <5>2. i # AreaSize
                    BY <5>1
                <5> QED BY <5>2
            <4>2. superblock \in 1 .. xid
                BY <3>2, <4>1 DEF DiskFits, WholeSuperblock
            <4>3. area[i] = Superblock(superblock, TRUE)
                BY <3>2, WholeSuperblocks
            <4> QED BY <4>1, <4>2, <4>3 DEF Complete
        <3> QED BY <2>1, <3>1, <3>2 DEF NewestBefore
    <2>4. ASSUME NEW n \in Complete PROVE n <= superblock
        <3>1. CASE Superblock(n, TRUE) = zero
            <4>1. zero.xid = n
                BY <3>1, WholeSuperblocks
            <4> QED BY <2>1, <4>1 DEF NewestBefore
        <3>2. ASSUME NEW i \in 0 .. AreaSize - 1, Superblock(n, TRUE) = area[i]
              PROVE  n <= superblock
            <4>1. i \in 0 .. AreaSize /\ i < AreaSize + 1
                OBVIOUS
            <4>2. WholeSuperblock(area[i]) /\ area[i].xid = n
                BY <3>2, <4>1, WholeSuperblocks
            <4> QED BY <2>1, <4>1, <4>2 DEF NewestBefore
        <3> QED BY <3>1, <3>2 DEF Complete
    <2> QED BY <2>3, <2>4
<1> QED BY <1>1, TypeInvInit, TypeInvNext, NewestInit, NewestNext, PTL DEF Spec

-----------------------------------------------------------------------------
(***************************************************************************)
(* The ring.  Between two checkpoints the superblock of the newest one is  *)
(* the block before `next`; during one, the superblock of the one before   *)
(* it is still there, and only maps of the new one follow it up to `next`. *)
(***************************************************************************)

Ring == 0 .. AreaSize - 1

Before(i) == IF i = 0 THEN AreaSize - 1 ELSE i - 1

\* i is strictly between `first` and `end`, going round the ring.
Between(i, first, end) ==
    IF first < end THEN first < i /\ i < end ELSE first < i \/ i < end

\* All that was written after the block `s` is maps of the newest transaction.
OnlyMapsAfter(s) ==
    \A i \in Ring : Between(i, s, next) => area[i] = Map(xid, TRUE)

CheckpointDone ==
    /\ area[Before(next)] = Superblock(xid, TRUE)
    /\ \E i \in Ring : area[i] = Map(xid, TRUE)

CheckpointBegun ==
    /\ area[Before(next)] = Map(xid, TRUE)
    /\ \E s \in Ring : area[s] = Superblock(xid - 1, TRUE) /\ OnlyMapsAfter(s)

\* What a crash leaves: a checkpoint that is complete or begun, a torn
\* superblock, or a torn map that is the only one of its transaction.
CheckpointKept ==
    /\ \E i \in Ring : area[i] = Map(xid, TRUE)
    /\ \E i \in Ring : area[i] \in {Superblock(xid, TRUE), Superblock(xid - 1, TRUE)}

SuperblockTorn == \E i \in Ring : area[i].type = "superblock" /\ ~area[i].whole

MapTorn ==
    /\ \E i \in Ring : area[i] = Map(xid, FALSE)
    /\ \A i \in Ring :
          area[i].type = "map" /\ area[i].xid = xid => ~area[i].whole

RingFits ==
    /\ \A i \in Ring : area[i].type = "map" => area[i].xid <= xid
    /\ mode = "idle" => CheckpointDone
    /\ mode = "checkpoint" => CheckpointBegun
    /\ mode = "crashed" => CheckpointKept \/ SuperblockTorn \/ MapTorn

\* The blocks before `end` hold no newer map than the one that is kept, which
\* is one of them, and no torn superblock.
NewestMapBefore(end) ==
    /\ \A i \in 0 .. AreaSize :
          i < end /\ area[i].type = "map" => area[i].xid <= mapXid
    /\ mapIndex = NoMap => mapXid = 0
    /\ mapIndex # NoMap =>
          mapIndex < end /\ area[mapIndex].type = "map" /\ area[mapIndex].xid = mapXid
    /\ \A i \in 0 .. AreaSize :
          i < end /\ area[i].type = "superblock" => area[i].whole

MapScanFits ==
    /\ scan = "closed" => mapIndex = NoMap /\ mapXid = 0
    /\ scan = "scan" => NewestMapBefore(index)
    /\ scan = "map" => NewestMapBefore(AreaSize + 1)
    /\ opened = 1 =>
          /\ NewestMapBefore(AreaSize + 1)
          /\ mapIndex # NoMap /\ area[mapIndex].whole
    /\ opened = -1 => scan = "done" /\ \E i \in 0 .. AreaSize : ~area[i].whole

\* The ring has one block before each of its blocks, and `next` goes round it.
LEMMA RoundTheRing ==
    ASSUME NEW n \in Ring
    PROVE  /\ Before(n) \in Ring /\ Before(n) # n
           /\ (n + 1) % AreaSize = IF n = AreaSize - 1 THEN 0 ELSE n + 1
           /\ (n + 1) % AreaSize \in Ring
           /\ Before((n + 1) % AreaSize) = n
<1>1. AreaSize \in Nat /\ AreaSize >= 2 /\ n \in 0 .. AreaSize - 1
    BY AreaAssumption DEF Ring
<1>2. Before(n) \in Ring /\ Before(n) # n
    BY <1>1 DEF Before, Ring
<1>3. (n + 1) % AreaSize = IF n = AreaSize - 1 THEN 0 ELSE n + 1
    <2>1. CASE n = AreaSize - 1
        <3>1. n + 1 = AreaSize
            BY <1>1, <2>1
        <3>2. AreaSize % AreaSize = 0
            BY <1>1
        <3> QED BY <2>1, <3>1, <3>2
    <2>2. CASE n + 1 < AreaSize
        BY <1>1, <2>2
    <2> QED BY <1>1, <2>1, <2>2
<1>4. /\ (n + 1) % AreaSize \in Ring
      /\ Before((n + 1) % AreaSize) = n
    <2> DEFINE m == (n + 1) % AreaSize
    <2>1. m = IF n = AreaSize - 1 THEN 0 ELSE n + 1
        BY <1>3
    <2> HIDE DEF m
    <2>2. m \in Ring /\ Before(m) = n
        BY <1>1, <2>1 DEF Before, Ring
    <2> QED BY <2>2 DEF m
<1> QED BY <1>2, <1>3, <1>4

\* A write changes the block at `next` only, which becomes the one before it.
LEMMA WriteEffect ==
    ASSUME TypeInv, NEW b, Write(b)
    PROVE  /\ next \in Ring /\ next' \in Ring
           /\ Before(next) \in Ring /\ Before(next) # next
           /\ next' = IF next = AreaSize - 1 THEN 0 ELSE next + 1
           /\ Before(next') = next
           /\ area'[next] = b
           /\ \A i \in 0 .. AreaSize : i # next => area'[i] = area[i]
<1>1. next \in Ring /\ next' = (next + 1) % AreaSize
    BY DEF TypeInv, TypeOK, Write, Ring
<1>2. area'[next] = b /\ \A i \in 0 .. AreaSize : i # next => area'[i] = area[i]
    <2>1. next \in 0 .. AreaSize /\ area \in [0 .. AreaSize -> Block]
        BY <1>1, AreaAssumption DEF TypeInv, TypeOK, Ring
    <2> QED BY <2>1 DEF Write
<1>3. /\ Before(next) \in Ring /\ Before(next) # next
      /\ (next + 1) % AreaSize = IF next = AreaSize - 1 THEN 0 ELSE next + 1
      /\ (next + 1) % AreaSize \in Ring
      /\ Before((next + 1) % AreaSize) = next
    BY <1>1, RoundTheRing
<1> QED BY <1>1, <1>2, <1>3

\* WriteAnotherMap leaves room: the block it writes is not the superblock that
\* only maps follow.
LEMMA RoomForSuperblock ==
    ASSUME TypeInv, NEW s \in Ring, area[s].type = "superblock", OnlyMapsAfter(s),
           Cardinality({i \in 0 .. AreaSize - 1 : area[i] = Map(xid, TRUE)})
                < AreaSize - 1
    PROVE  s # next
<1> SUFFICES ASSUME s = next PROVE FALSE
    OBVIOUS
<1> DEFINE maps == {i \in 0 .. AreaSize - 1 : area[i] = Map(xid, TRUE)}
<1>1. AreaSize \in Nat /\ AreaSize >= 2 /\ s \in 0 .. AreaSize - 1
    BY AreaAssumption DEF Ring
<1>2. area[s] # Map(xid, TRUE)
    BY DEF Map
<1>3. ASSUME NEW i \in 0 .. AreaSize - 1, i # s PROVE area[i] = Map(xid, TRUE)
    <2>1. Between(i, s, next)
        BY <1>1, <1>3 DEF Between
    <2> QED BY <2>1 DEF OnlyMapsAfter, Ring
<1>4. maps = (0 .. AreaSize - 1) \ {s}
    BY <1>2, <1>3
<1>5. IsFiniteSet(0 .. AreaSize - 1) /\ Cardinality(0 .. AreaSize - 1) = AreaSize
    BY <1>1, FS_Interval
<1>6. Cardinality((0 .. AreaSize - 1) \ {s}) = AreaSize - 1
    BY <1>1, <1>5, FS_RemoveElement, ZenonT(30)
<1>7. Cardinality(maps) < AreaSize - 1
    OBVIOUS
<1> HIDE DEF maps
<1> QED BY <1>1, <1>4, <1>6, <1>7

\* Every write keeps the ring in order, and a crash leaves one of three things.
LEMMA RingNext ==
    ASSUME TypeInv, NewestInv, RingFits, [Next]_vars
    PROVE  RingFits'
<1>0. /\ AreaSize \in Nat /\ AreaSize >= 2 /\ xid \in Nat /\ xid >= 1
      /\ \A i \in 0 .. AreaSize : area[i] \in Block
      /\ \A i \in Ring : i \in 0 .. AreaSize
      /\ next \in Ring
    BY AreaAssumption DEF TypeInv, TypeOK, NewestInv, DiskFits, Ring
<1>1. ASSUME UNCHANGED diskVars PROVE RingFits'
    BY <1>1 DEF diskVars, RingFits, CheckpointDone, CheckpointBegun, OnlyMapsAfter,
                CheckpointKept, SuperblockTorn, MapTorn
\* Maps of transactions that were begun stay the only maps.
<1>2. ASSUME NEW b, Write(b), xid' \in Nat, xid <= xid',
             b.type = "map" => b.xid <= xid'
      PROVE  \A i \in Ring : area'[i].type = "map" => area'[i].xid <= xid'
    <2> SUFFICES ASSUME NEW i \in Ring, area'[i].type = "map"
                 PROVE  area'[i].xid <= xid'
        OBVIOUS
    <2>1. CASE i = next
        BY <1>2, <2>1, WriteEffect
    <2>2. CASE i # next
        <3>1. area'[i] = area[i] /\ area[i].xid \in Nat
            BY <1>0, <1>2, <2>2, WriteEffect DEF Block
        <3>2. area[i].xid <= xid
            BY <3>1 DEF RingFits
        <3> QED BY <1>0, <1>2, <3>1, <3>2
    <2> QED BY <2>1, <2>2
<1>3. CASE WriteMap
    <2>1. /\ mode = "idle" /\ mode' = "checkpoint" /\ xid' = xid + 1
          /\ Write(Map(xid', TRUE))
        BY <1>3 DEF WriteMap
    <2>2. /\ next' = IF next = AreaSize - 1 THEN 0 ELSE next + 1
          /\ Before(next) \in Ring /\ Before(next) # next /\ Before(next') = next
          /\ area'[next] = Map(xid', TRUE)
          /\ area'[Before(next)] = area[Before(next)]
        BY <1>0, <2>1, WriteEffect
    <2>3. \A i \in Ring : area'[i].type = "map" => area'[i].xid <= xid'
        BY <1>0, <1>2, <2>1 DEF Map
    <2>4. PICK s \in Ring : s = Before(next)
        BY <2>2
    <2>5. area'[s] = Superblock(xid' - 1, TRUE)
        <3>1. xid' - 1 = xid
            BY <1>0, <2>1
        <3> QED BY <2>1, <2>2, <2>4, <3>1 DEF RingFits, CheckpointDone
    <2>6. \A i \in Ring : Between(i, s, next') => i = next
        BY <1>0, <2>2, <2>4 DEF Between, Before, Ring
    <2>7. CheckpointBegun'
        BY <2>2, <2>5, <2>6 DEF CheckpointBegun, OnlyMapsAfter
    <2> QED BY <2>1, <2>3, <2>7 DEF RingFits
<1>4. CASE WriteAnotherMap
    <2>1. /\ mode = "checkpoint" /\ mode' = "checkpoint" /\ xid' = xid
          /\ Write(Map(xid, TRUE))
          /\ Cardinality({i \in 0 .. AreaSize - 1 : area[i] = Map(xid, TRUE)})
                < AreaSize - 1
        BY <1>4 DEF WriteAnotherMap
    <2>2. /\ next' = IF next = AreaSize - 1 THEN 0 ELSE next + 1
          /\ Before(next') = next
          /\ area'[next] = Map(xid, TRUE)
          /\ \A i \in 0 .. AreaSize : i # next => area'[i] = area[i]
        BY <2>1, WriteEffect
    <2>3. \A i \in Ring : area'[i].type = "map" => area'[i].xid <= xid'
        BY <1>0, <1>2, <2>1 DEF Map
    <2>4. PICK s \in Ring : area[s] = Superblock(xid - 1, TRUE) /\ OnlyMapsAfter(s)
        BY <2>1 DEF RingFits, CheckpointBegun
    <2>5. s # next
        <3>1. area[s].type = "superblock"
            BY <2>4 DEF Superblock
        <3> QED BY <2>1, <2>4, <3>1, RoomForSuperblock
    <2>6. area'[s] = Superblock(xid' - 1, TRUE)
        BY <1>0, <2>1, <2>2, <2>4, <2>5
    <2>7. \A i \in Ring : Between(i, s, next') => i = next \/ Between(i, s, next)
        BY <1>0, <2>2, <2>5 DEF Between, Ring
    <2>8. \A i \in Ring : Between(i, s, next') => area'[i] = Map(xid', TRUE)
        BY <1>0, <2>1, <2>2, <2>4, <2>7 DEF OnlyMapsAfter
    <2>9. CheckpointBegun'
        BY <2>1, <2>2, <2>6, <2>8 DEF CheckpointBegun, OnlyMapsAfter
    <2> QED BY <2>1, <2>3, <2>9 DEF RingFits
<1>5. CASE WriteSuperblock
    <2>1. /\ mode = "checkpoint" /\ mode' = "idle" /\ xid' = xid
          /\ Write(Superblock(xid, TRUE))
        BY <1>5 DEF WriteSuperblock
    <2>2. /\ Before(next') = next /\ area'[next] = Superblock(xid', TRUE)
          /\ Before(next) \in Ring
          /\ area'[Before(next)] = area[Before(next)]
        BY <1>0, <2>1, WriteEffect
    <2>3. \A i \in Ring : area'[i].type = "map" => area'[i].xid <= xid'
        BY <1>0, <1>2, <2>1 DEF Superblock
    <2>4. area[Before(next)] = Map(xid', TRUE)
        BY <2>1 DEF RingFits, CheckpointBegun
    <2>5. CheckpointDone'
        BY <2>2, <2>4 DEF CheckpointDone
    <2> QED BY <2>1, <2>3, <2>5 DEF RingFits
<1>6. CASE WriteZero
    BY <1>6 DEF WriteZero, RingFits, CheckpointDone
<1>7. CASE Crash
    <2>1. mode \in {"idle", "checkpoint"} /\ mode' = "crashed"
        BY <1>7 DEF Crash, TypeInv, TypeOK
    <2>2. Before(next) \in Ring
        BY <1>0, RoundTheRing
    <2>3. CASE UNCHANGED <<area, next, xid>>
        <3>1. CheckpointKept
            BY <2>1, <2>2
               DEF RingFits, CheckpointDone, CheckpointBegun, CheckpointKept
        <3> QED BY <2>1, <2>3, <3>1 DEF RingFits, CheckpointKept
    <2>4. CASE Write(Superblock(xid, FALSE)) /\ UNCHANGED xid
        <3>1. \A i \in Ring : area'[i].type = "map" => area'[i].xid <= xid'
            BY <1>0, <1>2, <2>4 DEF Superblock
        <3>2. SuperblockTorn'
            <4>1. area'[next].type = "superblock" /\ ~area'[next].whole
                BY <2>4, WriteEffect DEF Superblock
            <4> QED BY <1>0, <4>1 DEF SuperblockTorn
        <3> QED BY <2>1, <3>1, <3>2 DEF RingFits
    <2>5. CASE xid' = xid + 1 /\ Write(Map(xid', FALSE))
        <3>1. \A i \in Ring : area'[i].type = "map" => area'[i].xid <= xid'
            BY <1>0, <1>2, <2>5 DEF Map
        <3>2. area'[next] = Map(xid', FALSE)
            BY <2>5, WriteEffect
        <3>3. ASSUME NEW i \in Ring, area'[i].type = "map", area'[i].xid = xid'
              PROVE  ~area'[i].whole
            <4>1. CASE i = next
                BY <3>2, <4>1 DEF Map
            <4>2. CASE i # next
                <5>1. area'[i] = area[i]
                    BY <1>0, <2>5, <4>2, WriteEffect
                <5>2. area[i].xid <= xid
                    BY <3>3, <5>1 DEF RingFits
                <5> QED BY <1>0, <2>5, <3>3, <5>1, <5>2
            <4> QED BY <4>1, <4>2
        <3>4. MapTorn'
            BY <1>0, <3>2, <3>3 DEF MapTorn, Ring
        <3> QED BY <2>1, <3>1, <3>4 DEF RingFits
    <2> QED BY <1>7, <2>3, <2>4, <2>5 DEF Crash
<1>8. CASE UNCHANGED vars
    BY <1>1, <1>8 DEF vars
<1>9. CASE ReadZero \/ Scan
    BY <1>1, <1>9 DEF ReadZero, Scan, ScanMap, ScanSuperblock, ScanOther, ScanEnds,
                      ReadMap
<1> QED BY <1>3, <1>4, <1>5, <1>6, <1>7, <1>8, <1>9 DEF Next

\* Unless something in the area is torn, it holds a map.
LEMMA RingHoldsMap ==
    ASSUME TypeInv, NewestInv, RingFits, \A i \in 0 .. AreaSize : area[i].whole
    PROVE  CheckpointKept
<1>1. \A i \in Ring : i \in 0 .. AreaSize
    BY AreaAssumption DEF Ring
<1>2. Before(next) \in Ring
    BY RoundTheRing DEF TypeInv, TypeOK, Ring
<1>3. mode = "idle" => CheckpointKept
    BY <1>2 DEF RingFits, CheckpointDone, CheckpointKept
<1>4. mode = "checkpoint" => CheckpointKept
    BY <1>2 DEF RingFits, CheckpointBegun, CheckpointKept
<1>5. ~SuperblockTorn
    BY <1>1 DEF SuperblockTorn
<1>6. ~MapTorn
    BY <1>1 DEF MapTorn, Map
<1> QED BY <1>3, <1>4, <1>5, <1>6 DEF RingFits, TypeInv, TypeOK

\* The scan compares every map with the one it keeps, goes on past whole
\* superblocks only, and fails for a block that is torn.
LEMMA MapScanNext ==
    ASSUME TypeInv, NewestInv, RingFits, MapScanFits, [Next]_vars
    PROVE  MapScanFits'
<1>0. /\ AreaSize \in Nat /\ AreaSize >= 2 /\ xid \in Nat /\ xid >= 1
      /\ \A i \in 0 .. AreaSize : area[i] \in Block /\ area[i].xid \in Nat
      /\ mapXid \in Nat /\ index \in 0 .. AreaSize + 1
      /\ mapIndex \in 0 .. AreaSize \cup {NoMap}
    BY AreaAssumption DEF TypeInv, TypeOK, NewestInv, DiskFits, Block
<1>1. CASE UNCHANGED vars
    BY <1>1 DEF vars, diskVars, MapScanFits, NewestMapBefore
\* Writing needs a closed container.
<1>2. ASSUME scan = "closed", UNCHANGED <<scan, opened, mapIndex, mapXid>>
      PROVE  MapScanFits'
    <2>1. opened = NoResult
        BY <1>2 DEF NewestInv, ScanFits
    <2> QED BY <1>2, <2>1 DEF MapScanFits, NoResult
<1>3. CASE WriteMap \/ WriteAnotherMap \/ WriteSuperblock \/ WriteZero \/ Crash
    BY <1>2, <1>3 DEF WriteMap, WriteAnotherMap, WriteSuperblock, WriteZero, Crash
<1>4. CASE ReadZero
    <2>1. /\ scan' = "scan" /\ index' = 0 /\ opened' = NoResult
          /\ mapIndex' = NoMap /\ mapXid' = 0
        BY <1>4 DEF ReadZero, NewestInv, DiskFits, ScanFits, TypeInv, StagesFit,
                    MapScanFits
    <2>2. NewestMapBefore(index)'
        BY <2>1 DEF NewestMapBefore
    <2> QED BY <2>1, <2>2 DEF MapScanFits, NoResult
<1>5. CASE ScanMap
    <2>1. /\ scan = "scan" /\ scan' = "scan" /\ index \in 0 .. AreaSize
          /\ area[index].type = "map" /\ index' = index + 1
          /\ UNCHANGED <<area, opened>>
          /\ IF area[index].xid > mapXid
             THEN mapIndex' = index /\ mapXid' = area[index].xid
             ELSE UNCHANGED <<mapIndex, mapXid>>
        BY <1>0, <1>5 DEF ScanMap, Scanning, diskVars
    <2>2. opened = NoResult /\ NewestMapBefore(index)
        BY <2>1 DEF NewestInv, ScanFits, MapScanFits
    <2>3. \A i \in 0 .. AreaSize :
             i < index' /\ area'[i].type = "map" => area'[i].xid <= mapXid'
        BY <1>0, <2>1, <2>2 DEF NewestMapBefore
    <2>4. /\ mapIndex' = NoMap => mapXid' = 0
          /\ mapIndex' # NoMap =>
                /\ mapIndex' < index' /\ area'[mapIndex'].type = "map"
                /\ area'[mapIndex'].xid = mapXid'
        BY <1>0, <2>1, <2>2 DEF NewestMapBefore, NoMap
    <2>5. \A i \in 0 .. AreaSize :
             i < index' /\ area'[i].type = "superblock" => area'[i].whole
        BY <1>0, <2>1, <2>2 DEF NewestMapBefore
    <2>6. NewestMapBefore(index)'
        BY <2>3, <2>4, <2>5 DEF NewestMapBefore
    <2> QED BY <2>1, <2>2, <2>6 DEF MapScanFits, NoResult
\* A block that is no map and no torn superblock changes neither.
<1>6. ASSUME scan = "scan", index <= AreaSize, area[index].type # "map",
             area[index].type = "superblock" => area[index].whole,
             index' = index + 1, UNCHANGED <<area, scan, opened, mapIndex, mapXid>>
      PROVE  MapScanFits'
    <2>1. opened = NoResult /\ NewestMapBefore(index) /\ index \in 0 .. AreaSize
        BY <1>0, <1>6 DEF NewestInv, ScanFits, MapScanFits
    <2>2. NewestMapBefore(index)'
        BY <1>0, <1>6, <2>1 DEF NewestMapBefore, NoMap
    <2> QED BY <1>6, <2>1, <2>2 DEF MapScanFits, NoResult
<1>7. CASE ScanOther
    BY <1>6, <1>7 DEF ScanOther, Scanning, diskVars
<1>8. CASE ScanSuperblock
    <2>1. CASE area[index].whole
        BY <1>6, <1>8, <2>1 DEF ScanSuperblock, Scanning, diskVars
    <2>2. CASE ~area[index].whole
        <3>1. /\ index \in 0 .. AreaSize /\ scan' = "done" /\ opened' = -1
              /\ UNCHANGED area
            BY <1>0, <1>8, <2>2 DEF ScanSuperblock, Scanning, Fail, diskVars
        <3> QED BY <2>2, <3>1 DEF MapScanFits
    <2> QED BY <2>1, <2>2
<1>9. CASE ScanEnds
    <2>1. /\ scan = "scan" /\ index = AreaSize + 1
          /\ UNCHANGED <<area, mapIndex, mapXid>>
        BY <1>0, <1>9 DEF ScanEnds, diskVars
    <2>2. opened = NoResult /\ NewestMapBefore(AreaSize + 1)
        BY <2>1 DEF NewestInv, ScanFits, MapScanFits
    <2>3. NewestMapBefore(AreaSize + 1)'
        BY <2>1, <2>2 DEF NewestMapBefore
    <2>4. CASE mapIndex # NoMap
        <3>1. scan' = "map" /\ opened' = NoResult
            BY <1>9, <2>2, <2>4 DEF ScanEnds
        <3> QED BY <2>3, <3>1 DEF MapScanFits, NoResult
    <2>5. CASE mapIndex = NoMap
        <3>1. scan' = "done" /\ opened' = -1
            BY <1>9, <2>5 DEF ScanEnds, Fail
        <3>2. ~CheckpointKept
            <4> SUFFICES ASSUME NEW i \in Ring, area[i] = Map(xid, TRUE) PROVE FALSE
                BY DEF CheckpointKept
            <4>1. i \in 0 .. AreaSize /\ i < AreaSize + 1
                BY <1>0 DEF Ring
            <4>2. area[i].type = "map" /\ area[i].xid = xid
                BY DEF Map
            <4>3. xid <= mapXid /\ mapXid = 0
                BY <2>2, <2>5, <4>1, <4>2 DEF NewestMapBefore
            <4> QED BY <1>0, <4>3
        <3>3. \E i \in 0 .. AreaSize : ~area[i].whole
            BY <3>2, RingHoldsMap
        <3> QED BY <2>1, <3>1, <3>3 DEF MapScanFits
    <2> QED BY <2>4, <2>5
<1>10. CASE ReadMap
    <2>1. /\ scan = "map" /\ scan' = "done" /\ UNCHANGED <<area, mapIndex, mapXid>>
          /\ opened' = IF area[mapIndex].whole THEN 1 ELSE -1
        BY <1>10 DEF ReadMap, diskVars
    <2>2. NewestMapBefore(AreaSize + 1) /\ mapIndex # NoMap
        BY <2>1 DEF MapScanFits, TypeInv, StagesFit
    <2>3. NewestMapBefore(AreaSize + 1)'
        BY <2>1, <2>2 DEF NewestMapBefore
    <2>4. mapIndex \in 0 .. AreaSize
        BY <1>0, <2>2
    <2> QED BY <2>1, <2>2, <2>3, <2>4 DEF MapScanFits
<1> QED BY <1>1, <1>3, <1>4, <1>5, <1>7, <1>8, <1>9, <1>10 DEF Next, Scan

\* The first checkpoint is complete and nothing has been scanned.
LEMMA MapInit == Init => RingFits /\ MapScanFits
<1> SUFFICES ASSUME Init PROVE RingFits /\ MapScanFits
    OBVIOUS
<1>0. AreaSize \in Nat /\ AreaSize >= 2
    BY AreaAssumption
<1>1. MapScanFits
    BY DEF Init, MapScanFits, NoResult
<1>2. /\ 0 \in 0 .. AreaSize /\ 1 \in 0 .. AreaSize /\ 1 # 0
      /\ 0 \in Ring /\ 1 \in Ring
      /\ \A i \in Ring : i \in 0 .. AreaSize /\ i # AreaSize
    BY <1>0 DEF Ring
<1>3. /\ area[0] = Map(1, TRUE) /\ area[1] = Superblock(1, TRUE)
      /\ \A i \in Ring : area[i] \in {Map(1, TRUE), Superblock(1, TRUE), Other}
    BY Zenon, <1>2 DEF Init
<1>4. Before(next) = 1
    <2>1. 2 % AreaSize = IF AreaSize = 2 THEN 0 ELSE 2
        BY <1>0
    <2>2. next = 2 % AreaSize
        BY DEF Init
    <2> QED BY <1>0, <2>1, <2>2 DEF Before
<1>5. xid = 1 /\ mode = "idle"
    BY DEF Init
<1>6. CheckpointDone
    BY <1>2, <1>3, <1>4, <1>5 DEF CheckpointDone
<1>7. \A i \in Ring : area[i].type = "map" => area[i].xid <= xid
    BY <1>3, <1>5 DEF Map, Superblock, Other
<1> QED BY <1>1, <1>5, <1>6, <1>7 DEF RingFits

\* The container opens with the map of the checkpoint it opens at, or of the one
\* that was interrupted after it, for areas of any size and any crash.
THEOREM MapsAreNotOlder == Spec => []MapIsNotOlder
<1>1. TypeInv /\ NewestInv /\ RingFits /\ MapScanFits => MapIsNotOlder
    <2> SUFFICES ASSUME TypeInv, NewestInv, RingFits, MapScanFits,
                        opened = 1, area[AreaSize].type = "other"
                 PROVE  mapXid \in {superblock, superblock + 1}
        BY DEF MapIsNotOlder
    <2>0. /\ AreaSize \in Nat /\ xid \in Nat /\ xid >= 1
          /\ superblock \in Nat /\ mapXid \in Nat
          /\ \A i \in 0 .. AreaSize : area[i] \in Block /\ area[i].xid \in Nat
          /\ \A i \in Ring : i \in 0 .. AreaSize /\ i < AreaSize + 1
          /\ \A i \in 0 .. AreaSize : i # AreaSize => i \in Ring
          /\ zero.xid \in 1 .. xid
        BY AreaAssumption DEF TypeInv, TypeOK, NewestInv, DiskFits, Block, Ring
    <2>1. /\ NewestBefore(AreaSize + 1) /\ NewestMapBefore(AreaSize + 1)
          /\ mapIndex # NoMap /\ area[mapIndex].whole
        BY DEF NewestInv, ScanFits, MapScanFits
    <2>2. /\ mapIndex \in 0 .. AreaSize /\ area[mapIndex].type = "map"
          /\ area[mapIndex].xid = mapXid
        BY <2>1 DEF TypeInv, TypeOK, NewestMapBefore
    <2>3. mapIndex \in Ring
        BY <2>0, <2>2
    <2>4. mapXid <= xid
        BY <2>2, <2>3 DEF RingFits
    \* The map kept is whole, so that it is not a torn one, and the scan did not
    \* meet a torn superblock.
    <2>5. CheckpointKept
        <3>1. ~SuperblockTorn
            BY <2>0, <2>1 DEF SuperblockTorn, NewestMapBefore
        <3>2. ~MapTorn
            <4> SUFFICES ASSUME MapTorn PROVE FALSE
                OBVIOUS
            <4>1. PICK i \in Ring : area[i] = Map(xid, FALSE)
                BY DEF MapTorn
            <4>2. area[i].type = "map" /\ area[i].xid = xid
                BY <4>1 DEF Map
            <4>3. xid <= mapXid
                BY <2>0, <2>1, <4>2 DEF NewestMapBefore
            <4>4. mapXid = xid
                BY <2>0, <2>4, <4>3
            <4> QED BY <2>1, <2>2, <2>3, <4>4 DEF MapTorn
        <3>3. Before(next) \in Ring
            BY RoundTheRing DEF TypeInv, TypeOK, Ring
        <3>4. mode = "idle" => CheckpointKept
            BY <3>3 DEF RingFits, CheckpointDone, CheckpointKept
        <3>5. mode = "checkpoint" => CheckpointKept
            BY <3>3 DEF RingFits, CheckpointBegun, CheckpointKept
        <3> QED BY <3>1, <3>2, <3>4, <3>5 DEF RingFits, TypeInv, TypeOK
    <2>6. mapXid = xid
        <3>1. PICK i \in Ring : area[i] = Map(xid, TRUE)
            BY <2>5 DEF CheckpointKept
        <3>2. area[i].type = "map" /\ area[i].xid = xid
            BY <3>1 DEF Map
        <3>3. xid <= mapXid
            BY <2>0, <2>1, <3>2 DEF NewestMapBefore
        <3> QED BY <2>0, <2>4, <3>3
    <2>7. xid - 1 <= superblock
        <3>1. PICK i \in Ring :
                area[i] \in {Superblock(xid, TRUE), Superblock(xid - 1, TRUE)}
            BY <2>5 DEF CheckpointKept
        <3>2. WholeSuperblock(area[i]) /\ area[i].xid \in {xid, xid - 1}
            BY <3>1 DEF Superblock, WholeSuperblock
        <3>3. area[i].xid <= superblock
            BY <2>0, <2>1, <3>2 DEF NewestBefore
        <3> QED BY <2>0, <3>2, <3>3
    <2>8. superblock <= xid
        <3>1. CASE superblock = zero.xid
            BY <2>0, <3>1
        <3>2. ASSUME NEW i \in 0 .. AreaSize, WholeSuperblock(area[i]),
                     area[i].xid = superblock
              PROVE  superblock <= xid
            <4>1. area[i].type = "superblock"
                BY <3>2 DEF WholeSuperblock
            <4>2. area[i].type # area[AreaSize].type
                BY <4>1
            <4>3. i # AreaSize
                BY <4>2
            <4>4. i \in 0 .. AreaSize - 1
                BY <2>0, <4>3
            <4>5. area[i].xid \in 1 .. xid
                BY <4>1, <4>4 DEF NewestInv, DiskFits
            <4> QED BY <2>0, <3>2, <4>5
        <3> QED BY <2>1, <3>1, <3>2 DEF NewestBefore
    <2> QED BY <2>0, <2>6, <2>7, <2>8
<1>2. TypeInv /\ NewestInv /\ RingFits /\ [Next]_vars => RingFits'
    BY RingNext
<1>3. TypeInv /\ NewestInv /\ RingFits /\ MapScanFits /\ [Next]_vars => MapScanFits'
    BY MapScanNext
<1> QED BY <1>1, <1>2, <1>3, TypeInvInit, TypeInvNext, NewestInit, NewestNext, MapInit,
           PTL DEF Spec

\* A container whose area holds no torn block always opens: the first block is
\* good, the ring keeps a map at all times, and nothing else makes the scan fail.
THEOREM CrashesDoNoHarm == Spec => []CrashDoesNoHarm
<1>1. TypeInv /\ MapScanFits => CrashDoesNoHarm
    BY DEF MapScanFits, CrashDoesNoHarm
<1>2. TypeInv /\ NewestInv /\ RingFits /\ [Next]_vars => RingFits'
    BY RingNext
<1>3. TypeInv /\ NewestInv /\ RingFits /\ MapScanFits /\ [Next]_vars => MapScanFits'
    BY MapScanNext
<1> QED BY <1>1, <1>2, <1>3, TypeInvInit, TypeInvNext, NewestInit, NewestNext, MapInit,
           PTL DEF Spec
=============================================================================
