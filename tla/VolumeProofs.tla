---------------------------- MODULE VolumeProofs ----------------------------
(***************************************************************************)
(* Proofs about Volume, for every set of threads, disks, passwords, files  *)
(* and snapshot indexes.                                                   *)
(***************************************************************************)
EXTENDS Volume, TLAPS

-----------------------------------------------------------------------------
(***************************************************************************)
(* What an operation does to the handle, in four groups: those that only   *)
(* look at it, the password setters, unlock and the look-ups.              *)
(***************************************************************************)

ReadBody(t) ==
    /\ pc[t] = "inside" /\ call[t].op \in ReadOps
    /\ \E r \in {-1, 0, 1} : Return(t, r)
    /\ UNCHANGED handleVars
    /\ \/ ReleaseForRead(t)
       \/ /\ call[t].op = "get_snapshot_by_index"
          /\ call[t].index \notin 0 .. NumberOfSnapshots - 1
          /\ UNCHANGED lockVars

PasswordBody(t) ==
    /\ pc[t] = "inside" /\ call[t].op \in PasswordOps
    /\ \E r \in {-1, 0, 1} : Return(t, r)
    /\ userPassword' \in Password /\ recoveryPassword' \in Password
    /\ ReleaseForWrite(t)
    /\ UNCHANGED <<owned, superblock, isLocked, keysSet, rootBlock>>

LookUpBody(t) == pc[t] = "inside" /\ call[t].op \in FileOps /\ LookUp(t)

\* The arguments of calls.
LEMMA CallArguments ==
    ASSUME NEW c \in Calls \cup {NoCall}
    PROVE  c.op \in PasswordOps => c.arg \in Texts \cup {EmptyText}
<1>1. c \in Calls => (c.op \in PasswordOps => c.arg \in Texts \cup {EmptyText})
    BY DEF Calls, ReadOps, PasswordOps, FileOps
<1>2. NoCall.op \notin PasswordOps
    BY DEF NoCall, PasswordOps
<1> QED BY <1>1, <1>2

\* Every operation is in one of the groups.
LEMMA BodyGroups ==
    ASSUME TypeOK, NEW t \in Threads, Body(t)
    PROVE  ReadBody(t) \/ PasswordBody(t) \/ Unlock(t) \/ LookUpBody(t)
<1>1. ASSUME NEW op \in ReadOps, NEW results \in SUBSET {-1, 0, 1},
             Getter(t, op, results)
      PROVE  ReadBody(t)
    BY <1>1 DEF Getter, Inside, ReadBody
<1>2. CASE GetSnapshotByIndex(t)
    <2>1. Inside(t, "get_snapshot_by_index") /\ UNCHANGED handleVars
        BY <1>2 DEF GetSnapshotByIndex
    <2>2. \/ ReleaseForRead(t) /\ \E r \in {-1, 0, 1} : Return(t, r)
          \/ /\ call[t].index \notin 0 .. NumberOfSnapshots - 1
             /\ UNCHANGED lockVars /\ Return(t, -1)
        BY <1>2 DEF GetSnapshotByIndex
    <2> QED BY <2>1, <2>2 DEF Inside, ReadBody, ReadOps
<1>3. CASE SetUtf8Password(t) \/ SetUtf16Password(t)
           \/ SetUtf8RecoveryPassword(t) \/ SetUtf16RecoveryPassword(t)
    <2>1. pc[t] = "inside" /\ call[t].op \in PasswordOps
        BY <1>3 DEF SetUtf8Password, SetUtf16Password, SetUtf8RecoveryPassword,
                    SetUtf16RecoveryPassword, Inside, PasswordOps
    <2>2. call[t].arg # EmptyText => call[t].arg \in Texts
        BY <2>1, CallArguments DEF TypeOK
    <2>3. /\ \A x \in Texts : \A n \in 0 .. 1 : [text |-> x, nuls |-> n] \in Password
          /\ NoPassword \in Password
          /\ userPassword \in Password /\ recoveryPassword \in Password
        BY DEF TypeOK, Password
    <2>4. Utf8StringSizeFromUtf16Nuls + 1 - 1 \in 0 .. 1
        BY DEF Utf8StringSizeFromUtf16Nuls
    <2>5. userPassword' \in Password /\ recoveryPassword' \in Password
        <3> DEFINE nuls == Utf8StringSizeFromUtf16Nuls + 1 - 1
        <3>1. \/ userPassword' = NoPassword
              \/ userPassword' = userPassword
              \/ /\ call[t].arg # EmptyText
                 /\ userPassword' \in {[text |-> call[t].arg, nuls |-> 0],
                                       [text |-> call[t].arg, nuls |-> nuls]}
            BY <1>3 DEF SetUtf8Password, SetUtf16Password,
                        SetUtf8RecoveryPassword, SetUtf16RecoveryPassword
        <3>2. \/ recoveryPassword' = NoPassword
              \/ recoveryPassword' = recoveryPassword
              \/ /\ call[t].arg # EmptyText
                 /\ recoveryPassword' \in {[text |-> call[t].arg, nuls |-> 0],
                                           [text |-> call[t].arg, nuls |-> nuls]}
            BY <1>3 DEF SetUtf8Password, SetUtf16Password,
                        SetUtf8RecoveryPassword, SetUtf16RecoveryPassword
        <3>3. 0 \in 0 .. 1 /\ nuls \in 0 .. 1
            BY <2>4
        <3> HIDE DEF nuls
        <3> QED BY <2>2, <2>3, <3>1, <3>2, <3>3
    <2>6. /\ \E r \in {-1, 0, 1} : Return(t, r)
          /\ ReleaseForWrite(t)
          /\ UNCHANGED <<owned, superblock, isLocked, keysSet, rootBlock>>
        BY <1>3 DEF SetUtf8Password, SetUtf16Password, SetUtf8RecoveryPassword,
                    SetUtf16RecoveryPassword
    <2> QED BY <2>1, <2>5, <2>6 DEF PasswordBody
<1>4. CASE \/ GetRootDirectory(t) \/ GetFileEntryByIdentifier(t)
           \/ GetFileEntryByUtf8Path(t) \/ GetFileEntryByUtf16Path(t)
    BY <1>4 DEF GetRootDirectory, GetFileEntryByIdentifier,
                GetFileEntryByUtf8Path, GetFileEntryByUtf16Path, Inside,
                LookUpBody, FileOps
<1>5. CASE \/ GetFeaturesFlags(t) \/ GetSize(t) \/ GetIdentifier(t)
           \/ GetUtf8NameSize(t) \/ GetUtf8Name(t)
           \/ GetUtf16NameSize(t) \/ GetUtf16Name(t)
           \/ IsLocked(t) \/ GetNextFileEntryIdentifier(t)
           \/ GetNumberOfSnapshots(t)
    BY <1>1, <1>5 DEF GetFeaturesFlags, GetSize, GetIdentifier, GetUtf8NameSize,
        GetUtf8Name, GetUtf16NameSize, GetUtf16Name, IsLocked,
        GetNextFileEntryIdentifier, GetNumberOfSnapshots, ReadOps
<1> QED BY <1>2, <1>3, <1>4, <1>5 DEF Body

-----------------------------------------------------------------------------
(***************************************************************************)
(* Keys.                                                                   *)
(***************************************************************************)

\* Unlocking never locks again and never takes keys away, and clears is_locked
\* of a volume with a key bag only when it sets its keys.
KeysEffect ==
    /\ isLocked' \in BOOLEAN /\ keysSet' \in BOOLEAN
    /\ ~isLocked => ~isLocked'
    /\ keysSet => keysSet'
    /\ isLocked /\ ~isLocked' /\ "key_bag" \in owned => keysSet'

\* This is what internal_unlock does,
LEMMA InternalUnlockEffect ==
    ASSUME TypeOK, NEW r, InternalUnlock(r)
    PROVE  KeysEffect
BY Zenon DEF InternalUnlock, KeysEffect, TypeOK

\* and so does a volume that is left as it is.
LEMMA UnchangedEffect ==
    ASSUME TypeOK, UNCHANGED <<isLocked, keysSet>>
    PROVE  KeysEffect
BY DEF KeysEffect, TypeOK

\* The same of volume_unlock,
LEMMA UnlockEffect ==
    ASSUME TypeOK, NEW t \in Threads, Unlock(t)
    PROVE  /\ KeysEffect
           /\ pc[t] = "inside" /\ call[t].op = "unlock"
           /\ \E r \in {-1, 0, 1} : Return(t, r)
           /\ ReleaseForWrite(t)
           /\ UNCHANGED <<owned, superblock, userPassword, recoveryPassword,
                          rootBlock>>
<1>1. /\ pc[t] = "inside" /\ call[t].op = "unlock"
      /\ ReleaseForWrite(t)
      /\ UNCHANGED <<owned, superblock, userPassword, recoveryPassword, rootBlock>>
    BY DEF Unlock, Inside
<1>2. CASE isLocked
    <2>1. PICK r \in {-1, 0, 1} : InternalUnlock(r) /\ Return(t, r)
        BY <1>2 DEF Unlock
    <2> QED BY <1>1, <2>1, InternalUnlockEffect
<1>3. CASE ~isLocked
    <2>1. Return(t, 1) /\ UNCHANGED <<isLocked, keysSet>>
        BY <1>3 DEF Unlock
    <2> QED BY <1>1, <2>1, UnchangedEffect
<1> QED BY <1>2, <1>3

\* and of the look-ups, which besides cache the root block: as plain text only
\* when the volume's keys are set or it needs none, and what is cached stays.
\* A look-up that gives an answer has it from plain text.
LEMMA LookUpEffect ==
    ASSUME TypeOK, NEW t \in Threads, LookUpBody(t)
    PROVE  /\ KeysEffect
           /\ pc[t] = "inside" /\ call[t].op \in FileOps
           /\ \E r \in {-1, 0, 1} : Return(t, r)
           /\ ReleaseForWrite(t)
           /\ owned' \in {owned, owned \cup {"file_system"}}
           /\ UNCHANGED <<superblock, userPassword, recoveryPassword>>
           /\ rootBlock' \in {"none", "plain", "garbage"}
           /\ rootBlock = "plain" => rootBlock' = "plain"
           /\ rootBlock # "plain" /\ rootBlock' = "plain" =>
                (disk.encrypted => keysSet')
           /\ result'[t] \in {0, 1} => rootBlock' = "plain"
<1>1. /\ pc[t] = "inside" /\ call[t].op \in FileOps
      /\ ReleaseForWrite(t)
      /\ UNCHANGED <<superblock, userPassword, recoveryPassword>>
    BY DEF LookUpBody, LookUp
<1>2. ASSUME NEW r, Return(t, r) PROVE result'[t] = r
    BY <1>2 DEF Return, TypeOK
\* What ReadFileEntry does.
<1>3. ASSUME ReadFileEntry(t)
      PROVE  /\ \E r \in {-1, 0, 1} : Return(t, r)
             /\ rootBlock' \in {"none", "plain", "garbage"}
             /\ rootBlock = "plain" => rootBlock' = "plain"
             /\ rootBlock # "plain" /\ rootBlock' = "plain" =>
                  (disk.encrypted => keysSet')
             /\ result'[t] \in {0, 1} => rootBlock' = "plain"
    <2>1. PICK b \in RootBlocks :
              /\ rootBlock' = IF b = "fails" THEN "none" ELSE b
              /\ \/ Return(t, -1)
                 \/ /\ b = "plain"
                    /\ Return(t, IF call[t].arg \in disk.files \cup {RootFile}
                                 THEN 1 ELSE 0)
        BY <1>3 DEF ReadFileEntry
    <2>2. b \in {"fails", "plain", "garbage"}
        BY KeylessAssumption DEF RootBlocks, TypeOK
    <2>3. rootBlock # "none" => b = rootBlock
        BY DEF RootBlocks
    <2>4. rootBlock = "none" /\ b = "plain" => (disk.encrypted => keysSet')
        BY KeylessAssumption DEF RootBlocks
    <2>5. \E r \in {-1, 0, 1} : Return(t, r)
        BY <2>1
    <2>6. result'[t] \in {0, 1} => b = "plain"
        BY <1>2, <2>1
    <2>7. rootBlock \in {"none", "plain", "garbage"}
        BY DEF TypeOK
    <2> QED BY <2>1, <2>2, <2>3, <2>4, <2>5, <2>6, <2>7
<1>4. ASSUME NEW r \in {-1, 1}, InternalGetFileSystem(r)
      PROVE  KeysEffect /\ owned' \in {owned, owned \cup {"file_system"}}
    <2>1. owned' \in {owned, owned \cup {"file_system"}}
        BY <1>4 DEF InternalGetFileSystem
    <2>2. (\E u \in {-1, 0, 1} : InternalUnlock(u)) \/ UNCHANGED <<isLocked, keysSet>>
        BY <1>4 DEF InternalGetFileSystem
    <2> QED BY <2>1, <2>2, InternalUnlockEffect, UnchangedEffect
<1>5. CASE "file_system" \in owned
    <2>1. UNCHANGED <<owned, isLocked, keysSet>> /\ ReadFileEntry(t)
        BY <1>5 DEF LookUpBody, LookUp
    <2> QED BY <1>1, <1>3, <2>1, UnchangedEffect
<1>6. CASE InternalGetFileSystem(-1) /\ UNCHANGED rootBlock /\ Return(t, -1)
    <2>1. result'[t] = -1
        BY <1>2, <1>6
    <2>2. rootBlock \in {"none", "plain", "garbage"}
        BY DEF TypeOK
    <2> QED BY <1>1, <1>4, <1>6, <2>1, <2>2
<1>7. CASE InternalGetFileSystem(1) /\ ReadFileEntry(t)
    BY <1>1, <1>3, <1>4, <1>7
<1> QED BY <1>5, <1>6, <1>7 DEF LookUpBody, LookUp

-----------------------------------------------------------------------------
(***************************************************************************)
(* Type correctness.                                                       *)
(***************************************************************************)

\* No thread is in a call while the volume is not open.
IdleUnlessOpen == phase # "open" => \A t \in Threads : pc[t] = "idle"

\* A thread inside an operation that reads holds the lock.
ReadersHold ==
    \A t \in Threads :
        pc[t] = "inside" /\ call[t].op \in ReadOps => readers[t] >= 1

TypeInv == TypeOK /\ IdleUnlessOpen /\ ReadersHold

\* The steps of opening after volume_initialize.
Opening == \/ ReadSuperblock \/ BuildContainerVector \/ ReadObjectMap \/ ReadKeyBag
           \/ ReadSnapshots \/ SelectSuperblock \/ BuildFileSystemVector
           \/ OnError

\* They leave threads, lock, passwords and keys alone.
LEMMA OpeningEffect ==
    ASSUME TypeOK, Opening
    PROVE  /\ UNCHANGED openFrame
           /\ phase \in Stages \cup {"failing"}
           /\ phase' \in Stages \cup {"failing", "freeing", "open"}
           /\ owned' \subseteq Parts
           /\ superblock' \in {"none", "volume", "snapshot"}
           /\ isLocked' \in BOOLEAN
<1> USE DEF TypeOK, Stages, Parts
<1>1. CASE ReadSuperblock
    BY <1>1 DEF ReadSuperblock, Stage
<1>2. CASE BuildContainerVector
    BY <1>2 DEF BuildContainerVector, Stage
<1>3. CASE ReadObjectMap
    BY <1>3 DEF ReadObjectMap, Stage
<1>4. CASE ReadKeyBag
    BY <1>4 DEF ReadKeyBag, Stage
<1>5. CASE ReadSnapshots
    BY <1>5 DEF ReadSnapshots, Stage
<1>6. CASE SelectSuperblock
    BY <1>6 DEF SelectSuperblock
<1>7. CASE BuildFileSystemVector
    BY <1>7 DEF BuildFileSystemVector, Stage
<1>8. CASE OnError
    BY <1>8 DEF OnError
<1> QED BY <1>1, <1>2, <1>3, <1>4, <1>5, <1>6, <1>7, <1>8 DEF Opening

\* Nothing is allocated, and no call made, at first.
LEMMA TypeInvInit == Init => TypeInv
<1> SUFFICES ASSUME Init PROVE TypeInv
    OBVIOUS
<1>1. IdleUnlessOpen /\ ReadersHold
    BY DEF Init, IdleUnlessOpen, ReadersHold
<1>2. NoPassword \in Password /\ 0 \in 0 .. MaxCalls
    BY MaxCallsAssumption DEF Password
<1>3. TypeOK
    BY <1>2 DEF Init, TypeOK, NoResult
<1> QED BY <1>1, <1>3 DEF TypeInv

\* The effect of an operation, as far as types are concerned, keeps them.
LEMMA TypeInvBody ==
    ASSUME TypeInv, NEW t \in Threads, Body(t)
    PROVE  TypeInv'
<1> USE DEF TypeInv, IdleUnlessOpen, ReadersHold
<1>1. ASSUME \E r \in {-1, 0, 1} : Return(t, r),
             owned' \subseteq Parts, superblock' \in {"none", "volume", "snapshot"},
             isLocked' \in BOOLEAN, keysSet' \in BOOLEAN,
             userPassword' \in Password, recoveryPassword' \in Password,
             rootBlock' \in {"none", "plain", "garbage"},
             writer' \in Threads \cup {NoThread},
             readers' \in [Threads -> Nat],
             \A u \in Threads \ {t} : readers'[u] = readers[u]
      PROVE  TypeInv'
    BY <1>1 DEF TypeOK, Return
<1>2. CASE ReadBody(t)
    <2>1. UNCHANGED handleVars /\ \E r \in {-1, 0, 1} : Return(t, r)
        BY <1>2 DEF ReadBody
    <2>2. /\ writer' = writer
          /\ \/ readers' = [readers EXCEPT ![t] = @ - 1]
             \/ readers' = readers
        BY <1>2 DEF ReadBody, ReleaseForRead, lockVars
    <2>3. readers[t] >= 1 /\ readers \in [Threads -> Nat]
        BY <1>2 DEF ReadBody, TypeOK
    <2>4. readers' \in [Threads -> Nat]
        BY <2>2, <2>3
    <2>5. \A u \in Threads \ {t} : readers'[u] = readers[u]
        BY <2>2, <2>3
    <2> QED BY <1>1, <2>1, <2>2, <2>4, <2>5 DEF handleVars, TypeOK
<1>3. CASE PasswordBody(t)
    BY <1>1, <1>3 DEF PasswordBody, ReleaseForWrite, TypeOK
<1>4. CASE Unlock(t)
    BY <1>1, <1>4, UnlockEffect DEF ReleaseForWrite, TypeOK, KeysEffect
<1>5. CASE LookUpBody(t)
    <2>1. owned' \subseteq Parts
        BY <1>5, LookUpEffect DEF TypeOK, Parts
    <2> QED BY <1>1, <1>5, <2>1, LookUpEffect DEF ReleaseForWrite, TypeOK, KeysEffect
<1> QED BY <1>2, <1>3, <1>4, <1>5, BodyGroups

\* Every step keeps the types.
LEMMA TypeInvNext == TypeInv /\ [Next]_vars => TypeInv'
<1> SUFFICES ASSUME TypeInv, [Next]_vars PROVE TypeInv'
    OBVIOUS
<1> USE DEF TypeInv, IdleUnlessOpen, ReadersHold
<1>1. CASE UNCHANGED vars
    BY <1>1 DEF TypeOK, vars, handleVars, threadVars, lockVars
<1>2. CASE Initialize
    <2>1. phase' = "read_superblock" /\ \A t \in Threads : pc'[t] = "idle"
        BY <1>2 DEF Initialize
    <2> QED BY <1>2, <2>1, MaxCallsAssumption DEF Initialize, TypeOK, Stages, NoResult
<1>3. CASE Opening
    <2>1. phase # "open" /\ UNCHANGED openFrame
        BY <1>3, OpeningEffect DEF Stages
    <2>2. TypeOK'
        BY <1>3, OpeningEffect DEF TypeOK, openFrame, threadVars, lockVars
    <2>3. \A t \in Threads : pc'[t] = "idle"
        BY <2>1 DEF openFrame, threadVars
    <2> QED BY <2>2, <2>3
<1>4. CASE Free
    <2>1. \A t \in Threads : pc'[t] = "idle"
        BY <1>4 DEF Free, threadVars
    <2>2. TypeOK'
        BY <1>4 DEF Free, Close, TypeOK, threadVars, lockVars, Parts, Password
    <2> QED BY <2>1, <2>2
<1>5. ASSUME NEW t \in Threads, Call(t) PROVE TypeInv'
    <2>1. PICK c \in Calls : call' = [call EXCEPT ![t] = c]
        BY <1>5 DEF Call
    <2>2. TypeOK'
        BY <1>5, <2>1, MaxCallsAssumption
           DEF Call, TypeOK, handleVars, lockVars, NoResult
    <2>3. /\ phase' = "open" /\ pc'[t] = "waiting"
          /\ \A u \in Threads \ {t} : pc'[u] = pc[u] /\ call'[u] = call[u]
          /\ UNCHANGED readers
        BY <1>5, <2>1 DEF Call, TypeOK, handleVars, lockVars
    <2> QED BY <2>2, <2>3
<1>6. ASSUME NEW t \in Threads, GrabForRead(t) PROVE TypeInv'
    BY <1>6 DEF GrabForRead, TypeOK, handleVars
<1>7. ASSUME NEW t \in Threads, GrabForWrite(t) PROVE TypeInv'
    BY <1>7 DEF GrabForWrite, TypeOK, handleVars
<1>8. ASSUME NEW t \in Threads, Body(t) PROVE TypeInv'
    BY <1>8, TypeInvBody
<1> QED BY <1>1, <1>2, <1>3, <1>4, <1>5, <1>6, <1>7, <1>8
        DEF Next, Open, Opening, Step

\* The variables of the volume keep their types; in particular no path out of an
\* operation releases a read lock that is not held.
THEOREM TypeCorrect == Spec => []TypeOK
<1>1. TypeInv => TypeOK
    BY DEF TypeInv
<1> QED BY <1>1, TypeInvInit, TypeInvNext, PTL DEF Spec

-----------------------------------------------------------------------------
(***************************************************************************)
(* Unlocked volumes have keys, and answers come from plain text.           *)
(***************************************************************************)

\* Once the volume's key bag has been looked for, an encrypted volume that the
\* container's key bag names has one, and is locked until it has keys.
KeysFollow ==
    /\ phase \in {"read_snapshots", "select_superblock",
                  "build_file_system_vector", "open"}
    /\ disk.encrypted /\ disk.containerBag = "readable" /\ disk.extent # "absent"
    => "key_bag" \in owned /\ (isLocked \/ keysSet)

\* Plain text of an encrypted volume in the cache was decrypted with its keys.
PlainNeedsKeys == rootBlock = "plain" /\ disk.encrypted => keysSet

\* An answer stays backed by the plain text in the cache.
AnswersArePlain ==
    phase # "absent" =>
        \A t \in Threads :
            call[t].op \in FileOps /\ result[t] \in {0, 1} => rootBlock = "plain"

KeyInv == KeysFollow /\ PlainNeedsKeys /\ AnswersArePlain

\* At first there is no volume and nothing is cached.
LEMMA KeyInvInit == Init => KeyInv
BY DEF Init, KeyInv, KeysFollow, PlainNeedsKeys, AnswersArePlain

\* An operation that keeps the key bag, and gives answers from plain text only.
LEMMA KeyInvBody ==
    ASSUME TypeInv, KeyInv, NEW t \in Threads, Body(t)
    PROVE  KeyInv'
<1>0. TypeOK /\ phase = "open"
    <2>1. pc[t] # "idle"
        BY BodyGroups, UnlockEffect DEF TypeInv, ReadBody, PasswordBody, LookUpBody
    <2> QED BY <2>1 DEF TypeInv, IdleUnlessOpen
<1>1. ASSUME KeysEffect, \E r \in {-1, 0, 1} : Return(t, r),
             owned \subseteq owned',
             rootBlock = "plain" => rootBlock' = "plain",
             rootBlock # "plain" /\ rootBlock' = "plain" =>
                (disk.encrypted => keysSet'),
             call[t].op \in FileOps /\ result'[t] \in {0, 1} => rootBlock' = "plain"
      PROVE  KeyInv'
    <2>1. /\ UNCHANGED <<disk, phase, call>>
          /\ \A u \in Threads \ {t} : result'[u] = result[u]
        BY <1>0, <1>1 DEF Return, TypeOK
    <2>2. KeysFollow'
        BY <1>1, <2>1 DEF KeyInv, KeysFollow, KeysEffect
    <2>3. PlainNeedsKeys'
        BY <1>1, <2>1 DEF KeyInv, PlainNeedsKeys, KeysEffect
    <2>4. AnswersArePlain'
        BY <1>0, <1>1, <2>1 DEF KeyInv, AnswersArePlain
    <2> QED BY <2>2, <2>3, <2>4 DEF KeyInv
<1>2. ASSUME UNCHANGED <<owned, isLocked, keysSet, rootBlock>>,
             call[t].op \notin FileOps, \E r \in {-1, 0, 1} : Return(t, r)
      PROVE  KeyInv'
    BY <1>0, <1>1, <1>2, UnchangedEffect
<1>3. CASE ReadBody(t)
    BY <1>2, <1>3 DEF ReadBody, handleVars, ReadOps, FileOps
<1>4. CASE PasswordBody(t)
    BY <1>2, <1>4 DEF PasswordBody, PasswordOps, FileOps
<1>5. CASE Unlock(t)
    <2>1. call[t].op \notin FileOps
        BY <1>0, <1>5, UnlockEffect DEF FileOps
    <2>2. UNCHANGED <<owned, rootBlock>> /\ KeysEffect
          /\ \E r \in {-1, 0, 1} : Return(t, r)
        BY <1>0, <1>5, UnlockEffect
    <2> QED BY <1>1, <2>1, <2>2
<1>6. CASE LookUpBody(t)
    <2>1. owned \subseteq owned'
        BY <1>0, <1>6, LookUpEffect
    <2> QED BY <1>0, <1>1, <1>6, <2>1, LookUpEffect
<1> QED BY <1>0, <1>3, <1>4, <1>5, <1>6, BodyGroups

\* Every step keeps it: opening sets the keys' preconditions up, operations keep
\* them, and freeing the volume gives up what they are about.
LEMMA KeyInvNext ==
    ASSUME TypeInv, KeyInv, [Next]_vars
    PROVE  KeyInv'
<1>0. TypeOK
    BY DEF TypeInv
<1>1. CASE UNCHANGED vars
    BY <1>1 DEF vars, handleVars, threadVars, KeyInv, KeysFollow, PlainNeedsKeys,
                AnswersArePlain
<1>2. CASE Initialize
    BY <1>2 DEF Initialize, KeyInv, KeysFollow, PlainNeedsKeys, AnswersArePlain,
                NoCall, FileOps
<1>3. CASE Opening
    <2>1. UNCHANGED openFrame /\ phase # "absent"
        BY <1>0, <1>3, OpeningEffect DEF Stages
    <2>2. PlainNeedsKeys' /\ AnswersArePlain'
        BY <2>1 DEF openFrame, threadVars, KeyInv, PlainNeedsKeys, AnswersArePlain
    <2>3. KeysFollow'
        <3> SUFFICES ASSUME disk.encrypted, disk.containerBag = "readable",
                            disk.extent # "absent"
                     PROVE  KeysFollow'
            BY <2>1 DEF openFrame, KeysFollow
        <3>2. CASE ReadKeyBag
            BY <3>2 DEF ReadKeyBag, Stage, KeysFollow
        <3>3. CASE ReadSnapshots
            BY <3>3 DEF ReadSnapshots, Stage, KeysFollow, KeyInv, openFrame
        <3>4. CASE SelectSuperblock
            BY <3>4 DEF SelectSuperblock, KeysFollow, KeyInv, openFrame
        <3>5. CASE BuildFileSystemVector
            BY <3>5 DEF BuildFileSystemVector, Stage, KeysFollow, KeyInv, openFrame
        <3>6. CASE ReadSuperblock \/ BuildContainerVector \/ ReadObjectMap \/ OnError
            BY <3>6 DEF ReadSuperblock, BuildContainerVector, ReadObjectMap, OnError,
                        Stage, KeysFollow
        <3> QED BY <1>3, <3>2, <3>3, <3>4, <3>5, <3>6 DEF Opening
    <2> QED BY <2>2, <2>3 DEF KeyInv
<1>4. CASE Free
    BY <1>4 DEF Free, Close, KeyInv, KeysFollow, PlainNeedsKeys, AnswersArePlain
<1>5. ASSUME NEW t \in Threads, Call(t) PROVE KeyInv'
    <2>1. result' = [result EXCEPT ![t] = NoResult]
          /\ \A u \in Threads \ {t} : call'[u] = call[u]
        BY <1>0, <1>5 DEF Call, TypeOK
    <2>2. UNCHANGED <<disk, handleVars>>
        BY <1>5 DEF Call
    <2>3. result'[t] = NoResult /\ \A u \in Threads \ {t} : result'[u] = result[u]
        BY <1>0, <2>1 DEF TypeOK
    <2> QED BY <2>1, <2>2, <2>3 DEF handleVars, KeyInv, KeysFollow, PlainNeedsKeys,
                                    AnswersArePlain, NoResult
<1>6. ASSUME NEW t \in Threads, GrabForRead(t) \/ GrabForWrite(t) PROVE KeyInv'
    BY <1>6 DEF GrabForRead, GrabForWrite, handleVars, KeyInv, KeysFollow,
                PlainNeedsKeys, AnswersArePlain
<1>7. ASSUME NEW t \in Threads, Body(t) PROVE KeyInv'
    BY <1>7, KeyInvBody
<1> QED BY <1>1, <1>2, <1>3, <1>4, <1>5, <1>6, <1>7 DEF Next, Open, Opening, Step

\* An encrypted volume whose key bag is there to be found calls itself unlocked
\* only once it has its keys, for every volume, key bag, sequence of passwords
\* and interleaving of threads.  Volumes without one are among those that the
\* theorem is about; it says that there is no other exception.
THEOREM KeyBagsKeepLocked == Spec => []KeyBagKeepsLocked
<1>1. TypeInv /\ KeyInv /\ [Next]_vars => KeyInv'
    BY KeyInvNext
<1>2. KeyInv => KeyBagKeepsLocked
    BY DEF KeyInv, KeysFollow, KeyBagKeepsLocked
<1> QED BY <1>1, <1>2, TypeInvInit, TypeInvNext, KeyInvInit, PTL DEF Spec

\* A look-up only ever answers from the plain text of the file system, whatever
\* was tried while the volume was locked.
THEOREM AnswersAreFromPlaintext == Spec => []AnswersComeFromPlaintext
<1>1. TypeInv /\ KeyInv /\ [Next]_vars => KeyInv'
    BY KeyInvNext
<1>2. KeyInv => AnswersComeFromPlaintext
    BY DEF KeyInv, PlainNeedsKeys, AnswersArePlain, AnswersComeFromPlaintext
<1> QED BY <1>1, <1>2, TypeInvInit, TypeInvNext, KeyInvInit, PTL DEF Spec

\* An open volume is never locked again and never loses its keys.
THEOREM VolumesStayUnlocked == Spec => StaysUnlocked
<1> DEFINE A == phase = "open" /\ phase' = "open" =>
                  /\ ~isLocked => ~isLocked'
                  /\ keysSet => keysSet'
<1>1. TypeInv /\ [Next]_vars => [A]_vars
    <2> SUFFICES ASSUME TypeInv, Next, phase = "open", phase' = "open" PROVE A
        BY DEF vars
    <2>0. TypeOK
        BY DEF TypeInv
    <2>1. ~Initialize /\ ~Opening /\ ~Free
        BY <2>0, OpeningEffect DEF Initialize, Free, Stages
    <2>2. ASSUME NEW t \in Threads, Call(t) \/ GrabForRead(t) \/ GrabForWrite(t)
          PROVE  A
        BY <2>2 DEF Call, GrabForRead, GrabForWrite, handleVars
    <2>3. ASSUME NEW t \in Threads, Body(t) PROVE A
        BY <2>0, <2>3, BodyGroups, UnlockEffect, LookUpEffect
           DEF ReadBody, PasswordBody, handleVars, KeysEffect
    <2> QED BY <2>1, <2>2, <2>3 DEF Next, Open, Opening, Step
<1> QED BY <1>1, TypeInvInit, TypeInvNext, PTL DEF Spec, StaysUnlocked

-----------------------------------------------------------------------------
(***************************************************************************)
(* Nothing is left behind.                                                 *)
(***************************************************************************)

\* The local object map is only there between a failure and on_error, so that
\* volume_free, which does not know of it, never meets it.
ObjectMapIsLocal == phase # "failing" => "object_map" \notin owned

FreeInv == ObjectMapIsLocal /\ NothingLeftBehind

\* Nothing is there at first.
LEMMA FreeInvInit == Init => FreeInv
BY DEF Init, FreeInv, ObjectMapIsLocal, NothingLeftBehind

\* Every step keeps it.
LEMMA FreeInvNext ==
    ASSUME TypeInv, FreeInv, [Next]_vars
    PROVE  FreeInv'
<1> USE DEF FreeInv, ObjectMapIsLocal, NothingLeftBehind
<1>0. TypeOK
    BY DEF TypeInv
<1>1. CASE UNCHANGED vars
    BY <1>1 DEF vars, handleVars
<1>2. CASE Initialize
    BY <1>2 DEF Initialize
<1>3. CASE Opening
    <2>1. phase' # "absent"
        BY <1>0, <1>3, OpeningEffect DEF Stages
    <2>2. ObjectMapIsLocal'
        <3>1. CASE ReadSuperblock
            BY <3>1 DEF ReadSuperblock, Stage
        <3>2. CASE BuildContainerVector
            BY <3>2 DEF BuildContainerVector, Stage
        <3>3. CASE ReadObjectMap
            BY <3>3 DEF ReadObjectMap, Stage
        <3>4. CASE ReadKeyBag
            BY <3>4 DEF ReadKeyBag, Stage
        <3>5. CASE ReadSnapshots
            BY <3>5 DEF ReadSnapshots, Stage
        <3>6. CASE SelectSuperblock
            BY <3>6 DEF SelectSuperblock
        <3>7. CASE BuildFileSystemVector
            BY <3>7 DEF BuildFileSystemVector, Stage
        <3>8. CASE OnError
            BY <3>8 DEF OnError
        <3> QED BY <1>3, <3>1, <3>2, <3>3, <3>4, <3>5, <3>6, <3>7, <3>8 DEF Opening
    <2> QED BY <2>1, <2>2
<1>4. CASE Free
    <2>1. "object_map" \notin owned
        BY <1>4 DEF Free
    <2>2. owned' = {} /\ keysSet' = FALSE /\ userPassword' = NoPassword
          /\ recoveryPassword' = NoPassword
        BY <1>4, <2>1 DEF Free, Close
    <2> QED BY <2>2
<1>5. ASSUME NEW t \in Threads, Call(t) \/ GrabForRead(t) \/ GrabForWrite(t)
      PROVE  FreeInv'
    BY <1>5 DEF Call, GrabForRead, GrabForWrite, handleVars
<1>6. ASSUME NEW t \in Threads, Body(t) PROVE FreeInv'
    <2>1. /\ owned' \in {owned, owned \cup {"file_system"}}
          /\ \E r \in {-1, 0, 1} : Return(t, r)
          /\ pc[t] # "idle"
        BY <1>0, <1>6, BodyGroups, UnlockEffect, LookUpEffect
           DEF ReadBody, PasswordBody, handleVars
    <2>2. phase = "open" /\ phase' = phase
        BY <2>1 DEF TypeInv, IdleUnlessOpen, Return
    <2> QED BY <2>1, <2>2
<1> QED BY <1>1, <1>2, <1>3, <1>4, <1>5, <1>6 DEF Next, Open, Opening, Step

\* Whichever stage of opening fails, and whenever the volume is freed, nothing
\* that was allocated stays allocated and no password or key is kept.
THEOREM NothingIsLeftBehind == Spec => []NothingLeftBehind
<1>1. TypeInv /\ FreeInv /\ [Next]_vars => FreeInv'
    BY FreeInvNext
<1>2. FreeInv => NothingLeftBehind
    BY DEF FreeInv
<1> QED BY <1>1, <1>2, TypeInvInit, TypeInvNext, FreeInvInit, PTL DEF Spec

-----------------------------------------------------------------------------
(***************************************************************************)
(* The lock.                                                               *)
(***************************************************************************)

\* An application that asks for the number of snapshots first asks for a
\* snapshot that is there, and it stays there while it waits for the lock.
IndexesStayGood ==
    \A t \in Threads :
        pc[t] # "idle" /\ call[t].op = "get_snapshot_by_index" =>
            call[t].index \in 0 .. NumberOfSnapshots - 1

LockInv == LockHeldOnlyInside /\ IndexesStayGood

\* No one holds the lock at first.
LEMMA LockInvInit == Init => LockInv
BY NoThreadAssumption DEF Init, LockInv, LockHeldOnlyInside, IndexesStayGood

\* Every step keeps it, for such an application.
LEMMA LockInvNext ==
    ASSUME CheckedIndexes, TypeInv, LockInv, [Next]_vars
    PROVE  LockInv'
<1>0. /\ TypeOK /\ readers \in [Threads -> Nat] /\ NoThread \notin Threads
      /\ pc \in [Threads -> {"idle", "waiting", "inside"}]
    BY NoThreadAssumption DEF TypeInv, TypeOK
<1>1. CASE UNCHANGED vars
    BY <1>1 DEF vars, handleVars, threadVars, lockVars, LockInv, LockHeldOnlyInside,
                IndexesStayGood, NumberOfSnapshots
\* A step while no thread is in a call, that leaves the threads there.
<1>2. ASSUME \A t \in Threads : pc'[t] = "idle",
             writer' = NoThread, \A t \in Threads : readers'[t] = 0
      PROVE  LockInv'
    BY <1>0, <1>2 DEF LockInv, LockHeldOnlyInside, IndexesStayGood
<1>3. CASE Initialize
    <2>1. \A t \in Threads : pc'[t] = "idle"
        BY <1>3 DEF Initialize, TypeInv, IdleUnlessOpen
    <2> QED BY <1>2, <1>3, <2>1 DEF Initialize
<1>4. CASE Opening \/ Free
    <2>1. UNCHANGED <<pc, writer, readers>> /\ \A t \in Threads : pc[t] = "idle"
        BY <1>0, <1>4, OpeningEffect
           DEF openFrame, threadVars, lockVars, Stages, TypeInv, IdleUnlessOpen, Free
    <2>2. writer = NoThread /\ \A t \in Threads : readers[t] = 0
        BY <1>0, <2>1 DEF LockInv, LockHeldOnlyInside, TypeOK
    <2> QED BY <1>2, <2>1, <2>2
<1>5. ASSUME NEW t \in Threads, Call(t) PROVE LockInv'
    <2>1. PICK c \in Calls :
              /\ c.op = "get_snapshot_by_index" =>
                    c.index \in 0 .. NumberOfSnapshots - 1
              /\ call' = [call EXCEPT ![t] = c]
        BY <1>5 DEF Call
    <2>2. /\ pc[t] = "idle" /\ pc'[t] = "waiting" /\ call'[t] = c
          /\ \A u \in Threads \ {t} : pc'[u] = pc[u] /\ call'[u] = call[u]
          /\ UNCHANGED <<disk, owned, writer, readers>>
        BY <1>0, <1>5, <2>1 DEF Call, handleVars, lockVars, TypeOK
    <2>3. NumberOfSnapshots' = NumberOfSnapshots
        BY <2>2 DEF NumberOfSnapshots
    <2>4. LockHeldOnlyInside'
        BY <2>2 DEF LockInv, LockHeldOnlyInside
    <2>5. IndexesStayGood'
        BY <2>1, <2>2, <2>3 DEF LockInv, IndexesStayGood
    <2> QED BY <2>4, <2>5 DEF LockInv
<1>6. ASSUME NEW t \in Threads, GrabForRead(t) \/ GrabForWrite(t) PROVE LockInv'
    <2>1. /\ pc[t] = "waiting" /\ pc' = [pc EXCEPT ![t] = "inside"]
          /\ UNCHANGED <<disk, owned, call>>
        BY <1>6 DEF GrabForRead, GrabForWrite, handleVars
    <2>2. NumberOfSnapshots' = NumberOfSnapshots
        BY <2>1 DEF NumberOfSnapshots
    <2>3. IndexesStayGood'
        BY <1>0, <2>1, <2>2 DEF LockInv, IndexesStayGood
    <2>4. readers[t] = 0 /\ writer # t
        BY <2>1 DEF LockInv, LockHeldOnlyInside
    <2>5. CASE GrabForRead(t)
        BY <1>0, <2>1, <2>3, <2>4, <2>5 DEF GrabForRead, LockInv, LockHeldOnlyInside
    <2>6. CASE GrabForWrite(t)
        BY <1>0, <2>1, <2>3, <2>4, <2>6 DEF GrabForWrite, LockInv, LockHeldOnlyInside
    <2> QED BY <1>6, <2>5, <2>6
<1>7. ASSUME NEW t \in Threads, Body(t) PROVE LockInv'
    <2>1. /\ owned' \in {owned, owned \cup {"file_system"}}
          /\ pc[t] = "inside" /\ \E r \in {-1, 0, 1} : Return(t, r)
        BY <1>0, <1>7, BodyGroups, UnlockEffect, LookUpEffect
           DEF ReadBody, PasswordBody, handleVars
    <2>2. pc' = [pc EXCEPT ![t] = "idle"] /\ UNCHANGED <<disk, call>>
        BY <2>1 DEF Return
    <2>3. NumberOfSnapshots' = NumberOfSnapshots
        BY <2>1, <2>2 DEF NumberOfSnapshots
    <2>4. IndexesStayGood'
        BY <1>0, <2>1, <2>2, <2>3 DEF LockInv, IndexesStayGood
    <2>5. CASE ReadBody(t)
        <3>1. ReleaseForRead(t) /\ call[t].op \in ReadOps
            BY <2>1, <2>5 DEF ReadBody, LockInv, IndexesStayGood
        <3>2. readers[t] = 1
            BY <2>1, <3>1 DEF LockInv, LockHeldOnlyInside
        <3> QED BY <1>0, <2>1, <2>2, <2>4, <3>1, <3>2
                DEF ReleaseForRead, LockInv, LockHeldOnlyInside
    <2>6. CASE ~ReadBody(t)
        <3>1. ReleaseForWrite(t) /\ call[t].op \notin ReadOps
            BY <1>0, <1>7, <2>6, BodyGroups, UnlockEffect, LookUpEffect
               DEF PasswordBody, PasswordOps, FileOps, ReadOps
        <3>2. writer = t
            BY <2>1, <3>1 DEF LockInv, LockHeldOnlyInside
        <3> QED BY <1>0, <2>1, <2>2, <2>4, <3>1, <3>2
                DEF ReleaseForWrite, LockInv, LockHeldOnlyInside
    <2> QED BY <2>5, <2>6
<1> QED BY <1>1, <1>3, <1>4, <1>5, <1>6, <1>7 DEF Next, Open, Opening, Step

\* For an application that asks for the number of snapshots first, every way out
\* of every operation releases the lock it took, and a writer is alone.
THEOREM LockIsHeldOnlyInside ==
    ASSUME CheckedIndexes PROVE Spec => []LockHeldOnlyInside
<1>1. TypeInv /\ LockInv /\ [Next]_vars => LockInv'
    BY LockInvNext
<1>2. LockInv => LockHeldOnlyInside
    BY DEF LockInv
<1> QED BY <1>1, <1>2, TypeInvInit, TypeInvNext, LockInvInit, PTL DEF Spec

-----------------------------------------------------------------------------
(***************************************************************************)
(* A refusal is honest.                                                    *)
(***************************************************************************)

\* A thread in a call has no result yet: call cleared the one before.
NoResultInside == \A t \in Threads : pc[t] # "idle" => result[t] = NoResult

\* No thread is in a call at first,
LEMMA ResultsInit == Init => NoResultInside
BY DEF Init, NoResultInside

\* and the result of a call is only stored when it returns.
LEMMA ResultsNext ==
    ASSUME TypeInv, NoResultInside, [Next]_vars
    PROVE  NoResultInside'
<1>0. /\ TypeOK /\ pc \in [Threads -> {"idle", "waiting", "inside"}]
      /\ result \in [Threads -> {-1, 0, 1, NoResult}]
    BY DEF TypeInv, TypeOK
<1>1. CASE UNCHANGED vars
    BY <1>1 DEF vars, threadVars, NoResultInside
<1>2. CASE Initialize
    BY <1>2 DEF Initialize, NoResultInside
<1>3. CASE Opening \/ Free
    <2>1. UNCHANGED <<pc, result>>
        BY <1>0, <1>3, OpeningEffect DEF openFrame, threadVars, Free
    <2> QED BY <2>1 DEF NoResultInside
<1>4. ASSUME NEW t \in Threads, Call(t) PROVE NoResultInside'
    BY <1>0, <1>4 DEF Call, NoResultInside
<1>5. ASSUME NEW t \in Threads, GrabForRead(t) \/ GrabForWrite(t)
      PROVE  NoResultInside'
    BY <1>0, <1>5 DEF GrabForRead, GrabForWrite, NoResultInside
<1>6. ASSUME NEW t \in Threads, Body(t) PROVE NoResultInside'
    <2>1. \E r \in {-1, 0, 1} : Return(t, r)
        BY <1>0, <1>6, BodyGroups, UnlockEffect, LookUpEffect
           DEF ReadBody, PasswordBody
    <2> QED BY <1>0, <2>1 DEF Return, NoResultInside
<1> QED BY <1>1, <1>2, <1>3, <1>4, <1>5, <1>6 DEF Next, Open, Opening, Step

\* The key bag gives no volume key and no error only when none of its key
\* encrypted keys opens with either password.
LEMMA NoKeyOpens ==
    ASSUME NEW entries, NEW user, NEW recovery,
           GetVolumeKey(entries, user, recovery) = 0,
           NEW i \in DOMAIN entries, entries[i].type = 3
    PROVE  [text |-> entries[i].secret, nuls |-> 0] \notin {user, recovery}
<1> DEFINE secret == [text |-> entries[i].secret, nuls |-> 0]
           given == {user, recovery} \ {NoPassword}
           opens(e) == \E p \in given : UnlockWithPassword(e, p)
           fails(e) == \/ e.state = "damaged"
                       \/ e.state = "unsupported" /\ given # {}
           deciding == {j \in DOMAIN entries :
                          entries[j].type = 3 /\ (fails(entries[j]) \/ opens(entries[j]))}
<1>1. deciding = {}
    BY DEF GetVolumeKey
<1>2. ~opens(entries[i])
    BY <1>1
<1>3. secret # NoPassword
    <2>1. secret.nuls = 0 /\ NoPassword.nuls = -1
        BY DEF NoPassword
    <2> QED BY <2>1
<1>4. \A p \in given : p # secret
    BY <1>2 DEF UnlockWithPassword
<1> HIDE DEF secret
<1> QED BY <1>3, <1>4 DEF secret

\* volume_unlock only returns 0 when no key encrypted key of the volume opens
\* with either stored password, whatever other threads do before and after it.
THEOREM RefusalsAreHonest == Spec => RefusalIsHonest
<1> DEFINE Refused(t) ==
               pc[t] = "inside" /\ call[t].op = "unlock" /\ result'[t] = 0
           A == \A t \in Threads :
                  Refused(t) =>
                    \A i \in DOMAIN disk.entries :
                      disk.entries[i].type = 3 =>
                        [text |-> disk.entries[i].secret, nuls |-> 0]
                            \notin {userPassword, recoveryPassword}
<1>1. TypeInv /\ NoResultInside /\ [Next]_vars => [A]_vars
    <2> SUFFICES ASSUME TypeInv, NoResultInside, Next,
                        NEW t \in Threads, Refused(t),
                        NEW i \in DOMAIN disk.entries, disk.entries[i].type = 3
                 PROVE  [text |-> disk.entries[i].secret, nuls |-> 0]
                            \notin {userPassword, recoveryPassword}
        BY DEF vars
    <2>0. /\ TypeOK /\ pc \in [Threads -> {"idle", "waiting", "inside"}]
          /\ result \in [Threads -> {-1, 0, 1, NoResult}]
        BY DEF TypeInv, TypeOK
    <2>1. phase = "open" /\ result[t] = NoResult /\ NoResult # 0
        BY DEF TypeInv, IdleUnlessOpen, NoResultInside, NoResult
    <2>2. ~Initialize /\ ~Opening /\ ~Free
        BY <2>0, <2>1, OpeningEffect DEF Initialize, Free, Stages
    <2>3. ASSUME NEW u \in Threads, Call(u) \/ GrabForRead(u) \/ GrabForWrite(u)
          PROVE  FALSE
        BY <2>0, <2>1, <2>3 DEF Call, GrabForRead, GrabForWrite
    <2>4. ASSUME NEW u \in Threads, Body(u) PROVE u = t
        <3>1. \E r \in {-1, 0, 1} : Return(u, r)
            BY <2>0, <2>4, BodyGroups, UnlockEffect, LookUpEffect
               DEF ReadBody, PasswordBody
        <3> QED BY <2>0, <2>1, <3>1 DEF Return
    <2>5. Body(t)
        BY <2>2, <2>3, <2>4 DEF Next, Open, Opening, Step
    <2>6. Unlock(t)
        BY <2>0, <2>5, BodyGroups
           DEF ReadBody, PasswordBody, LookUpBody, ReadOps, PasswordOps, FileOps
    <2>7. UnlockResult = 0
        BY <2>0, <2>6 DEF Unlock, InternalUnlock, Return
    <2>8. GetVolumeKey(disk.entries, userPassword, recoveryPassword) = 0
        BY <2>7 DEF UnlockResult
    <2> QED BY <2>8, NoKeyOpens
<1>2. TypeInv /\ NoResultInside /\ [Next]_vars => NoResultInside'
    BY ResultsNext
<1> QED BY <1>1, <1>2, TypeInvInit, TypeInvNext, ResultsInit, PTL
        DEF Spec, RefusalIsHonest
=============================================================================
