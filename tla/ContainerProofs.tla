-------------------------- MODULE ContainerProofs --------------------------
(***************************************************************************)
(* Proofs about the container handle, for any threads, containers and      *)
(* bounds.  See the module Container for what the properties say of the    *)
(* code.                                                                   *)
(***************************************************************************)
EXTENDS Container, TLAPS

\* A thread that opens the container is in a call that opens, and one that has
\* the lock or waits for it is not.
CallsFit ==
    \A t \in Threads :
        /\ pc[t] \in OpenStages => call[t].op \in OpenOps
        /\ pc[t] \in {"inside", "crashed"} => call[t].op \in ReadOps
        /\ pc[t] = "waiting" => call[t].op \in ReadOps \cup {"close"}
        /\ pc[t] # "idle" => call[t].op \in Ops

TypeInv == TypeOK /\ CallsFit

\* A container handle that was just made is well typed.
LEMMA TypeInvInit == Init => TypeInv
<1> SUFFICES ASSUME Init PROVE TypeInv
    OBVIOUS
<1>1. calls \in 0 .. MaxCalls
    BY MaxCallsAssumption DEF Init
<1>2. appOpened \in BOOLEAN /\ appHandle \in BOOLEAN
    BY DEF Init
<1>3. /\ openedInLibrary \in BOOLEAN /\ createdInLibrary \in BOOLEAN
      /\ openedHere \in BOOLEAN
      /\ containerSize \in BOOLEAN /\ abort \in BOOLEAN
    BY Zenon DEF Init
<1>4. /\ readers \in [Threads -> 0 .. 1]
      /\ pc \in [Threads -> OpenStages \cup {"idle", "check", "waiting",
                                             "inside", "crashed"}]
      /\ call \in [Threads -> Calls \cup {NoCall}]
      /\ result \in [Threads -> {-1, 0, 1, NoResult}]
    BY DEF Init
<1>5. /\ disk \in Disks /\ owned \subseteq Parts
      /\ handle \in {"none", "own", "application"}
      /\ ownHandle \in {"none", "closed", "open"}
    BY DEF Init
<1>6. TypeOK
    BY <1>1, <1>2, <1>3, <1>4, <1>5 DEF TypeOK
<1>7. CallsFit
    BY DEF Init, CallsFit, OpenStages
<1> QED BY <1>6, <1>7 DEF TypeInv

\* The calls an application may make are calls.
LEMMA CallsAreTyped ==
    ASSUME NEW c \in Calls PROVE c.op \in Ops
BY DEF Calls, Ops, OpenOps, ReadOps, CheckedOps

\* Every call is of one kind.
LEMMA OpsAreDisjoint ==
    /\ OpenOps \cap ReadOps = {}
    /\ OpenOps \cup ReadOps \cup {"close", "signal_abort"} = Ops
    /\ "close" \notin OpenOps \cup ReadOps
    /\ "signal_abort" \notin OpenOps \cup ReadOps
BY DEF OpenOps, ReadOps, CheckedOps, Ops

\* Every step keeps the types, and keeps calls at the stages of their kind.
LEMMA TypeInvNext == TypeInv /\ [Next]_vars => TypeInv'
<1> SUFFICES ASSUME TypeInv, [Next]_vars PROVE TypeInv'
    OBVIOUS
<1> USE DEF TypeInv, TypeOK
<1>1. CASE UNCHANGED vars
    BY <1>1 DEF vars, handleVars, ioVars, CallsFit
<1>2. ASSUME NEW t \in Threads, Call(t) PROVE TypeInv'
    <2>1. PICK c \in Calls : call' = [call EXCEPT ![t] = c]
        BY <1>2 DEF Call
    <2>2. c.op \in Ops
        BY CallsAreTyped
    <2>3. calls' \in 0 .. MaxCalls
        BY <1>2, MaxCallsAssumption DEF Call
    <2>4. /\ pc' = [pc EXCEPT ![t] = "check"]
          /\ result' = [result EXCEPT ![t] = NoResult]
          /\ UNCHANGED <<disk, owned, handleVars, ioVars, readers>>
        BY <1>2 DEF Call, Goto
    <2>5. TypeOK'
        BY <2>1, <2>3, <2>4 DEF handleVars, ioVars
    <2>6. CallsFit'
        BY <2>1, <2>2, <2>4 DEF CallsFit, OpenStages
    <2> QED BY <2>5, <2>6
<1>3. ASSUME NEW t \in Threads, SignalAbort(t) PROVE TypeInv'
    BY <1>3 DEF SignalAbort, Checking, Return, Goto, CallsFit, OpenStages, handleVars
<1>4. ASSUME NEW t \in Threads, CheckOpen(t) PROVE TypeInv'
    BY <1>4 DEF CheckOpen, Checking, Return, Goto, CallsFit, OpenStages, ioVars
<1>5. ASSUME NEW t \in Threads, OpenHandle(t) PROVE TypeInv'
    BY <1>5, ZenonT(30) DEF OpenHandle, Goto, CallsFit, OpenStages, ioVars
<1>6. ASSUME NEW t \in Threads,
             \/ ReadSuperblock(t) \/ Scan(t) \/ ReadMap(t) \/ BuildVector(t)
             \/ ReadObjectMap(t) \/ ReadKeyBag(t)
      PROVE  TypeInv'
    <2>1. /\ pc[t] \in OpenStages
          /\ \E w \in OpenStages : pc' = [pc EXCEPT ![t] = w]
          /\ UNCHANGED <<disk, handleVars, abort, readers, call, result, calls>>
        BY <1>6 DEF ReadSuperblock, Scan, ReadMap, BuildVector, ReadObjectMap,
                    ReadKeyBag, Stage, Goto, OpenStages, ioVars
    <2>2. owned' \subseteq Parts
        BY <1>6 DEF ReadSuperblock, Scan, ReadMap, BuildVector, ReadObjectMap,
                    ReadKeyBag, Stage, Parts, Fields, Locals
    <2>3. containerSize' \in BOOLEAN
        BY <1>6 DEF ReadSuperblock, Scan, ReadMap, BuildVector, ReadObjectMap,
                    ReadKeyBag, ioVars
    <2> QED BY <2>1, <2>2, <2>3 DEF CallsFit, OpenStages, handleVars
<1>7. ASSUME NEW t \in Threads, OnError(t) \/ Unwind(t) PROVE TypeInv'
    <2>1. CASE OnError(t)
        BY <2>1 DEF OnError, Goto, CallsFit, OpenStages, ioVars, handleVars
    <2>2. CASE Unwind(t)
        BY <2>2 DEF Unwind, Return, Goto, CallsFit, OpenStages, ioVars
    <2> QED BY <1>7, <2>1, <2>2
<1>8. ASSUME NEW t \in Threads, StoreHandle(t) \/ StoreCreated(t) PROVE TypeInv'
    <2>1. CASE StoreHandle(t)
        BY <2>1 DEF StoreHandle, Return, Goto, CallsFit, OpenStages, ioVars
    <2>2. CASE StoreCreated(t)
        BY <2>2 DEF StoreCreated, Return, Goto, CallsFit, OpenStages, ioVars
    <2> QED BY <1>8, <2>1, <2>2
<1>9. ASSUME NEW t \in Threads, CheckQuery(t) PROVE TypeInv'
    BY <1>9, OpsAreDisjoint DEF CheckQuery, Checking, Return, Goto, CallsFit,
                OpenStages, ioVars, handleVars
<1>10. ASSUME NEW t \in Threads, GrabForRead(t) PROVE TypeInv'
    BY <1>10, OpsAreDisjoint DEF GrabForRead, Goto, CallsFit, OpenStages, ioVars,
                handleVars
<1>11. ASSUME NEW t \in Threads,
              \/ GetSize(t) \/ GetIdentifier(t) \/ IsLocked(t)
              \/ GetNumberOfVolumes(t) \/ GetVolumeByIndex(t)
       PROVE  TypeInv'
    <2>1. /\ \E r \in {-1, 0, 1} : ReturnForRead(t, r)
          /\ UNCHANGED queryFrame
        BY <1>11 DEF GetSize, GetIdentifier, IsLocked, GetNumberOfVolumes,
                     GetVolumeByIndex
    <2> QED BY <2>1 DEF ReturnForRead, Return, Goto, queryFrame, CallsFit,
                        OpenStages, ioVars, handleVars
<1>12. ASSUME NEW t \in Threads, UseMissingSuperblock(t) PROVE TypeInv'
    BY <1>12 DEF UseMissingSuperblock, Goto, CallsFit, OpenStages, ioVars, handleVars
<1>13. ASSUME NEW t \in Threads, CheckClose(t) PROVE TypeInv'
    BY <1>13 DEF CheckClose, Checking, Return, Goto, CallsFit, OpenStages, ioVars,
                 handleVars
<1>14. ASSUME NEW t \in Threads, Close(t) PROVE TypeInv'
    BY <1>14 DEF Close, CloseHandle, Return, Goto, CallsFit, OpenStages
<1>15. ASSUME Free PROVE TypeInv'
    BY <1>15 DEF Free, CloseHandle, CallsFit, OpenStages, handleVars, NoResult
<1> QED BY <1>1, <1>2, <1>3, <1>4, <1>5, <1>6, <1>7, <1>8, <1>9, <1>10, <1>11,
           <1>12, <1>13, <1>14, <1>15 DEF Next, Step, Opening, Query

\* The container handle keeps its types, whatever fails while it is opened.
THEOREM TypeCorrect == Spec => []TypeOK
<1>1. TypeInv => TypeOK
    BY DEF TypeInv
<1> QED BY <1>1, TypeInvInit, TypeInvNext, PTL DEF Spec

-----------------------------------------------------------------------------
(***************************************************************************)
(* The lock.                                                               *)
(***************************************************************************)

\* A thread holds the container's lock for reading only inside a query: every
\* way out of every query releases it, whatever fails and whoever closes.
THEOREM LockIsHeldInsideOnly == Spec => []LockHeldInsideOnly
<1>1. Init => LockHeldInsideOnly
    BY DEF Init, LockHeldInsideOnly
<1>2. TypeInv /\ LockHeldInsideOnly /\ [Next]_vars => LockHeldInsideOnly'
    <2> SUFFICES ASSUME TypeInv, LockHeldInsideOnly, [Next]_vars
                 PROVE  LockHeldInsideOnly'
        OBVIOUS
    <2> USE DEF TypeInv, TypeOK
    \* A thread that moves neither into nor out of a query leaves the lock.
    <2>0. ASSUME NEW t \in Threads, NEW v, NEW w,
                 pc[t] = v, pc' = [pc EXCEPT ![t] = w], UNCHANGED readers,
                 v \in {"inside", "crashed"} <=> w \in {"inside", "crashed"}
          PROVE  LockHeldInsideOnly'
        BY <2>0 DEF LockHeldInsideOnly
    <2>1. CASE UNCHANGED vars
        BY <2>1 DEF vars, LockHeldInsideOnly
    <2>2. ASSUME NEW t \in Threads,
                 \/ Call(t) \/ SignalAbort(t) \/ CheckOpen(t) \/ CheckQuery(t)
                 \/ CheckClose(t)
          PROVE  LockHeldInsideOnly'
        <3>1. /\ pc[t] \in {"idle", "check"} /\ UNCHANGED readers
              /\ \E w \in {"idle", "check", "waiting", "open_handle"} :
                    pc' = [pc EXCEPT ![t] = w]
            BY <2>2 DEF Call, SignalAbort, CheckOpen, CheckQuery, CheckClose,
                        Checking, Return, Goto
        <3> QED BY <2>0, <3>1
    <2>3. ASSUME NEW t \in Threads, Opening(t), ~CheckOpen(t)
          PROVE  LockHeldInsideOnly'
        <3>1. /\ pc[t] \in OpenStages /\ UNCHANGED readers
              /\ \E w \in OpenStages \cup {"idle"} : pc' = [pc EXCEPT ![t] = w]
            BY <2>3 DEF Opening, OpenHandle, ReadSuperblock, Scan, ReadMap,
                        BuildVector, ReadObjectMap, ReadKeyBag, Stage, OnError,
                        Unwind, StoreHandle, StoreCreated, Return, Goto,
                        OpenStages
        <3>2. PICK w \in OpenStages \cup {"idle"} : pc' = [pc EXCEPT ![t] = w]
            BY <3>1
        <3>3. pc[t] \notin {"inside", "crashed"} /\ w \notin {"inside", "crashed"}
            BY <3>1 DEF OpenStages
        <3> QED BY <2>0, <3>1, <3>2, <3>3
    <2>4. ASSUME NEW t \in Threads, GrabForRead(t) PROVE LockHeldInsideOnly'
        BY <2>4 DEF GrabForRead, Goto, LockHeldInsideOnly
    <2>5. ASSUME NEW t \in Threads,
                 \/ GetSize(t) \/ GetIdentifier(t) \/ IsLocked(t)
                 \/ GetNumberOfVolumes(t) \/ GetVolumeByIndex(t)
          PROVE  LockHeldInsideOnly'
        <3>1. \E r : ReturnForRead(t, r)
            BY <2>5 DEF GetSize, GetIdentifier, IsLocked, GetNumberOfVolumes,
                        GetVolumeByIndex
        <3> QED BY <3>1 DEF ReturnForRead, Return, Goto, LockHeldInsideOnly
    <2>6. ASSUME NEW t \in Threads, UseMissingSuperblock(t)
          PROVE  LockHeldInsideOnly'
        BY <2>0, <2>6 DEF UseMissingSuperblock, Goto
    <2>7. ASSUME NEW t \in Threads, Close(t) PROVE LockHeldInsideOnly'
        BY <2>0, <2>7 DEF Close, Return, Goto
    <2>8. ASSUME Free PROVE LockHeldInsideOnly'
        BY <2>8 DEF Free, LockHeldInsideOnly
    <2> QED BY <2>1, <2>2, <2>3, <2>4, <2>5, <2>6, <2>7, <2>8
            DEF Next, Step, Opening, Query
<1> QED BY <1>1, <1>2, TypeInvInit, TypeInvNext, PTL DEF Spec
-----------------------------------------------------------------------------
(***************************************************************************)
(* Parts and file IO handles: what opening has made at each stage.         *)
(***************************************************************************)

\* While a thread opens the container, the others are in no call but a signal
\* to abort.
OpenersAlone ==
    \A t \in Threads :
        pc[t] # "idle" /\ call[t].op \in OpenOps =>
            \A u \in Threads \ {t} :
                pc[u] # "idle" => call[u].op = "signal_abort"

Complete(parts) == parts \in {Fields, Fields \ {"key_bag"}}

\* The parts that are allocated at a stage of opening.
PartsAt(stage, parts) ==
    /\ stage \in {"open_handle", "read_superblock", "unwind"} => parts = {}
    /\ stage \in {"scan", "read_map"} => parts = {"superblock"}
    /\ stage = "build_vector" => parts = {"superblock", "checkpoint_map"}
    /\ stage = "read_object_map" =>
          parts = {"superblock", "checkpoint_map", "data_block_vector"}
    /\ stage = "read_key_bag" => parts = Fields \ {"key_bag"}
    /\ stage \in {"store_handle", "store_created"} => Complete(parts)

\* The container has a file IO handle from the stage that stores it.
PartsFit ==
    \A t \in Threads :
        /\ PartsAt(pc[t], owned)
        /\ pc[t] \in OpenStages =>
              (handle # "none" <=> pc[t] = "store_created")

PartsInv == OpenersAlone /\ PartsFit /\ AllOrNothing

\* While one thread opens, no other thread does.
LEMMA OneOpener ==
    ASSUME TypeInv, OpenersAlone,
           NEW t \in Threads, NEW u \in Threads, u # t,
           pc[t] # "idle", call[t].op \in OpenOps
    PROVE  ~Reading(u)
BY OpsAreDisjoint DEF TypeInv, CallsFit, OpenersAlone, Reading, OpenStages

\* A thread in a query or closing knows that no thread opens.
LEMMA NoOpener ==
    ASSUME TypeInv, OpenersAlone, NEW t \in Threads,
           pc[t] # "idle", call[t].op \in ReadOps \cup {"close"}
    PROVE  \A u \in Threads : ~Reading(u)
<1>1. ASSUME NEW u \in Threads, Reading(u) PROVE FALSE
    <2>1. pc[u] # "idle" /\ call[u].op \in OpenOps
        BY <1>1 DEF Reading, TypeInv, CallsFit, OpenStages
    <2>2. call[t].op \notin OpenOps /\ call[t].op # "signal_abort"
        BY OpsAreDisjoint
    <2> QED BY <2>1, <2>2 DEF OpenersAlone
<1> QED BY <1>1

\* What every step of a call does to the thread it is a step of.
LEMMA StepMoves ==
    ASSUME TypeInv, NEW t \in Threads, Step(t)
    PROVE  /\ pc[t] # "idle" /\ UNCHANGED call
           /\ \E w : pc' = [pc EXCEPT ![t] = w]
<1>1. CASE Opening(t)
    BY <1>1 DEF Opening, CheckOpen, OpenHandle, ReadSuperblock, Scan, ReadMap,
                BuildVector, ReadObjectMap, ReadKeyBag, Stage, OnError, Unwind,
                StoreHandle, StoreCreated, Checking, Return, Goto
<1>2. CASE Query(t)
    BY <1>2 DEF Query, CheckQuery, GrabForRead, GetSize, GetIdentifier, IsLocked,
                GetNumberOfVolumes, GetVolumeByIndex, UseMissingSuperblock,
                Checking, Inside, ReturnForRead, Return, Goto, queryFrame
<1>3. CASE SignalAbort(t) \/ CheckClose(t) \/ Close(t)
    BY <1>3 DEF SignalAbort, CheckClose, Close, Checking, Return, Goto
<1> QED BY <1>1, <1>2, <1>3 DEF Step

\* No step lets a thread open beside another call.
LEMMA OpenersAloneNext ==
    TypeInv /\ OpenersAlone /\ [Next]_vars => OpenersAlone'
<1> SUFFICES ASSUME TypeInv, OpenersAlone, [Next]_vars PROVE OpenersAlone'
    OBVIOUS
<1> USE DEF TypeInv, TypeOK
<1>1. CASE UNCHANGED vars
    BY <1>1 DEF vars, OpenersAlone
<1>2. CASE Free
    BY <1>2 DEF Free, OpenersAlone
<1>3. ASSUME NEW t \in Threads, Call(t) PROVE OpenersAlone'
    <2>1. PICK c \in Calls : Allowed(c) /\ call' = [call EXCEPT ![t] = c]
        BY <1>3 DEF Call
    <2>2. pc[t] = "idle" /\ pc' = [pc EXCEPT ![t] = "check"]
        BY <1>3 DEF Call, Goto
    <2>3. ASSUME NEW u \in Threads, NEW v \in Threads, u # v,
                 pc'[u] # "idle", call'[u].op \in OpenOps, pc'[v] # "idle"
          PROVE  call'[v].op = "signal_abort"
        <3>1. CASE u = t
            <4>1. call'[t] = c /\ pc'[v] = pc[v] /\ call'[v] = call[v]
                BY <3>1, <2>1, <2>2, <2>3
            <4>2. Active(Ops \ {"signal_abort"}) = {}
                BY <2>1, <2>3, <3>1, <4>1, OpsAreDisjoint DEF Allowed
            <4>3. call[v].op \in Ops
                BY <2>3, <4>1 DEF CallsFit
            <4> QED BY <2>3, <4>1, <4>2, <4>3 DEF Active
        <3>2. CASE u # t
            <4>1. pc'[u] = pc[u] /\ call'[u] = call[u]
                BY <3>2, <2>1, <2>2
            <4>2. CASE v = t
                <5>1. Active(OpenOps) # {}
                    BY <2>3, <4>1 DEF Active
                <5>2. c.op = "signal_abort"
                    BY <5>1, <2>1 DEF Allowed
                <5> QED BY <4>2, <5>2, <2>1
            <4>3. CASE v # t
                BY <4>1, <4>3, <2>1, <2>2, <2>3 DEF OpenersAlone
            <4> QED BY <4>2, <4>3
        <3> QED BY <3>1, <3>2
    <2> QED BY <2>3 DEF OpenersAlone
<1>4. ASSUME NEW t \in Threads, Step(t) PROVE OpenersAlone'
    BY <1>4, StepMoves DEF OpenersAlone
<1> QED BY <1>1, <1>2, <1>3, <1>4 DEF Next

\* Stages of opening allocate, and error handling frees, what fits the stage
\* they go to.
LEMMA PartsNext == TypeInv /\ PartsInv /\ [Next]_vars => PartsInv'
<1> SUFFICES ASSUME TypeInv, PartsInv, [Next]_vars
             PROVE  PartsFit' /\ AllOrNothing'
    BY OpenersAloneNext DEF PartsInv
<1> USE DEF TypeInv, TypeOK, PartsInv
\* A thread that opens goes to a stage, or returns, with the parts that fit.
<1>1. ASSUME NEW t \in Threads, NEW w, pc[t] # "idle", call[t].op \in OpenOps,
             pc' = [pc EXCEPT ![t] = w], w \in OpenStages \cup {"idle"},
             PartsAt(w, owned'),
             w = "idle" => IF handle' = "none" THEN owned' = {}
                           ELSE Complete(owned'),
             w # "idle" => (handle' # "none" <=> w = "store_created")
      PROVE  PartsFit' /\ AllOrNothing'
    <2>1. \A u \in Threads \ {t} : ~Reading(u) /\ pc'[u] = pc[u]
        BY <1>1, OneOpener
    <2>2. pc'[t] = w
        BY <1>1
    <2>3. PartsFit'
        BY <1>1, <2>1, <2>2 DEF PartsFit, PartsAt, Reading, OpenStages
    <2>4. AllOrNothing'
        BY <1>1, <2>1, <2>2 DEF AllOrNothing, Reading, Complete
    <2> QED BY <2>3, <2>4
\* A thread that does not open leaves the parts alone.
<1>2. ASSUME NEW t \in Threads, NEW w, pc[t] \notin OpenStages,
             pc' = [pc EXCEPT ![t] = w], w \notin OpenStages,
             UNCHANGED <<owned, handle>>
      PROVE  PartsFit' /\ AllOrNothing'
    <2>1. \A u \in Threads : pc'[u] = pc[u] \/ (u = t /\ pc'[u] = w)
        BY <1>2
    <2>2. PartsFit'
        BY <1>2, <2>1 DEF PartsFit, PartsAt, OpenStages
    <2>3. AllOrNothing'
        BY <1>2, <2>1 DEF AllOrNothing, Reading
    <2> QED BY <2>2, <2>3
<1>3. CASE UNCHANGED vars
    BY <1>3 DEF vars, handleVars, PartsFit, PartsAt, AllOrNothing, Reading
<1>4. ASSUME NEW t \in Threads,
             Call(t) \/ SignalAbort(t) \/ Query(t) \/ CheckClose(t)
      PROVE  PartsFit' /\ AllOrNothing'
    <2>1. /\ pc[t] \notin OpenStages /\ UNCHANGED <<owned, handle>>
          /\ \E w : w \notin OpenStages /\ pc' = [pc EXCEPT ![t] = w]
        <3>1. CASE Call(t) \/ SignalAbort(t) \/ CheckClose(t)
            BY <3>1 DEF Call, SignalAbort, CheckClose, Checking, Return, Goto,
                        OpenStages, handleVars
        <3>2. CASE Query(t)
            BY <3>2 DEF Query, CheckQuery, GrabForRead, GetSize, GetIdentifier,
                        IsLocked, GetNumberOfVolumes, GetVolumeByIndex,
                        UseMissingSuperblock, Checking, Inside, ReturnForRead,
                        Return, Goto, queryFrame, OpenStages, handleVars
        <3> QED BY <3>1, <3>2, <1>4
    <2> QED BY <1>2, <2>1
<1>5. ASSUME NEW t \in Threads, CheckOpen(t) PROVE PartsFit' /\ AllOrNothing'
    <2>1. pc[t] = "check" /\ call[t].op \in OpenOps /\ UNCHANGED <<owned, handle>>
        BY <1>5 DEF CheckOpen, Checking
    <2>2. \A u \in Threads : ~Reading(u)
        BY <2>1, OneOpener DEF Reading, OpenStages
    <2>3. IF handle = "none" THEN owned = {} ELSE Complete(owned)
        BY <2>2 DEF AllOrNothing, Complete
    <2>4. CASE pc' = [pc EXCEPT ![t] = "idle"]
        BY <1>1, <2>1, <2>3, <2>4 DEF PartsAt
    <2>5. CASE pc' = [pc EXCEPT ![t] = "open_handle"] /\ handle = "none"
        BY <1>1, <2>1, <2>3, <2>5 DEF PartsAt, OpenStages
    <2> QED BY <1>5, <2>4, <2>5 DEF CheckOpen, Return, Goto
<1>6. ASSUME NEW t \in Threads,
             \/ OpenHandle(t) \/ ReadSuperblock(t) \/ Scan(t) \/ ReadMap(t)
             \/ BuildVector(t) \/ ReadObjectMap(t) \/ ReadKeyBag(t) \/ OnError(t)
      PROVE  PartsFit' /\ AllOrNothing'
    <2>1. /\ pc[t] \in OpenStages \ {"store_created"}
          /\ UNCHANGED handle
        BY <1>6 DEF OpenHandle, ReadSuperblock, Scan, ReadMap, BuildVector,
                    ReadObjectMap, ReadKeyBag, OnError, Stage, OpenStages,
                    handleVars
    <2>2. handle = "none" /\ PartsAt(pc[t], owned)
        BY <2>1 DEF PartsFit
    <2>3. pc[t] # "idle" /\ call[t].op \in OpenOps
        BY <2>1 DEF CallsFit, OpenStages
    <2>4. \E w \in OpenStages \ {"store_created"} :
             pc' = [pc EXCEPT ![t] = w] /\ PartsAt(w, owned')
        <3>1. CASE OpenHandle(t)
            BY <3>1, <2>2 DEF OpenHandle, Goto, PartsAt, OpenStages
        <3>2. CASE ReadSuperblock(t)
            BY <3>2, <2>2 DEF ReadSuperblock, Stage, Goto, PartsAt, OpenStages
        <3>3. CASE Scan(t) \/ ReadMap(t)
            BY <3>3, <2>2 DEF Scan, ReadMap, Stage, Goto, PartsAt, OpenStages
        <3>4. CASE BuildVector(t)
            BY <3>4, <2>2 DEF BuildVector, Stage, Goto, PartsAt, OpenStages
        <3>5. CASE ReadObjectMap(t)
            BY <3>5, <2>2 DEF ReadObjectMap, Stage, Goto, PartsAt, OpenStages,
                              Fields
        <3>6. CASE ReadKeyBag(t)
            BY <3>6, <2>2 DEF ReadKeyBag, Stage, Goto, PartsAt, OpenStages,
                              Fields, Complete
        <3>7. CASE OnError(t)
            <4>1. owned' = {} /\ pc' = [pc EXCEPT ![t] = "unwind"]
                BY <3>7 DEF OnError, Goto, Parts, Fields, Locals
            <4>2. PartsAt("unwind", owned')
                BY <4>1 DEF PartsAt
            <4>3. "unwind" \in OpenStages \ {"store_created"}
                BY DEF OpenStages
            <4> QED BY <4>1, <4>2, <4>3
        <3> QED BY <1>6, <3>1, <3>2, <3>3, <3>4, <3>5, <3>6, <3>7
    <2>5. PICK w \in OpenStages \ {"store_created"} :
             pc' = [pc EXCEPT ![t] = w] /\ PartsAt(w, owned')
        BY <2>4
    <2>6. w # "idle"
        BY DEF OpenStages
    <2> QED BY <1>1, <2>1, <2>2, <2>3, <2>5, <2>6
<1>7. ASSUME NEW t \in Threads, Unwind(t) \/ StoreHandle(t) \/ StoreCreated(t)
      PROVE  PartsFit' /\ AllOrNothing'
    <2>1. pc[t] \in {"unwind", "store_handle", "store_created"} /\ UNCHANGED owned
        BY <1>7 DEF Unwind, StoreHandle, StoreCreated
    <2>2. /\ handle # "none" <=> pc[t] = "store_created"
          /\ PartsAt(pc[t], owned)
        BY <2>1 DEF PartsFit, OpenStages
    <2>3. pc[t] # "idle" /\ call[t].op \in OpenOps
        BY <2>1 DEF CallsFit, OpenStages
    <2>4. CASE Unwind(t)
        BY <1>1, <2>2, <2>3, <2>4 DEF Unwind, Return, Goto, PartsAt
    <2>5. CASE StoreHandle(t)
        <3>1. Complete(owned') /\ handle' # "none"
            BY <2>2, <2>5 DEF StoreHandle, PartsAt
        <3>2. \/ pc' = [pc EXCEPT ![t] = "store_created"]
              \/ pc' = [pc EXCEPT ![t] = "idle"]
            BY <2>5 DEF StoreHandle, Return, Goto
        <3> QED BY <1>1, <2>3, <3>1, <3>2 DEF PartsAt, OpenStages
    <2>6. CASE StoreCreated(t)
        BY <1>1, <2>2, <2>3, <2>6 DEF StoreCreated, Return, Goto, PartsAt
    <2> QED BY <1>7, <2>4, <2>5, <2>6
<1>8. ASSUME NEW t \in Threads, Close(t) PROVE PartsFit' /\ AllOrNothing'
    <2>1. \A u \in Threads : ~Reading(u)
        BY <1>8, NoOpener DEF Close
    <2>2. owned' = {} /\ handle' = "none" /\ pc' = [pc EXCEPT ![t] = "idle"]
        BY <1>8, <2>1 DEF Close, CloseHandle, AllOrNothing, Return, Goto
    <2>3. \A u \in Threads : pc'[u] \notin OpenStages
        BY <2>1, <2>2 DEF Reading, OpenStages
    <2> QED BY <2>2, <2>3 DEF PartsFit, PartsAt, AllOrNothing, OpenStages
<1>9. ASSUME Free PROVE PartsFit' /\ AllOrNothing'
    <2>1. \A u \in Threads : pc[u] = "idle" /\ pc'[u] = "idle"
        BY <1>9 DEF Free
    <2>2. owned' = {} /\ handle' = "none"
        BY <1>9, <2>1 DEF Free, CloseHandle, AllOrNothing, Reading, OpenStages,
                          handleVars
    <2> QED BY <2>1, <2>2 DEF PartsFit, PartsAt, AllOrNothing, OpenStages
<1> QED BY <1>3, <1>4, <1>5, <1>6, <1>7, <1>8, <1>9 DEF Next, Step, Opening

\* Whatever stage of opening fails, and however calls interleave, a container
\* that no thread opens has all its parts or none: nothing leaks, and nothing is
\* left that makes the next open fail.
THEOREM ContainerIsAllOrNothing == Spec => []AllOrNothing
<1>1. Init => PartsInv
    BY DEF Init, PartsInv, OpenersAlone, PartsFit, PartsAt, AllOrNothing,
           OpenStages
<1>2. PartsInv => AllOrNothing
    BY DEF PartsInv
<1> QED BY <1>1, <1>2, TypeInvInit, TypeInvNext, PartsNext, PTL DEF Spec

\* The library's debt: whether the application's handle would be open once
\* what was opened here, or for this container, is closed.
Restored(opened) == IF opened THEN ~appOpened ELSE appHandle = appOpened

\* The file IO handles at a stage of opening, by either function.
HandlesFit ==
    \A t \in Threads :
        pc[t] \in OpenStages =>
            /\ call[t].op = "open" => appHandle = appOpened
            /\ call[t].op # "open" =>
                  /\ ownHandle = "none"
                  /\ pc[t] = "open_handle" => appHandle = appOpened
                  /\ pc[t] # "open_handle" => Restored(openedHere)
            /\ pc[t] # "store_created" => ~openedInLibrary /\ ~createdInLibrary
            /\ pc[t] = "store_created" => call[t].op = "open" /\ handle = "own"

\* The file IO handles of a container that no thread opens.
HandlesKept ==
    (\A t \in Threads : ~Reading(t)) =>
        /\ handle = "none" => ~openedInLibrary /\ ~createdInLibrary
        /\ handle = "own" => createdInLibrary
        /\ handle # "own" => ownHandle = "none"
        /\ handle # "application" => appHandle = appOpened
        /\ handle = "application" => Restored(openedInLibrary)

HandlesInv == HandlesFit /\ HandlesKept

\* Every step of opening, closing and freeing keeps account of the handles.
LEMMA HandlesNext ==
    TypeInv /\ PartsInv /\ HandlesInv /\ [Next]_vars => HandlesInv'
<1> SUFFICES ASSUME TypeInv, PartsInv, HandlesInv, [Next]_vars
             PROVE  HandlesInv'
    OBVIOUS
<1> USE DEF TypeInv, TypeOK, PartsInv, HandlesInv
\* Steps that leave the handles alone and neither begin nor end an opening.
<1>1. ASSUME NEW t \in Threads, NEW w, pc[t] \notin OpenStages,
             pc' = [pc EXCEPT ![t] = w], w \notin OpenStages,
             UNCHANGED handleVars,
             \A u \in Threads : u # t => call'[u] = call[u]
      PROVE  HandlesInv'
    <2>1. pc'[t] = w /\ \A u \in Threads : u # t => pc'[u] = pc[u]
        BY <1>1
    <2>2. HandlesFit'
        BY <1>1, <2>1 DEF HandlesFit, handleVars, Restored
    <2>3. HandlesKept'
        BY <1>1, <2>1 DEF HandlesKept, Reading, handleVars, Restored
    <2> QED BY <2>2, <2>3
\* Steps of opening from one stage to another that leave the handles alone.
<1>2. ASSUME NEW t \in Threads, NEW w,
             pc[t] \in OpenStages \ {"open_handle", "store_created"},
             pc' = [pc EXCEPT ![t] = w],
             w \in OpenStages \ {"open_handle", "store_created"},
             UNCHANGED <<handleVars, call>>
      PROVE  HandlesInv'
    <2>1. pc'[t] = w /\ \A u \in Threads : u # t => pc'[u] = pc[u]
        BY <1>2
    <2>2. HandlesFit'
        BY <1>2, <2>1 DEF HandlesFit, handleVars, Restored
    <2>3. HandlesKept'
        BY <1>2, <2>1 DEF HandlesKept, Reading
    <2> QED BY <2>2, <2>3
\* When no thread opens, what is left to show is that the handles are kept.
<1>3. ASSUME \A u \in Threads : ~Reading(u)', HandlesKept' PROVE HandlesInv'
    BY <1>3 DEF HandlesFit, Reading
<1>4. CASE UNCHANGED vars
    BY <1>4 DEF vars, handleVars, HandlesFit, HandlesKept, Reading, Restored
<1>5. ASSUME NEW t \in Threads,
             Call(t) \/ SignalAbort(t) \/ Query(t) \/ CheckClose(t)
      PROVE  HandlesInv'
    <2>1. /\ pc[t] \notin OpenStages /\ UNCHANGED handleVars
          /\ \A u \in Threads : u # t => call'[u] = call[u]
          /\ \E w : w \notin OpenStages /\ pc' = [pc EXCEPT ![t] = w]
        <3>1. CASE Call(t)
            BY <3>1 DEF Call, Goto, OpenStages
        <3>2. CASE SignalAbort(t) \/ CheckClose(t)
            BY <3>2 DEF SignalAbort, CheckClose, Checking, Return, Goto,
                        OpenStages
        <3>3. CASE Query(t)
            BY <3>3 DEF Query, CheckQuery, GrabForRead, GetSize, GetIdentifier,
                        IsLocked, GetNumberOfVolumes, GetVolumeByIndex,
                        UseMissingSuperblock, Checking, Inside, ReturnForRead,
                        Return, Goto, queryFrame, OpenStages
        <3> QED BY <3>1, <3>2, <3>3, <1>5
    <2> QED BY <1>1, <2>1
<1>6. ASSUME NEW t \in Threads, CheckOpen(t) PROVE HandlesInv'
    <2>1. /\ pc[t] = "check" /\ call[t].op \in OpenOps /\ UNCHANGED call
          /\ UNCHANGED <<handle, openedInLibrary, createdInLibrary, openedHere,
                         appHandle, appOpened>>
        BY <1>6 DEF CheckOpen, Checking
    <2>2. \A u \in Threads : ~Reading(u)
        BY <2>1, OneOpener DEF Reading, OpenStages
    <2>3. CASE pc' = [pc EXCEPT ![t] = "idle"] /\ UNCHANGED ownHandle
        BY <1>1, <2>1, <2>3 DEF handleVars, OpenStages
    <2>4. CASE /\ pc' = [pc EXCEPT ![t] = "open_handle"] /\ handle = "none"
               /\ ownHandle' = IF call[t].op = "open" THEN "closed" ELSE ownHandle
        <3>1. /\ pc'[t] = "open_handle"
              /\ \A u \in Threads : u # t => pc'[u] = pc[u]
            BY <2>4
        <3>2. /\ ~openedInLibrary /\ ~createdInLibrary
              /\ ownHandle = "none" /\ appHandle = appOpened
            BY <2>2, <2>4 DEF HandlesKept
        <3>3. HandlesFit'
            BY <2>1, <2>2, <2>4, <3>1, <3>2 DEF HandlesFit, Reading
        <3>4. HandlesKept'
            BY <3>1 DEF HandlesKept, Reading, OpenStages
        <3> QED BY <3>3, <3>4
    <2> QED BY <1>6, <2>3, <2>4 DEF CheckOpen, Return, Goto
<1>7. ASSUME NEW t \in Threads, OpenHandle(t) PROVE HandlesInv'
    <2>1. /\ pc[t] = "open_handle"
          /\ UNCHANGED <<handle, openedInLibrary, createdInLibrary, appOpened,
                         call>>
          /\ \E w \in {"read_superblock", "unwind"} : pc' = [pc EXCEPT ![t] = w]
        BY <1>7 DEF OpenHandle, Goto
    <2>2. call[t].op \in OpenOps
        BY <2>1 DEF CallsFit, OpenStages
    <2>3. /\ pc'[t] \in {"read_superblock", "unwind"}
          /\ \A u \in Threads : u # t => pc'[u] = pc[u] /\ ~Reading(u)
        BY <2>1, <2>2, OneOpener
    <2>4. /\ call[t].op = "open" => UNCHANGED appHandle
          /\ call[t].op # "open" =>
                /\ UNCHANGED ownHandle
                /\ \/ openedHere' = ~appHandle /\ appHandle' = TRUE
                   \/ openedHere' = FALSE /\ UNCHANGED appHandle
        BY Zenon, <1>7 DEF OpenHandle
    <2>5. /\ appHandle = appOpened /\ ~openedInLibrary /\ ~createdInLibrary
          /\ call[t].op # "open" => ownHandle = "none"
        BY <2>1 DEF HandlesFit, OpenStages
    <2>6. call[t].op # "open" => Restored(openedHere)'
        BY Zenon, <2>1, <2>4, <2>5 DEF Restored
    <2>7. HandlesFit'
        BY <2>1, <2>3, <2>4, <2>5, <2>6 DEF HandlesFit, Reading
    <2>8. HandlesKept'
        BY <2>3 DEF HandlesKept, Reading, OpenStages
    <2> QED BY <2>7, <2>8
<1>8. ASSUME NEW t \in Threads,
             \/ ReadSuperblock(t) \/ Scan(t) \/ ReadMap(t) \/ BuildVector(t)
             \/ ReadObjectMap(t) \/ ReadKeyBag(t) \/ OnError(t)
      PROVE  HandlesInv'
    <2>1. /\ pc[t] \in OpenStages \ {"open_handle", "store_created"}
          /\ \E w \in OpenStages \ {"open_handle", "store_created"} :
                pc' = [pc EXCEPT ![t] = w]
          /\ UNCHANGED <<handleVars, call>>
        BY <1>8 DEF ReadSuperblock, Scan, ReadMap, BuildVector, ReadObjectMap,
                    ReadKeyBag, OnError, Stage, Goto, OpenStages
    <2> QED BY <1>2, <2>1
<1>9. ASSUME NEW t \in Threads, Unwind(t) PROVE HandlesInv'
    <2>1. pc[t] = "unwind" /\ pc' = [pc EXCEPT ![t] = "idle"]
        BY <1>9 DEF Unwind, Return, Goto
    <2>2. pc[t] # "idle" /\ call[t].op \in OpenOps /\ handle = "none"
        BY <2>1 DEF CallsFit, OpenStages, PartsFit
    <2>3. \A u \in Threads : ~Reading(u)'
        BY <2>1, <2>2, OneOpener DEF Reading, OpenStages
    <2>4. /\ ~openedInLibrary /\ ~createdInLibrary
          /\ call[t].op = "open" => appHandle = appOpened
          /\ call[t].op # "open" => ownHandle = "none" /\ Restored(openedHere)
        BY <2>1 DEF HandlesFit, OpenStages
    <2>5. HandlesKept'
        <3>1. handle' = "none" /\ ~openedInLibrary' /\ ~createdInLibrary'
            BY <1>9, <2>2, <2>4 DEF Unwind
        <3>2. ownHandle' = "none"
            BY <1>9, <2>4 DEF Unwind
        <3>3. appHandle' = appOpened'
            BY Zenon, <1>9, <2>4 DEF Unwind, Restored
        <3> QED BY <3>1, <3>2, <3>3 DEF HandlesKept
    <2> QED BY <1>3, <2>3, <2>5
<1>10. ASSUME NEW t \in Threads, StoreHandle(t) PROVE HandlesInv'
    <2>1. /\ pc[t] = "store_handle"
          /\ handle' = IF call[t].op = "open" THEN "own" ELSE "application"
          /\ openedInLibrary' = openedHere
          /\ UNCHANGED <<createdInLibrary, ownHandle, appHandle, appOpened, call>>
        BY <1>10 DEF StoreHandle
    <2>2. pc[t] # "idle" /\ call[t].op \in OpenOps
        BY <2>1 DEF CallsFit, OpenStages
    <2>3. \A u \in Threads : u # t => ~Reading(u)
        BY <2>2, OneOpener
    <2>4. /\ call[t].op = "open" => appHandle = appOpened
          /\ call[t].op # "open" => ownHandle = "none" /\ Restored(openedHere)
        BY <2>1 DEF HandlesFit, OpenStages
    <2>5. CASE call[t].op = "open"
        <3>1. /\ pc'[t] = "store_created"
              /\ \A u \in Threads : u # t => pc'[u] = pc[u]
            BY <1>10, <2>5 DEF StoreHandle, Goto
        <3>2. HandlesFit'
            BY <2>1, <2>3, <2>4, <2>5, <3>1 DEF HandlesFit, Reading
        <3>3. HandlesKept'
            BY <3>1 DEF HandlesKept, Reading, OpenStages
        <3> QED BY <3>2, <3>3
    <2>6. CASE call[t].op # "open"
        <3>1. pc' = [pc EXCEPT ![t] = "idle"]
            BY <1>10, <2>6 DEF StoreHandle, Return, Goto
        <3>2. \A u \in Threads : ~Reading(u)'
            BY <2>3, <3>1 DEF Reading, OpenStages
        <3>3. Restored(openedInLibrary)'
            BY <2>1, <2>4, <2>6 DEF Restored
        <3>4. HandlesKept'
            BY <2>1, <2>4, <2>6, <3>3 DEF HandlesKept
        <3> QED BY <1>3, <3>2, <3>4
    <2> QED BY <2>5, <2>6
<1>11. ASSUME NEW t \in Threads, StoreCreated(t) PROVE HandlesInv'
    <2>1. /\ pc[t] = "store_created" /\ pc' = [pc EXCEPT ![t] = "idle"]
          /\ createdInLibrary'
          /\ UNCHANGED <<handle, appHandle, appOpened>>
        BY <1>11 DEF StoreCreated, Return, Goto
    <2>2. pc[t] # "idle" /\ call[t].op \in OpenOps
        BY <2>1 DEF CallsFit, OpenStages
    <2>3. \A u \in Threads : ~Reading(u)'
        BY <2>1, <2>2, OneOpener DEF Reading, OpenStages
    <2>4. handle = "own" /\ appHandle = appOpened
        BY <2>1 DEF HandlesFit, OpenStages
    <2>5. HandlesKept'
        BY <2>1, <2>4 DEF HandlesKept
    <2> QED BY <1>3, <2>3, <2>5
\* Closing gives the handles back.
<1>12. ASSUME CloseHandle, \A u \in Threads : ~Reading(u) PROVE HandlesKept'
    <2>1. handle' = "none" /\ ~openedInLibrary' /\ ~createdInLibrary'
        BY <1>12 DEF CloseHandle
    <2>2. ownHandle' = "none"
        BY <1>12 DEF CloseHandle, HandlesKept
    <2>3. appHandle' = appOpened'
        <3>1. CASE handle = "application"
            <4>1. Restored(openedInLibrary)
                BY <1>12, <3>1 DEF HandlesKept
            <4> QED BY Zenon, <1>12, <3>1, <4>1 DEF CloseHandle, Restored
        <3>2. CASE handle # "application"
            <4>1. appHandle = appOpened
                BY <1>12, <3>2 DEF HandlesKept
            <4> QED BY Zenon, <1>12, <3>2, <4>1 DEF CloseHandle
        <3> QED BY <3>1, <3>2
    <2> QED BY <2>1, <2>2, <2>3 DEF HandlesKept
<1>13. ASSUME NEW t \in Threads, Close(t) PROVE HandlesInv'
    <2>1. \A u \in Threads : ~Reading(u)
        BY <1>13, NoOpener DEF Close
    <2>2. \A u \in Threads : ~Reading(u)'
        BY <1>13, <2>1 DEF Close, Return, Goto, Reading, OpenStages
    <2> QED BY <1>3, <1>12, <1>13, <2>1, <2>2 DEF Close
<1>14. ASSUME Free PROVE HandlesInv'
    <2>1. \A u \in Threads : ~Reading(u) /\ ~Reading(u)'
        BY <1>14 DEF Free, Reading, OpenStages
    <2>2. CASE handle # "none"
        BY <1>3, <1>12, <1>14, <2>1, <2>2 DEF Free
    <2>3. CASE handle = "none"
        <3>1. UNCHANGED handleVars
            BY <1>14, <2>3 DEF Free
        <3>2. HandlesKept'
            BY <2>1, <3>1 DEF HandlesKept, handleVars, Restored
        <3> QED BY <1>3, <2>1, <3>2
    <2> QED BY <2>2, <2>3
<1> QED BY <1>4, <1>5, <1>6, <1>7, <1>8, <1>9, <1>10, <1>11, <1>13, <1>14
        DEF Next, Step, Opening

\* The library gives every file IO handle back as it got it, however opening
\* fails, however often it is tried, and whether by name or by handle.
THEOREM HandlesAreGivenBack == Spec => []HandlesGivenBack
<1>1. Init => PartsInv /\ HandlesInv
    BY DEF Init, PartsInv, OpenersAlone, PartsFit, PartsAt, AllOrNothing,
           HandlesInv, HandlesFit, HandlesKept, OpenStages
<1>2. HandlesInv => HandlesGivenBack
    BY DEF HandlesInv, HandlesKept, HandlesGivenBack
<1> QED BY <1>1, <1>2, TypeInvInit, TypeInvNext, PartsNext, HandlesNext, PTL
        DEF Spec
=============================================================================
