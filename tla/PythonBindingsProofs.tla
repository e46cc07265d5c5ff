------------------------ MODULE PythonBindingsProofs ------------------------
(***************************************************************************)
(* Proofs about PythonBindings, for any number of threads and objects: the *)
(* reference counts are right, so that no library object is used after it  *)
(* was freed, iterations are exact, and reads are where they were asked.   *)
(***************************************************************************)
EXTENDS PythonBindings, FiniteSetTheorems, WellFoundedInduction, TLAPS

-----------------------------------------------------------------------------
(***************************************************************************)
(* The invariant of the reference counts.  It is stated of any objects,    *)
(* references, library objects and calls, so that it can also be stated of *)
(* the moments within a step: the object `extra` then has one reference    *)
(* more in its count than there are.                                       *)
(***************************************************************************)

AllGives == {"none", "value", "abort", "opened", "closed"} \cup Kinds
Refs == Objects \cup {NoObject}

Object == [kind : Kinds \cup {"none"}, refs : Nat, parent : Refs,
           current_index : Nat, given : Seq(Int)]
Handle == [held : BOOLEAN, from : Refs]
CallRecord == [at : Phases, self : Refs, target : Refs, gives : AllGives,
               calls : Int, reads : Int, ok : BOOLEAN, item : Int]

\* The kind of object that an object of a kind is made from and keeps.
ParentKind(kind) ==
    IF kind \in {"volume", "volumes"} THEN "container"
    ELSE IF kind = "file_entry" THEN "volume"
    ELSE "file_entry"

\* The kinds of object whose methods make an object of a kind.
MakerKinds(kind) ==
    IF kind = "file_entry" THEN {"volume", "file_entry"} ELSE {ParentKind(kind)}

Children(objects, o) ==
    {p \in Objects : objects[p].kind # "none" /\ objects[p].parent = o}
Calling(calls, o) == {t \in Threads : calls[t].self = o /\ calls[t].gives # "none"}
Freeing(calls, o) == {t \in Threads : calls[t].self = o /\ calls[t].gives = "none"}

\* The references there are to an object.
Count(objects, apps, calls, o) ==
    apps[o] + Cardinality(Children(objects, o)) + Cardinality(Calling(calls, o))

\* A library object that borrows from that of the object q.
Borrower(q) == [held |-> TRUE, from |-> q]

\* The library object of an object.
HandleOf(objects, calls, o) ==
    IF \/ objects[o].kind \in SequenceKinds
       \/ \E t \in Freeing(calls, o) : calls[t].at = "freed"
    THEN NoHandle
    ELSE Borrower(objects[o].parent)

ParentIsThere(objects, o) ==
    IF objects[o].kind = "container" THEN objects[o].parent = NoObject
    ELSE /\ objects[o].parent \in Objects
         /\ objects[objects[o].parent].kind = ParentKind(objects[o].kind)

\* An object that is there: its parent is, its count is right, one thread frees
\* it when there is no reference left, and a sequence is never kept without one.
GoodObject(objects, apps, handles, calls, o, extra) ==
    /\ ParentIsThere(objects, o)
    /\ objects[o].refs = Count(objects, apps, calls, o) + (IF o = extra THEN 1 ELSE 0)
    /\ objects[o].refs = 0 <=> Freeing(calls, o) # {}
    /\ \A t, u \in Freeing(calls, o) : t = u
    /\ objects[o].kind \in SequenceKinds => objects[o].refs # 0
    /\ handles[o] = HandleOf(objects, calls, o)

\* One that is not: nothing is left of it.
GoneObject(objects, apps, handles, o) ==
    objects[o] = NotThere /\ apps[o] = 0 /\ handles[o] = NoHandle

\* A call of a method of an object that is there, on its library object or, for
\* a sequence, on that of its parent.
MethodCall(objects, c) ==
    /\ c.gives # "none"
    /\ c.at \in {"enter", "library", "read", "reading", "return", "freeio"}
    /\ c.self \in Objects /\ objects[c.self].kind # "none"
    /\ c.target \in Objects /\ objects[c.target].kind # "none"
    /\ c.target = IF objects[c.self].kind \in SequenceKinds
                  THEN objects[c.self].parent ELSE c.self
    /\ MakesObject(c.gives) => objects[c.target].kind \in MakerKinds(c.gives)
    /\ c.gives \in {"opened", "closed", "container"} =>
          objects[c.self].kind = "container"
    /\ c.at = "freeio" => c.gives = "closed"

\* The deallocation of an object, which is no sequence.
DeallocCall(objects, c) ==
    /\ c.gives = "none"
    /\ c.at \in {"close", "freeio", "free", "freed"}
    /\ c.self \in Objects /\ c.target = c.self
    /\ objects[c.self].kind \notin SequenceKinds \cup {"none"}
    /\ c.at \in {"close", "freeio"} => objects[c.self].kind = "container"

GoodCall(objects, c) == c = Idle \/ MethodCall(objects, c) \/ DeallocCall(objects, c)

Typed(objects, apps, handles, calls) ==
    /\ objects \in [Objects -> Object]
    /\ apps \in [Objects -> Nat]
    /\ handles \in [Objects -> Handle]
    /\ calls \in [Threads -> CallRecord]

Good(objects, apps, handles, calls, extra) ==
    /\ Typed(objects, apps, handles, calls)
    /\ \A o \in Objects :
          /\ objects[o].kind = "none" => GoneObject(objects, apps, handles, o)
          /\ objects[o].kind # "none" =>
                GoodObject(objects, apps, handles, calls, o, extra)
    /\ \A t \in Threads : GoodCall(objects, calls[t])

RefInv == Good(object, app, handle, call, NoObject)

-----------------------------------------------------------------------------
(***************************************************************************)
(* Counting.                                                               *)
(***************************************************************************)

\* What is counted is finite.
LEMMA CountsAreFinite ==
    ASSUME NEW objects, NEW apps \in [Objects -> Nat], NEW calls, NEW o \in Objects
    PROVE  /\ IsFiniteSet(Children(objects, o)) /\ IsFiniteSet(Calling(calls, o))
           /\ Cardinality(Children(objects, o)) \in Nat
           /\ Cardinality(Calling(calls, o)) \in Nat
           /\ Count(objects, apps, calls, o) \in Nat
<1>1. Children(objects, o) \subseteq Objects /\ Calling(calls, o) \subseteq Threads
    BY DEF Children, Calling
<1>2. IsFiniteSet(Children(objects, o)) /\ IsFiniteSet(Calling(calls, o))
    BY <1>1, FiniteAssumption, FS_Subset
<1>3. /\ Cardinality(Children(objects, o)) \in Nat
      /\ Cardinality(Calling(calls, o)) \in Nat
    BY <1>2, FS_CardinalityType
<1> QED BY <1>2, <1>3 DEF Count

\* A count of nothing means that there is nothing.
LEMMA CountOfNone ==
    ASSUME NEW objects, NEW apps \in [Objects -> Nat], NEW calls, NEW o \in Objects,
           Count(objects, apps, calls, o) = 0
    PROVE  apps[o] = 0 /\ Children(objects, o) = {} /\ Calling(calls, o) = {}
<1> DEFINE c == Cardinality(Children(objects, o))
           d == Cardinality(Calling(calls, o))
<1>1. c \in Nat /\ d \in Nat /\ apps[o] \in Nat /\ apps[o] + c + d = 0
    BY CountsAreFinite DEF Count
<1>2. IsFiniteSet(Children(objects, o)) /\ IsFiniteSet(Calling(calls, o))
    BY CountsAreFinite
<1> HIDE DEF c, d
<1>3. apps[o] = 0 /\ c = 0 /\ d = 0
    BY <1>1
<1> QED BY <1>2, <1>3, FS_EmptySet DEF c, d

\* An object with a child or a call, or one that is kept, is not being freed.
LEMMA KeptObjects ==
    ASSUME NEW objects, NEW apps, NEW handles, NEW calls, NEW extra,
           Good(objects, apps, handles, calls, extra),
           NEW o \in Objects, objects[o].kind # "none",
           \/ Children(objects, o) # {}
           \/ Calling(calls, o) # {}
           \/ apps[o] > 0
           \/ o = extra
    PROVE  objects[o].refs >= 1 /\ Freeing(calls, o) = {}
<1>1. apps \in [Objects -> Nat] /\ objects[o].refs \in Nat
    BY DEF Good, Typed, Object
<1>2. GoodObject(objects, apps, handles, calls, o, extra)
    BY DEF Good
<1>3. Count(objects, apps, calls, o) \in Nat
    BY <1>1, CountsAreFinite
<1>4. objects[o].refs # 0
    <2>1. CASE o = extra
        BY <1>2, <1>3, <2>1 DEF GoodObject
    <2>2. CASE o # extra
        <3>1. Count(objects, apps, calls, o) # 0
            BY <1>1, <2>2, CountOfNone
        <3> QED BY <1>2, <1>3, <2>2, <3>1 DEF GoodObject
    <2> QED BY <2>1, <2>2
<1> QED BY <1>1, <1>2, <1>4 DEF GoodObject

\* An object that a step leaves as it was stays good.
LEMMA FrameObject ==
    ASSUME NEW objects, NEW apps, NEW handles, NEW calls, NEW extra,
           NEW objects2, NEW apps2, NEW handles2, NEW calls2, NEW extra2,
           NEW o \in Objects,
           GoodObject(objects, apps, handles, calls, o, extra),
           objects2[o].kind = objects[o].kind, objects2[o].parent = objects[o].parent,
           objects2[o].refs = objects[o].refs,
           ParentIsThere(objects2, o),
           apps2[o] = apps[o], handles2[o] = handles[o],
           Children(objects2, o) = Children(objects, o),
           Calling(calls2, o) = Calling(calls, o),
           Freeing(calls2, o) = Freeing(calls, o),
           \A t \in Freeing(calls, o) : calls2[t].at = "freed" <=> calls[t].at = "freed",
           (o = extra2) <=> (o = extra)
    PROVE  GoodObject(objects2, apps2, handles2, calls2, o, extra2)
<1>1. Count(objects2, apps2, calls2, o) = Count(objects, apps, calls, o)
    BY DEF Count
<1>2. HandleOf(objects2, calls2, o) = HandleOf(objects, calls, o)
    BY DEF HandleOf
<1> QED BY <1>1, <1>2 DEF GoodObject

\* A call of objects that a step leaves there stays good.
LEMMA FrameCall ==
    ASSUME NEW objects, NEW objects2, NEW c, GoodCall(objects, c),
           \A p \in {c.self, c.target} \cap Objects :
               /\ objects2[p].kind = objects[p].kind
               /\ objects2[p].parent = objects[p].parent
    PROVE  GoodCall(objects2, c)
<1>1. CASE c = Idle
    BY <1>1 DEF GoodCall
<1>2. CASE MethodCall(objects, c)
    <2>1. MethodCall(objects2, c)
        BY <1>2 DEF MethodCall
    <2> QED BY <2>1 DEF GoodCall
<1>3. CASE DeallocCall(objects, c)
    <2>1. DeallocCall(objects2, c)
        BY <1>3 DEF DeallocCall
    <2> QED BY <2>1 DEF GoodCall
<1> QED BY <1>1, <1>2, <1>3 DEF GoodCall

-----------------------------------------------------------------------------
(***************************************************************************)
(* References that come and go within a step.                              *)
(***************************************************************************)

\* Only the count of one object differs.
OnlyRefs(objects2, objects, o, refs) ==
    /\ objects2 \in [Objects -> Object]
    /\ \A p \in Objects \ {o} : objects2[p] = objects[p]
    /\ objects2[o].refs = refs
    /\ objects2[o].kind = objects[o].kind
    /\ objects2[o].parent = objects[o].parent
    /\ objects2[o].current_index = objects[o].current_index
    /\ objects2[o].given = objects[o].given

LEMMA IncRefEffect ==
    ASSUME NEW objects \in [Objects -> Object], NEW o \in Objects
    PROVE  OnlyRefs(IncRef(objects, o), objects, o, objects[o].refs + 1)
<1>1. objects[o] \in Object /\ objects[o].refs + 1 \in Nat
    BY DEF Object
<1>2. [objects[o] EXCEPT !.refs = @ + 1] \in Object
    BY <1>1 DEF Object
<1> QED BY <1>1, <1>2 DEF IncRef, OnlyRefs, Object

LEMMA LessRefEffect ==
    ASSUME NEW objects \in [Objects -> Object], NEW o \in Objects,
           objects[o].refs >= 1
    PROVE  OnlyRefs([objects EXCEPT ![o].refs = @ - 1], objects, o,
                    objects[o].refs - 1)
<1>1. objects[o] \in Object /\ objects[o].refs - 1 \in Nat
    BY DEF Object
<1>2. [objects[o] EXCEPT !.refs = @ - 1] \in Object
    BY <1>1 DEF Object
<1> QED BY <1>1, <1>2 DEF OnlyRefs, Object

\* A change of counts leaves families and calls alone.
LEMMA OnlyRefsFrame ==
    ASSUME NEW objects, NEW objects2, NEW o \in Objects, NEW refs,
           OnlyRefs(objects2, objects, o, refs)
    PROVE  /\ \A p \in Objects : /\ objects2[p].kind = objects[p].kind
                                 /\ objects2[p].parent = objects[p].parent
           /\ \A p \in Objects : Children(objects2, p) = Children(objects, p)
           /\ \A p \in Objects : ParentIsThere(objects, p) => ParentIsThere(objects2, p)
           /\ \A c : GoodCall(objects, c) => GoodCall(objects2, c)
<1>1. \A p \in Objects : /\ objects2[p].kind = objects[p].kind
                         /\ objects2[p].parent = objects[p].parent
    BY DEF OnlyRefs
<1>2. \A p \in Objects : Children(objects2, p) = Children(objects, p)
    BY <1>1 DEF Children
<1>3. \A p \in Objects : ParentIsThere(objects, p) => ParentIsThere(objects2, p)
    BY <1>1 DEF ParentIsThere
<1>4. \A c : GoodCall(objects, c) => GoodCall(objects2, c)
    BY <1>1, FrameCall
<1> QED BY <1>1, <1>2, <1>3, <1>4

\* Py_IncRef: the new reference is not anybody's yet.
LEMMA IncRefKeeps ==
    ASSUME NEW objects, NEW apps, NEW handles, NEW calls,
           Good(objects, apps, handles, calls, NoObject),
           NEW o \in Objects, objects[o].kind # "none", objects[o].refs >= 1
    PROVE  Good(IncRef(objects, o), apps, handles, calls, o)
<1> DEFINE objects2 == IncRef(objects, o)
<1>0. Typed(objects, apps, handles, calls) /\ NoObject \notin Objects
    BY NamesAssumption DEF Good
<1>1. OnlyRefs(objects2, objects, o, objects[o].refs + 1)
    BY <1>0, IncRefEffect DEF Typed
<1> HIDE DEF objects2
<1>2. /\ \A p \in Objects : /\ objects2[p].kind = objects[p].kind
                            /\ objects2[p].parent = objects[p].parent
      /\ \A p \in Objects : Children(objects2, p) = Children(objects, p)
      /\ \A p \in Objects : ParentIsThere(objects, p) => ParentIsThere(objects2, p)
      /\ \A c : GoodCall(objects, c) => GoodCall(objects2, c)
    BY <1>1, OnlyRefsFrame
<1>3. Typed(objects2, apps, handles, calls)
    BY <1>0, <1>1 DEF Typed, OnlyRefs
<1>4. ASSUME NEW p \in Objects, objects2[p].kind = "none"
      PROVE  GoneObject(objects2, apps, handles, p)
    <2>1. p # o /\ objects[p].kind = "none"
        BY <1>2, <1>4
    <2> QED BY <1>1, <2>1 DEF OnlyRefs, Good, GoneObject
<1>5. ASSUME NEW p \in Objects, objects2[p].kind # "none"
      PROVE  GoodObject(objects2, apps, handles, calls, p, o)
    <2>1. GoodObject(objects, apps, handles, calls, p, NoObject) /\ p # NoObject
        BY <1>0, <1>2, <1>5 DEF Good
    <2>2. ParentIsThere(objects2, p)
        BY <1>2, <2>1 DEF GoodObject
    <2>3. CASE p # o
        <3>1. objects2[p].refs = objects[p].refs
            BY <1>1, <2>3 DEF OnlyRefs
        <3> QED BY <1>2, <2>1, <2>2, <2>3, <3>1, FrameObject
    <2>4. CASE p = o
        <3>1. Count(objects2, apps, calls, o) = Count(objects, apps, calls, o)
            BY <1>2 DEF Count
        <3>2. HandleOf(objects2, calls, o) = HandleOf(objects, calls, o)
            BY <1>2 DEF HandleOf
        <3>3. /\ objects2[o].refs = objects[o].refs + 1 /\ objects[o].refs \in Nat
              /\ Count(objects, apps, calls, o) \in Nat
            BY <1>0, <1>1, CountsAreFinite DEF OnlyRefs, Typed, Object
        <3> QED BY <2>1, <2>2, <2>4, <3>1, <3>2, <3>3 DEF GoodObject
    <2> QED BY <2>3, <2>4
<1>6. \A t \in Threads : GoodCall(objects2, calls[t])
    BY <1>2 DEF Good
<1> QED BY <1>3, <1>4, <1>5, <1>6 DEF Good, objects2

\* A call begins with the reference to its object,
LEMMA CallBegins ==
    ASSUME NEW objects, NEW apps, NEW handles, NEW calls, NEW o \in Objects,
           Good(objects, apps, handles, calls, o),
           NEW t \in Threads, calls[t] = Idle,
           NEW c \in CallRecord, c.self = o, MethodCall(objects, c)
    PROVE  Good(objects, apps, handles, [calls EXCEPT ![t] = c], NoObject)
<1> DEFINE calls2 == [calls EXCEPT ![t] = c]
<1>0. /\ Typed(objects, apps, handles, calls) /\ NoObject \notin Objects
      /\ c.gives # "none" /\ Idle.self = NoObject /\ Idle.gives = "none"
    BY NamesAssumption DEF Good, MethodCall, Idle
<1>1. /\ Typed(objects, apps, handles, calls2)
      /\ calls2[t] = c /\ \A u \in Threads \ {t} : calls2[u] = calls[u]
    BY <1>0 DEF Typed
<1> HIDE DEF calls2
<1>2. ASSUME NEW p \in Objects
      PROVE  /\ Freeing(calls2, p) = Freeing(calls, p)
             /\ \A u \in Freeing(calls, p) : calls2[u].at = calls[u].at
             /\ Calling(calls2, p) = IF p = o THEN Calling(calls, o) \cup {t}
                                     ELSE Calling(calls, p)
             /\ t \notin Calling(calls, p)
    BY <1>0, <1>1 DEF Freeing, Calling
<1>3. ASSUME NEW p \in Objects, objects[p].kind # "none"
      PROVE  GoodObject(objects, apps, handles, calls2, p, NoObject)
    <2>1. GoodObject(objects, apps, handles, calls, p, o) /\ p # NoObject
        BY <1>0, <1>3 DEF Good
    <2>2. CASE p # o
        <3>1. ParentIsThere(objects, p)
            BY <2>1 DEF GoodObject
        <3> QED BY <1>2, <2>1, <2>2, <3>1, FrameObject
    <2>3. CASE p = o
        <3>1. Cardinality(Calling(calls2, o)) = Cardinality(Calling(calls, o)) + 1
            <4>1. IsFiniteSet(Calling(calls, o))
                BY <1>0, CountsAreFinite DEF Typed
            <4> QED BY <1>2, <4>1, FS_AddElement
        <3>2. Count(objects, apps, calls2, o) = Count(objects, apps, calls, o) + 1
            BY <1>0, <3>1, CountsAreFinite DEF Count, Typed
        <3>3. HandleOf(objects, calls2, o) = HandleOf(objects, calls, o)
            BY <1>2 DEF HandleOf
        <3>4. Count(objects, apps, calls, o) \in Nat
            BY <1>0, CountsAreFinite DEF Typed
        <3> QED BY <1>2, <2>1, <2>3, <3>2, <3>3, <3>4 DEF GoodObject
    <2> QED BY <2>2, <2>3
<1>4. \A u \in Threads : GoodCall(objects, calls2[u])
    BY <1>1 DEF Good, GoodCall
<1> QED BY <1>1, <1>3, <1>4 DEF Good, calls2

\* and gives it back when it ends.
LEMMA CallEnds ==
    ASSUME NEW objects, NEW apps, NEW handles, NEW calls,
           Good(objects, apps, handles, calls, NoObject),
           NEW t \in Threads, calls[t].gives # "none"
    PROVE  /\ Good(objects, apps, handles, [calls EXCEPT ![t] = Idle], calls[t].self)
           /\ calls[t].self \in Objects /\ objects[calls[t].self].kind # "none"
<1> DEFINE calls2 == [calls EXCEPT ![t] = Idle]
           o == calls[t].self
<1>0. /\ Typed(objects, apps, handles, calls) /\ NoObject \notin Objects
      /\ Idle.self = NoObject /\ Idle.gives = "none"
    BY NamesAssumption DEF Good, Idle
<1>1. MethodCall(objects, calls[t])
    BY <1>0 DEF Good, GoodCall, DeallocCall
<1>2. o \in Objects /\ objects[o].kind # "none"
    BY <1>1 DEF MethodCall
<1>3. Idle \in CallRecord
    BY DEF Idle, CallRecord, Phases, AllGives, Refs
<1>4. /\ Typed(objects, apps, handles, calls2)
      /\ calls2[t] = Idle /\ \A u \in Threads \ {t} : calls2[u] = calls[u]
    BY <1>0, <1>3 DEF Typed
<1> HIDE DEF calls2
<1>5. ASSUME NEW p \in Objects
      PROVE  /\ Freeing(calls2, p) = Freeing(calls, p)
             /\ \A u \in Freeing(calls, p) : calls2[u].at = calls[u].at
             /\ Calling(calls2, p) = IF p = o THEN Calling(calls, o) \ {t}
                                     ELSE Calling(calls, p)
             /\ t \in Calling(calls, o)
    BY <1>0, <1>4 DEF Freeing, Calling
<1> HIDE DEF o
<1>6. ASSUME NEW p \in Objects, objects[p].kind # "none"
      PROVE  GoodObject(objects, apps, handles, calls2, p, o)
    <2>1. GoodObject(objects, apps, handles, calls, p, NoObject) /\ p # NoObject
        BY <1>0, <1>6 DEF Good
    <2>2. CASE p # o
        <3>1. ParentIsThere(objects, p)
            BY <2>1 DEF GoodObject
        <3> QED BY <1>5, <2>1, <2>2, <3>1, FrameObject
    <2>3. CASE p = o
        <3>1. Cardinality(Calling(calls2, o)) = Cardinality(Calling(calls, o)) - 1
            <4>1. IsFiniteSet(Calling(calls, o))
                BY <1>0, <1>2, CountsAreFinite DEF Typed
            <4> QED BY <1>2, <1>5, <4>1, FS_RemoveElement
        <3>2. /\ Count(objects, apps, calls, o) = Count(objects, apps, calls2, o) + 1
              /\ Count(objects, apps, calls2, o) \in Nat
            BY <1>0, <1>2, <3>1, CountsAreFinite DEF Count, Typed
        <3>3. HandleOf(objects, calls2, o) = HandleOf(objects, calls, o)
            BY <1>2, <1>5 DEF HandleOf
        <3> QED BY <1>5, <2>1, <2>3, <3>2, <3>3 DEF GoodObject
    <2> QED BY <2>2, <2>3
<1>7. \A u \in Threads : GoodCall(objects, calls2[u])
    BY <1>4 DEF Good, GoodCall
<1> QED BY <1>2, <1>4, <1>6, <1>7 DEF Good, calls2, o

\* The application takes the reference over,
LEMMA ApplicationTakes ==
    ASSUME NEW objects, NEW apps, NEW handles, NEW calls, NEW o \in Objects,
           Good(objects, apps, handles, calls, o), objects[o].kind # "none"
    PROVE  Good(objects, [apps EXCEPT ![o] = @ + 1], handles, calls, NoObject)
<1> DEFINE apps2 == [apps EXCEPT ![o] = @ + 1]
<1>0. Typed(objects, apps, handles, calls) /\ NoObject \notin Objects
    BY NamesAssumption DEF Good
<1>1. /\ Typed(objects, apps2, handles, calls) /\ apps[o] \in Nat
      /\ apps2[o] = apps[o] + 1 /\ \A p \in Objects \ {o} : apps2[p] = apps[p]
    BY <1>0 DEF Typed
<1> HIDE DEF apps2
<1>2. ASSUME NEW p \in Objects, objects[p].kind = "none"
      PROVE  GoneObject(objects, apps2, handles, p)
    BY <1>1, <1>2 DEF Good, GoneObject
<1>3. ASSUME NEW p \in Objects, objects[p].kind # "none"
      PROVE  GoodObject(objects, apps2, handles, calls, p, NoObject)
    <2>1. GoodObject(objects, apps, handles, calls, p, o) /\ p # NoObject
        BY <1>0, <1>3 DEF Good
    <2>2. CASE p # o
        <3>1. ParentIsThere(objects, p)
            BY <2>1 DEF GoodObject
        <3> QED BY <1>1, <2>1, <2>2, <3>1, FrameObject
    <2>3. CASE p = o
        <3>1. /\ Count(objects, apps2, calls, o) = Count(objects, apps, calls, o) + 1
              /\ Count(objects, apps, calls, o) \in Nat
            BY <1>0, <1>1, CountsAreFinite DEF Count, Typed
        <3> QED BY <2>1, <2>3, <3>1 DEF GoodObject
    <2> QED BY <2>2, <2>3
<1> QED BY <1>1, <1>2, <1>3 DEF Good, apps2

\* and lets go of one.
LEMMA ApplicationLetsGo ==
    ASSUME NEW objects, NEW apps, NEW handles, NEW calls, NEW o \in Objects,
           Good(objects, apps, handles, calls, NoObject), apps[o] > 0
    PROVE  /\ Good(objects, [apps EXCEPT ![o] = @ - 1], handles, calls, o)
           /\ objects[o].kind # "none"
<1> DEFINE apps2 == [apps EXCEPT ![o] = @ - 1]
<1>0. Typed(objects, apps, handles, calls) /\ NoObject \notin Objects
    BY NamesAssumption DEF Good
<1>1. /\ Typed(objects, apps2, handles, calls) /\ apps[o] \in Nat
      /\ apps2[o] = apps[o] - 1 /\ \A p \in Objects \ {o} : apps2[p] = apps[p]
    BY <1>0 DEF Typed
<1>2. objects[o].kind # "none"
    BY <1>1 DEF Good, GoneObject
<1> HIDE DEF apps2
<1>3. ASSUME NEW p \in Objects, objects[p].kind = "none"
      PROVE  GoneObject(objects, apps2, handles, p)
    BY <1>1, <1>2, <1>3 DEF Good, GoneObject
<1>4. ASSUME NEW p \in Objects, objects[p].kind # "none"
      PROVE  GoodObject(objects, apps2, handles, calls, p, o)
    <2>1. GoodObject(objects, apps, handles, calls, p, NoObject) /\ p # NoObject
        BY <1>0, <1>4 DEF Good
    <2>2. CASE p # o
        <3>1. ParentIsThere(objects, p)
            BY <2>1 DEF GoodObject
        <3> QED BY <1>1, <2>1, <2>2, <3>1, FrameObject
    <2>3. CASE p = o
        <3>1. /\ Count(objects, apps, calls, o) = Count(objects, apps2, calls, o) + 1
              /\ Count(objects, apps2, calls, o) \in Nat
            BY <1>0, <1>1, CountsAreFinite DEF Count, Typed
        <3> QED BY <2>1, <2>3, <3>1 DEF GoodObject
    <2> QED BY <2>2, <2>3
<1> QED BY <1>1, <1>2, <1>3, <1>4 DEF Good, apps2

\* A thread that drops the last reference starts the deallocation; the calls of
\* the other threads, and the counts, are none the wiser.
LEMMA DeallocStarts ==
    ASSUME NEW objects, NEW apps, NEW handles, NEW calls, NEW o \in Objects,
           NEW objects2, NEW t \in Threads, NEW c \in CallRecord,
           Good(objects, apps, handles, calls, o), objects[o].kind # "none",
           calls[t] = Idle,
           OnlyRefs(objects2, objects, o, objects[o].refs - 1),
           objects[o].kind \in SequenceKinds => objects[o].refs # 1,
           IF objects2[o].refs = 0
           THEN DeallocCall(objects2, c) /\ c.self = o /\ c.at # "freed"
           ELSE c = Idle
    PROVE  Good(objects2, apps, handles, [calls EXCEPT ![t] = c], NoObject)
<1> DEFINE calls2 == [calls EXCEPT ![t] = c]
<1>0. /\ Typed(objects, apps, handles, calls) /\ NoObject \notin Objects
      /\ Idle.self = NoObject /\ Idle.gives = "none"
    BY NamesAssumption DEF Good, Idle
<1>1. /\ Typed(objects2, apps, handles, calls2)
      /\ calls2[t] = c /\ \A u \in Threads \ {t} : calls2[u] = calls[u]
    BY <1>0 DEF Typed, OnlyRefs
<1> HIDE DEF calls2
<1>2. /\ \A p \in Objects : /\ objects2[p].kind = objects[p].kind
                            /\ objects2[p].parent = objects[p].parent
      /\ \A p \in Objects : Children(objects2, p) = Children(objects, p)
      /\ \A p \in Objects : ParentIsThere(objects, p) => ParentIsThere(objects2, p)
      /\ \A d : GoodCall(objects, d) => GoodCall(objects2, d)
    BY OnlyRefsFrame
<1>3. c.gives = "none" /\ (c.self = o \/ c = Idle)
    BY <1>0 DEF DeallocCall
<1>4. ASSUME NEW p \in Objects
      PROVE  /\ Calling(calls2, p) = Calling(calls, p)
             /\ p # o => Freeing(calls2, p) = Freeing(calls, p)
             /\ \A u \in Freeing(calls, p) : u # t /\ calls2[u].at = calls[u].at
             /\ Freeing(calls2, o) = IF objects2[o].refs = 0
                                     THEN Freeing(calls, o) \cup {t}
                                     ELSE Freeing(calls, o)
    BY <1>0, <1>1, <1>3 DEF Freeing, Calling, DeallocCall
<1>5. ASSUME NEW p \in Objects, objects2[p].kind = "none"
      PROVE  GoneObject(objects2, apps, handles, p)
    <2>1. p # o /\ objects[p].kind = "none"
        BY <1>2, <1>5
    <2> QED BY <2>1 DEF OnlyRefs, Good, GoneObject
<1>6. ASSUME NEW p \in Objects, objects2[p].kind # "none"
      PROVE  GoodObject(objects2, apps, handles, calls2, p, NoObject)
    <2>1. GoodObject(objects, apps, handles, calls, p, o) /\ p # NoObject
        BY <1>0, <1>2, <1>6 DEF Good
    <2>2. ParentIsThere(objects2, p)
        BY <1>2, <2>1 DEF GoodObject
    <2>3. CASE p # o
        <3>1. objects2[p].refs = objects[p].refs
            BY <2>3 DEF OnlyRefs
        <3> QED BY <1>2, <1>4, <2>1, <2>2, <2>3, <3>1, FrameObject
    <2>4. CASE p = o
        <3>1. Count(objects2, apps, calls2, o) = Count(objects, apps, calls, o)
            BY <1>2, <1>4 DEF Count
        <3>2. /\ objects2[o].refs = objects[o].refs - 1 /\ objects[o].refs \in Nat
              /\ Count(objects, apps, calls, o) \in Nat
            BY <1>0, CountsAreFinite DEF OnlyRefs, Typed, Object
        <3>3. objects[o].refs >= 1 /\ Freeing(calls, o) = {}
            BY KeptObjects
        <3>4. objects2[o].refs = Count(objects2, apps, calls2, o)
            BY <2>1, <2>4, <3>1, <3>2 DEF GoodObject
        <3>5. objects2[o].refs = 0 => Freeing(calls2, o) = {t}
            BY <1>4, <3>3
        <3>6. objects2[o].refs # 0 => Freeing(calls2, o) = {}
            BY <1>4, <3>3
        <3>7. HandleOf(objects2, calls2, o) = HandleOf(objects, calls, o)
            BY <1>1, <1>2, <3>3, <3>5, <3>6 DEF HandleOf
        <3>8. objects2[o].kind \in SequenceKinds => objects2[o].refs # 0
            BY <1>2, <3>2, <3>3
        <3>9. handles[o] = HandleOf(objects, calls, o)
            BY <2>1, <2>4 DEF GoodObject
        <3>10. /\ objects2[o].refs = 0 <=> Freeing(calls2, o) # {}
               /\ \A u, v \in Freeing(calls2, o) : u = v
            BY <3>5, <3>6
        <3>11. objects2[o].refs = Count(objects2, apps, calls2, o)
                                 + (IF o = NoObject THEN 1 ELSE 0)
            BY <1>0, <3>2, <3>4
        <3>12. handles[o] = HandleOf(objects2, calls2, o)
            BY <3>7, <3>9
        <3> QED BY <2>2, <2>4, <3>8, <3>10, <3>11, <3>12 DEF GoodObject
    <2> QED BY <2>3, <2>4
<1>7. \A u \in Threads : GoodCall(objects2, calls2[u])
    BY <1>1, <1>2 DEF Good, GoodCall
<1> QED BY <1>1, <1>5, <1>6, <1>7 DEF Good, calls2

\* An object whose last reference is gone can go: its parent then has one
\* reference too many.  The thread t, if any, was freeing it.
LEMMA ObjectGoes ==
    ASSUME NEW objects, NEW apps, NEW handles, NEW calls, NEW extra,
           Good(objects, apps, handles, calls, extra),
           NEW s \in Objects, objects[s].kind # "none", handles[s] = NoHandle,
           Count(objects, apps, calls, s) = 0, extra \in {s, NoObject},
           NEW t \in Threads, Freeing(calls, s) \subseteq {t},
           calls[t] = Idle \/ t \in Freeing(calls, s)
    PROVE  Good([objects EXCEPT ![s] = NotThere], apps, handles,
                [calls EXCEPT ![t] = Idle], objects[s].parent)
<1> DEFINE objects2 == [objects EXCEPT ![s] = NotThere]
           calls2 == [calls EXCEPT ![t] = Idle]
           q == objects[s].parent
<1>0. /\ Typed(objects, apps, handles, calls) /\ NoObject \notin Objects
      /\ Idle.self = NoObject /\ Idle.gives = "none"
    BY NamesAssumption DEF Good, Idle
<1>1. Idle \in CallRecord /\ NotThere \in Object /\ NotThere.kind = "none"
    BY DEF Idle, CallRecord, Phases, AllGives, Refs, NotThere, Object
<1>2. /\ Typed(objects2, apps, handles, calls2)
      /\ calls2[t] = Idle /\ \A u \in Threads \ {t} : calls2[u] = calls[u]
      /\ objects2[s] = NotThere
      /\ \A p \in Objects \ {s} : objects2[p] = objects[p]
    BY <1>0, <1>1 DEF Typed
<1> HIDE DEF objects2, calls2
<1>3. apps[s] = 0 /\ Children(objects, s) = {} /\ Calling(calls, s) = {}
    BY <1>0, CountOfNone DEF Typed
<1>4. /\ ParentIsThere(objects, s) /\ q # s
    <2>1. ParentIsThere(objects, s)
        BY DEF Good, GoodObject
    <2>2. q # s
        BY <1>3 DEF Children
    <2> QED BY <2>1, <2>2
<1>5. GoneObject(objects2, apps, handles, s)
    BY <1>2, <1>3 DEF GoneObject
<1>6. ASSUME NEW p \in Objects \ {s}
      PROVE  /\ Calling(calls2, p) = Calling(calls, p)
             /\ Freeing(calls2, p) = Freeing(calls, p)
             /\ \A u \in Freeing(calls, p) : calls2[u].at = calls[u].at
             /\ Children(objects2, p) = IF p = q THEN Children(objects, p) \ {s}
                                        ELSE Children(objects, p)
             /\ p = q => s \in Children(objects, p)
    <2>1. calls[t].self # p /\ calls2[t].self # p
        BY <1>0, <1>2 DEF Freeing
    <2>2. \A u \in Threads : calls[u].self = p => u # t /\ calls2[u] = calls[u]
        BY <1>2, <2>1
    <2>3. \A u \in Threads : calls2[u].self = p => u # t /\ calls2[u] = calls[u]
        BY <1>2, <2>1
    <2>4. Calling(calls2, p) = Calling(calls, p)
        BY <2>2, <2>3 DEF Calling
    <2>5. /\ Freeing(calls2, p) = Freeing(calls, p)
          /\ \A u \in Freeing(calls, p) : calls2[u].at = calls[u].at
        BY <2>2, <2>3 DEF Freeing
    <2>6. /\ Children(objects2, p) = IF p = q THEN Children(objects, p) \ {s}
                                     ELSE Children(objects, p)
          /\ p = q => s \in Children(objects, p)
        BY <1>1, <1>2 DEF Children
    <2> QED BY <2>4, <2>5, <2>6
<1>7. ASSUME NEW p \in Objects \ {s}, objects2[p].kind # "none"
      PROVE  GoodObject(objects2, apps, handles, calls2, p, q)
    <2>1. /\ GoodObject(objects, apps, handles, calls, p, extra)
          /\ objects2[p] = objects[p] /\ p # extra
        BY <1>0, <1>2, <1>7 DEF Good
    <2>2. ParentIsThere(objects2, p)
        <3>1. ParentIsThere(objects, p)
            BY <2>1 DEF GoodObject
        <3>2. objects[p].parent # s
            BY <1>3, <1>7, <2>1 DEF Children
        <3> QED BY <1>2, <2>1, <3>1, <3>2 DEF ParentIsThere
    <2>3. CASE p # q
        BY <1>6, <2>1, <2>2, <2>3, FrameObject
    <2>4. CASE p = q
        <3>1. Cardinality(Children(objects2, p)) = Cardinality(Children(objects, p)) - 1
            <4>1. IsFiniteSet(Children(objects, p))
                BY <1>0, CountsAreFinite DEF Typed
            <4> QED BY <1>6, <2>4, <4>1, FS_RemoveElement
        <3>2. /\ Count(objects, apps, calls, p) = Count(objects2, apps, calls2, p) + 1
              /\ Count(objects2, apps, calls2, p) \in Nat
            BY <1>0, <1>6, <3>1, CountsAreFinite DEF Count, Typed
        <3>3. HandleOf(objects2, calls2, p) = HandleOf(objects, calls, p)
            BY <1>6, <2>1 DEF HandleOf
        <3> QED BY <1>6, <2>1, <2>2, <2>4, <3>2, <3>3 DEF GoodObject
    <2> QED BY <2>3, <2>4
<1>8. ASSUME NEW p \in Objects \ {s}, objects2[p].kind = "none"
      PROVE  GoneObject(objects2, apps, handles, p)
    BY <1>2, <1>8 DEF Good, GoneObject
<1>9. ASSUME NEW u \in Threads PROVE GoodCall(objects2, calls2[u])
    <2>1. CASE u = t
        BY <1>2, <2>1 DEF GoodCall
    <2>2. CASE u # t
        <3>1. GoodCall(objects, calls[u]) /\ calls2[u] = calls[u]
            BY <1>2, <2>2 DEF Good
        <3>2. calls[u].self # s
            BY <1>3, <2>2 DEF Calling, Freeing
        <3>3. calls[u].target # s
            <4>1. CASE calls[u] = Idle
                BY <1>0, <4>1 DEF Idle
            <4>2. CASE MethodCall(objects, calls[u])
                <5>1. calls[u].self \notin Children(objects, s)
                    BY <1>3
                <5> QED BY <3>2, <4>2, <5>1 DEF MethodCall, Children
            <4>3. CASE DeallocCall(objects, calls[u])
                BY <3>2, <4>3 DEF DeallocCall
            <4> QED BY <3>1, <4>1, <4>2, <4>3 DEF GoodCall
        <3> QED BY <1>2, <3>1, <3>2, <3>3, FrameCall
    <2> QED BY <2>1, <2>2
<1>10. \A p \in Objects : /\ objects2[p].kind = "none" =>
                                GoneObject(objects2, apps, handles, p)
                          /\ objects2[p].kind # "none" =>
                                GoodObject(objects2, apps, handles, calls2, p, q)
    BY <1>1, <1>2, <1>5, <1>7, <1>8
<1> QED BY <1>2, <1>9, <1>10 DEF Good, objects2, calls2, q

-----------------------------------------------------------------------------
(***************************************************************************)
(* Dropping a reference, with all that it starts.                          *)
(***************************************************************************)

\* What a deallocation starts with.
LEMMA DeallocIsCall ==
    ASSUME NEW objects, NEW o \in Objects,
           objects[o].kind \notin SequenceKinds \cup {"none"},
           NEW at \in {"close", "free"}, at = "close" => objects[o].kind = "container"
    PROVE  /\ Dealloc(o, at) \in CallRecord /\ DeallocCall(objects, Dealloc(o, at))
           /\ Dealloc(o, at).self = o /\ Dealloc(o, at).at # "freed"
<1>1. Idle \in CallRecord /\ Idle.gives = "none"
    BY DEF Idle, CallRecord, Phases, AllGives, Refs
<1>2. at \in Phases /\ o \in Refs
    BY DEF Phases, Refs
<1>3. /\ Dealloc(o, at) \in CallRecord
      /\ Dealloc(o, at).at = at /\ Dealloc(o, at).gives = "none"
      /\ Dealloc(o, at).self = o /\ Dealloc(o, at).target = o
    BY <1>1, <1>2 DEF Dealloc, CallRecord
<1> QED BY <1>3 DEF DeallocCall

\* The call of a deallocation is one of container_free's.
LEMMA FreeIsCall ==
    ASSUME NEW objects, NEW o \in Objects,
           objects[o].kind \notin SequenceKinds \cup {"none"}
    PROVE  LET c == container_free(objects, o)
           IN  c \in CallRecord /\ DeallocCall(objects, c) /\ c.self = o /\ c.at # "freed"
<1> DEFINE at == IF objects[o].kind = "container" /\ ioHandle THEN "close" ELSE "free"
<1>1. container_free(objects, o) = Dealloc(o, at)
    BY DEF container_free
<1>2. at \in {"close", "free"} /\ (at = "close" => objects[o].kind = "container")
    OBVIOUS
<1> HIDE DEF at
<1> QED BY <1>1, <1>2, DeallocIsCall

\* What a sequence keeps is no sequence, and is not itself.
LEMMA ParentsAreNoSequences ==
    ASSUME NEW objects, NEW o \in Objects, ParentIsThere(objects, o),
           objects[o].kind \in Kinds \ {"container"}
    PROVE  /\ objects[o].parent \in Objects
           /\ objects[objects[o].parent].kind \notin SequenceKinds \cup {"none"}
BY DEF ParentIsThere, ParentKind, SequenceKinds

\* A thread that gives a reference back leaves all counts right.
LEMMA DropKeeps ==
    ASSUME NEW objects, NEW apps, NEW handles, NEW o \in Objects, NEW t \in Threads,
           call \in [Threads -> CallRecord],
           Good(objects, apps, handles, [call EXCEPT ![t] = Idle], o),
           objects[o].kind # "none",
           Drop(t, objects, o)
    PROVE  Good(object', apps, handles, call', NoObject)
<1> DEFINE calls == [call EXCEPT ![t] = Idle]
           q == objects[o].parent
           last == IF IsLastOfSequence(objects, o) THEN q ELSE o
           c == IF object'[last].refs = 0 THEN container_free(object', last) ELSE Idle
<1>0. /\ Typed(objects, apps, handles, calls) /\ NoObject \notin Objects
      /\ Idle \in CallRecord
    BY NamesAssumption DEF Good, Idle, CallRecord, Phases, AllGives, Refs
<1>1. object' = DecRef(objects, o) /\ call' = [calls EXCEPT ![t] = c]
    BY DEF Drop
<1>2. calls[t] = Idle /\ calls = [calls EXCEPT ![t] = Idle]
    OBVIOUS
<1>3. /\ GoodObject(objects, apps, handles, calls, o, o)
      /\ objects[o].kind \in Kinds
      /\ objects[o].refs \in Nat
    BY <1>0 DEF Good, Typed, Object
<1>4. Good(objects, apps, handles, calls, o)
    OBVIOUS
<1> HIDE DEF calls
<1>5. objects[o].refs >= 1 /\ Freeing(calls, o) = {}
    BY <1>4, KeptObjects
<1>6. CASE ~IsLastOfSequence(objects, o)
    <2>1. object' = [objects EXCEPT ![o].refs = @ - 1] /\ last = o
        BY <1>1, <1>6 DEF DecRef
    <2>2. OnlyRefs(object', objects, o, objects[o].refs - 1)
        BY <1>0, <1>5, <2>1, LessRefEffect DEF Typed
    <2>3. objects[o].kind \in SequenceKinds => objects[o].refs # 1
        BY <1>6 DEF IsLastOfSequence
    <2>4. c \in CallRecord /\ (IF object'[o].refs = 0
                               THEN DeallocCall(object', c) /\ c.self = o /\ c.at # "freed"
                               ELSE c = Idle)
        <3>1. CASE object'[o].refs = 0
            <4>1. object'[o].kind \notin SequenceKinds \cup {"none"}
                BY <1>3, <2>2, <2>3, <3>1 DEF OnlyRefs
            <4>2. c = container_free(object', o)
                BY <2>1, <3>1
            <4> QED BY <3>1, <4>1, <4>2, FreeIsCall
        <3>2. CASE object'[o].refs # 0
            BY <1>0, <2>1, <3>2
        <3> QED BY <3>1, <3>2
    <2> HIDE DEF c
    <2> QED BY <1>1, <1>2, <1>4, <2>2, <2>3, <2>4, DeallocStarts
<1>7. CASE IsLastOfSequence(objects, o)
    <2> DEFINE gone == [objects EXCEPT ![o] = NotThere]
    <2>1. objects[o].kind \in SequenceKinds /\ objects[o].refs = 1 /\ last = q
        BY <1>7 DEF IsLastOfSequence
    <2>2. /\ q \in Objects /\ objects[q].kind \notin SequenceKinds \cup {"none"}
          /\ q # o
        <3>1. ParentIsThere(objects, o) /\ objects[o].kind # "container"
            BY <1>3, <2>1 DEF GoodObject, SequenceKinds
        <3> QED BY <1>3, <2>1, <3>1, ParentsAreNoSequences
    <2>4. Good(gone, apps, handles, calls, q)
        <3>1. handles[o] = NoHandle
            BY <1>3, <2>1 DEF GoodObject, HandleOf
        <3>2. Count(objects, apps, calls, o) = 0
            <4>1. Count(objects, apps, calls, o) \in Nat
                BY <1>0, CountsAreFinite DEF Typed
            <4> QED BY <1>3, <2>1, <4>1 DEF GoodObject
        <3> QED BY <1>2, <1>4, <1>5, <3>1, <3>2, ObjectGoes
    <2>5. gone[q] = objects[q] /\ gone \in [Objects -> Object]
        <3>1. Typed(gone, apps, handles, calls)
            BY <2>4 DEF Good
        <3> QED BY <1>0, <2>2, <3>1 DEF Typed
    <2> HIDE DEF gone
    <2>6. gone[q].refs >= 1
        BY <2>2, <2>4, <2>5, KeptObjects
    <2>7. OnlyRefs(object', gone, q, gone[q].refs - 1)
        <3> DEFINE dropped == [objects EXCEPT ![o].refs = @ - 1]
        <3>1. OnlyRefs(dropped, objects, o, objects[o].refs - 1)
            BY <1>0, <1>5, LessRefEffect DEF Typed
        <3>2. object' = sequence_free(dropped, o)
            BY <1>1, <1>7 DEF DecRef
        <3> HIDE DEF dropped
        <3>3. /\ dropped[o].parent = q /\ dropped \in [Objects -> Object]
              /\ \A p \in Objects \ {o} : dropped[p] = objects[p]
            BY <3>1 DEF OnlyRefs
        <3>4. object' = [p \in Objects |->
                               IF p = q THEN [dropped[q] EXCEPT !.refs = @ - 1]
                               ELSE IF p = o THEN NotThere ELSE dropped[p]]
            BY <2>2, <3>2, <3>3 DEF sequence_free
        <3>5. object' = [p \in Objects |->
                            IF p = q THEN [gone[q] EXCEPT !.refs = @ - 1] ELSE gone[p]]
            BY <1>0, <2>2, <3>3, <3>4 DEF gone, Typed
        <3>6. object' = [gone EXCEPT ![q].refs = @ - 1]
            BY <2>2, <2>5, <3>5
        <3> QED BY <2>2, <2>5, <2>6, <3>6, LessRefEffect
    <2>8. c \in CallRecord /\ (IF object'[q].refs = 0
                               THEN DeallocCall(object', c) /\ c.self = q /\ c.at # "freed"
                               ELSE c = Idle)
        <3>1. CASE object'[q].refs = 0
            <4>1. object'[q].kind \notin SequenceKinds \cup {"none"}
                BY <2>2, <2>5, <2>7 DEF OnlyRefs
            <4>2. c = container_free(object', q)
                BY <2>1, <3>1
            <4> QED BY <2>2, <3>1, <4>1, <4>2, FreeIsCall
        <3>2. CASE object'[q].refs # 0
            BY <1>0, <2>1, <3>2
        <3> QED BY <3>1, <3>2
    <2> HIDE DEF c
    <2> QED BY <1>1, <1>2, <2>2, <2>4, <2>5, <2>7, <2>8, DeallocStarts
<1> QED BY <1>6, <1>7

-----------------------------------------------------------------------------
(***************************************************************************)
(* Making an object, and going on with a call.                             *)
(***************************************************************************)

\* NewObject is one of the objects that are not there.
LEMMA NewObjectIsFree ==
    ASSUME Free # {}
    PROVE  NewObject \in Objects /\ object[NewObject].kind = "none"
<1> DEFINE R == OpToRel(<, Nat)
<1>1. IsWellFoundedOn(R, Nat)
    BY NatLessThanWellFounded
<1>2. Free \subseteq Nat
    BY NamesAssumption DEF Free
<1> HIDE DEF R
<1>3. PICK x \in Free : \A y \in Free : ~(<<y, x>> \in R)
    BY <1>1, <1>2, WFMin
<1>4. \A y \in Free : x <= y
    <2> TAKE y \in Free
    <2>1. ~(y < x)
        BY <1>2, <1>3 DEF R, OpToRel
    <2> QED BY <1>2, <2>1
<1>5. NewObject \in Free
    BY <1>4 DEF NewObject
<1> QED BY <1>5 DEF Free

\* The object n of a kind is made from the object q, which it keeps.
Appears(objects, handles, objects2, handles2, n, kind, q) ==
    /\ n \in Objects /\ objects[n].kind = "none"
    /\ kind \in Kinds /\ q \in Refs
    /\ objects2 \in [Objects -> Object] /\ handles2 \in [Objects -> Handle]
    /\ objects2[n].kind = kind /\ objects2[n].refs = 1 /\ objects2[n].parent = q
    /\ \A p \in Objects \ {n, q} : objects2[p] = objects[p]
    /\ kind = "container" => q = NoObject
    /\ kind # "container" => /\ q \in Objects /\ objects[q].kind = ParentKind(kind)
                             /\ objects[q].refs >= 1
                             /\ objects2[q].refs = objects[q].refs + 1
                             /\ objects2[q].kind = objects[q].kind
                             /\ objects2[q].parent = objects[q].parent
    /\ \A p \in Objects \ {n} : handles2[p] = handles[p]
    /\ kind \in SequenceKinds => handles2[n] = NoHandle
    /\ kind \notin SequenceKinds => handles2[n] = Borrower(q)

\* An object that is made counts as a reference to its parent.
LEMMA ObjectAppears ==
    ASSUME NEW objects, NEW apps, NEW handles, NEW calls,
           Good(objects, apps, handles, calls, NoObject),
           NEW objects2, NEW handles2, NEW n, NEW kind, NEW q,
           Appears(objects, handles, objects2, handles2, n, kind, q)
    PROVE  Good(objects2, apps, handles2, calls, n)
<1> USE DEF Appears
<1>0. /\ Typed(objects, apps, handles, calls) /\ NoObject \notin Objects
      /\ Typed(objects2, apps, handles2, calls)
      /\ kind # "none" /\ Idle.self = NoObject
    BY NamesAssumption DEF Good, Typed, Kinds, SequenceKinds, Idle
<1>1. q # n /\ (q # NoObject => q \in Objects /\ objects[q].kind # "none")
    BY <1>0 DEF ParentKind
<1>2. \A p \in Objects \ {n} : /\ objects2[p].kind = objects[p].kind
                               /\ objects2[p].parent = objects[p].parent
    BY <1>0
<1>3. \A p \in Objects : objects[p].kind # "none" => objects[p].parent # n
    <2> TAKE p \in Objects
    <2> HAVE objects[p].kind # "none"
    <2>1. ParentIsThere(objects, p)
        BY DEF Good, GoodObject
    <2> QED BY <1>0, <2>1 DEF ParentIsThere, ParentKind
<1>4. \A t \in Threads : calls[t].self # n /\ calls[t].target # n
    <2> TAKE t \in Threads
    <2>1. GoodCall(objects, calls[t])
        BY DEF Good
    <2> QED BY <1>0, <2>1 DEF GoodCall, MethodCall, DeallocCall, Idle
<1>5. ASSUME NEW p \in Objects
      PROVE  /\ Children(objects2, p) = IF p = q THEN Children(objects, p) \cup {n}
                                        ELSE Children(objects, p)
             /\ n \notin Children(objects, p)
    BY <1>0, <1>1, <1>2 DEF Children
<1>6. Children(objects, n) = {} /\ Calling(calls, n) = {} /\ Freeing(calls, n) = {}
    BY <1>3, <1>4 DEF Children, Calling, Freeing
<1>7. GoodObject(objects2, apps, handles2, calls, n, n)
    <2>1. ParentIsThere(objects2, n)
        BY <1>0, <1>1, <1>2 DEF ParentIsThere
    <2>2. Count(objects2, apps, calls, n) = 0
        <3>1. apps[n] = 0
            BY DEF Good, GoneObject
        <3>2. Children(objects2, n) = {}
            BY <1>1, <1>5, <1>6
        <3> QED BY <1>6, <3>1, <3>2, FS_EmptySet DEF Count
    <2>3. handles2[n] = HandleOf(objects2, calls, n)
        BY <1>6 DEF HandleOf
    <2> QED BY <1>6, <2>1, <2>2, <2>3 DEF GoodObject
<1>8. ASSUME NEW p \in Objects \ {n}, objects2[p].kind # "none"
      PROVE  GoodObject(objects2, apps, handles2, calls, p, n)
    <2>1. GoodObject(objects, apps, handles, calls, p, NoObject) /\ p # NoObject
        BY <1>0, <1>2, <1>8 DEF Good
    <2>2. ParentIsThere(objects2, p)
        <3>1. ParentIsThere(objects, p)
            BY <2>1 DEF GoodObject
        <3>2. objects[p].parent # n
            BY <1>2, <1>3, <1>8
        <3> QED BY <1>2, <3>1, <3>2 DEF ParentIsThere
    <2>3. handles2[p] = handles[p]
        OBVIOUS
    <2>4. CASE p # q
        <3>1. objects2[p].refs = objects[p].refs
            BY <2>4
        <3>2. Children(objects2, p) = Children(objects, p)
            BY <1>5, <2>4
        <3> QED BY <1>2, <2>1, <2>2, <2>3, <3>1, <3>2, FrameObject
    <2>5. CASE p = q
        <3>1. Cardinality(Children(objects2, p)) = Cardinality(Children(objects, p)) + 1
            <4>1. IsFiniteSet(Children(objects, p))
                BY <1>0, CountsAreFinite DEF Typed
            <4> QED BY <1>5, <2>5, <4>1, FS_AddElement
        <3>2. /\ Count(objects2, apps, calls, p) = Count(objects, apps, calls, p) + 1
              /\ Count(objects, apps, calls, p) \in Nat
            BY <1>0, <3>1, CountsAreFinite DEF Count, Typed
        <3>3. HandleOf(objects2, calls, p) = HandleOf(objects, calls, p)
            BY <1>2 DEF HandleOf
        <3>4. objects2[p].refs = objects[p].refs + 1 /\ objects[p].refs >= 1
              /\ objects[p].refs \in Nat /\ objects2[p].kind = objects[p].kind
            BY <1>0, <2>5 DEF Typed, Object
        <3> QED BY <2>1, <2>2, <2>3, <2>5, <3>2, <3>3, <3>4 DEF GoodObject
    <2> QED BY <2>4, <2>5
<1>9. ASSUME NEW p \in Objects \ {n}, objects2[p].kind = "none"
      PROVE  GoneObject(objects2, apps, handles2, p)
    <2>1. objects[p].kind = "none" /\ p # q
        BY <1>0, <1>1, <1>2, <1>9
    <2> QED BY <2>1 DEF Good, GoneObject
<1>10. ASSUME NEW t \in Threads PROVE GoodCall(objects2, calls[t])
    <2>1. GoodCall(objects, calls[t])
        BY DEF Good
    <2> QED BY <1>2, <1>4, <2>1, FrameCall
<1>11. \A p \in Objects : /\ objects2[p].kind = "none" =>
                                GoneObject(objects2, apps, handles2, p)
                          /\ objects2[p].kind # "none" =>
                                GoodObject(objects2, apps, handles2, calls, p, n)
    BY <1>0, <1>7, <1>8, <1>9
<1> QED BY <1>0, <1>10, <1>11 DEF Good

\* Where a sequence is in its iteration is nothing to its references.
LEMMA IterationKeeps ==
    ASSUME NEW objects, NEW apps, NEW handles, NEW calls,
           Good(objects, apps, handles, calls, NoObject),
           NEW objects2 \in [Objects -> Object],
           \A p \in Objects : /\ objects2[p].kind = objects[p].kind
                              /\ objects2[p].refs = objects[p].refs
                              /\ objects2[p].parent = objects[p].parent
                              /\ objects[p].kind = "none" => objects2[p] = objects[p]
    PROVE  Good(objects2, apps, handles, calls, NoObject)
<1>1. \A p \in Objects : Children(objects2, p) = Children(objects, p)
    BY DEF Children
<1>2. ASSUME NEW p \in Objects, objects2[p].kind # "none"
      PROVE  GoodObject(objects2, apps, handles, calls, p, NoObject)
    <2>1. GoodObject(objects, apps, handles, calls, p, NoObject)
        BY <1>2 DEF Good
    <2>2. ParentIsThere(objects, p)
        BY <2>1 DEF GoodObject
    <2>3. ParentIsThere(objects2, p)
        BY <2>2 DEF ParentIsThere
    <2> QED BY <1>1, <2>1, <2>3, FrameObject
<1>3. ASSUME NEW p \in Objects, objects2[p].kind = "none"
      PROVE  GoneObject(objects2, apps, handles, p)
    BY <1>3 DEF Good, GoneObject
<1>4. ASSUME NEW t \in Threads PROVE GoodCall(objects2, calls[t])
    <2>1. GoodCall(objects, calls[t])
        BY DEF Good
    <2> QED BY <2>1, FrameCall
<1>5. Typed(objects2, apps, handles, calls)
    BY DEF Good, Typed
<1> QED BY <1>2, <1>3, <1>4, <1>5 DEF Good

\* A call that goes on keeps its references.
LEMMA CallGoesOn ==
    ASSUME NEW objects, NEW apps, NEW handles, NEW calls,
           Good(objects, apps, handles, calls, NoObject),
           NEW t \in Threads, NEW c \in CallRecord, GoodCall(objects, c),
           c.self = calls[t].self, c.gives = calls[t].gives,
           c.at # "freed", calls[t].at # "freed"
    PROVE  Good(objects, apps, handles, [calls EXCEPT ![t] = c], NoObject)
<1> DEFINE calls2 == [calls EXCEPT ![t] = c]
<1>1. /\ Typed(objects, apps, handles, calls2)
      /\ calls2[t] = c /\ \A u \in Threads \ {t} : calls2[u] = calls[u]
    BY DEF Typed, Good
<1> HIDE DEF calls2
<1>2. ASSUME NEW p \in Objects
      PROVE  /\ Calling(calls2, p) = Calling(calls, p)
             /\ Freeing(calls2, p) = Freeing(calls, p)
             /\ \A u \in Freeing(calls, p) : calls2[u].at = "freed" <=> calls[u].at = "freed"
    BY <1>1 DEF Calling, Freeing
<1>3. ASSUME NEW p \in Objects, objects[p].kind # "none"
      PROVE  GoodObject(objects, apps, handles, calls2, p, NoObject)
    <2>1. GoodObject(objects, apps, handles, calls, p, NoObject)
        BY <1>3 DEF Good
    <2>2. ParentIsThere(objects, p)
        BY <2>1 DEF GoodObject
    <2> QED BY <1>2, <2>1, <2>2, FrameObject
<1>4. \A u \in Threads : GoodCall(objects, calls2[u])
    BY <1>1 DEF Good
<1> QED BY <1>1, <1>3, <1>4 DEF Good, calls2

\* The library object is freed by the thread that deallocates the object.
LEMMA HandleIsFreed ==
    ASSUME NEW objects, NEW apps, NEW handles, NEW calls,
           Good(objects, apps, handles, calls, NoObject),
           NEW t \in Threads, NEW c \in CallRecord, calls[t].at = "free",
           c.self = calls[t].self, c.target = calls[t].target,
           c.gives = calls[t].gives, c.at = "freed"
    PROVE  Good(objects, apps, [handles EXCEPT ![calls[t].self] = NoHandle],
                [calls EXCEPT ![t] = c], NoObject)
<1> DEFINE calls2 == [calls EXCEPT ![t] = c]
           o == calls[t].self
           handles2 == [handles EXCEPT ![o] = NoHandle]
<1>0. NoHandle \in Handle
    BY DEF NoHandle, Handle, Refs
<1>1. DeallocCall(objects, calls[t])
    BY DEF Good, GoodCall, MethodCall, Idle
<1>2. o \in Objects /\ objects[o].kind # "none" /\ calls[t].gives = "none"
    BY <1>1 DEF DeallocCall
<1>3. /\ Typed(objects, apps, handles2, calls2)
      /\ calls2[t] = c /\ \A u \in Threads \ {t} : calls2[u] = calls[u]
      /\ handles2[o] = NoHandle /\ \A p \in Objects \ {o} : handles2[p] = handles[p]
    BY <1>0, <1>2 DEF Typed, Good
<1> HIDE DEF calls2, handles2
<1>4. ASSUME NEW p \in Objects
      PROVE  /\ Calling(calls2, p) = Calling(calls, p)
             /\ Freeing(calls2, p) = Freeing(calls, p)
             /\ p # o => t \notin Freeing(calls, p)
             /\ t \in Freeing(calls, o)
    BY <1>2, <1>3 DEF Calling, Freeing
<1>5. ASSUME NEW p \in Objects, objects[p].kind # "none"
      PROVE  GoodObject(objects, apps, handles2, calls2, p, NoObject)
    <2>1. GoodObject(objects, apps, handles, calls, p, NoObject)
        BY <1>5 DEF Good
    <2>2. ParentIsThere(objects, p)
        BY <2>1 DEF GoodObject
    <2>3. CASE p # o
        <3>1. /\ handles2[p] = handles[p]
              /\ \A u \in Freeing(calls, p) : calls2[u] = calls[u]
            BY <1>3, <1>4, <2>3 DEF Freeing
        <3> QED BY <1>4, <2>1, <2>2, <3>1, FrameObject
    <2>4. CASE p = o
        <3>1. Count(objects, apps, calls2, p) = Count(objects, apps, calls, p)
            BY <1>4 DEF Count
        <3>2. handles2[p] = HandleOf(objects, calls2, p)
            BY <1>3, <1>4, <2>4 DEF HandleOf
        <3> QED BY <1>4, <2>1, <3>1, <3>2 DEF GoodObject
    <2> QED BY <2>3, <2>4
<1>6. ASSUME NEW p \in Objects, objects[p].kind = "none"
      PROVE  GoneObject(objects, apps, handles2, p)
    BY <1>2, <1>3, <1>6 DEF Good, GoneObject
<1>7. GoodCall(objects, c)
    BY <1>1 DEF DeallocCall, GoodCall
<1>8. \A u \in Threads : GoodCall(objects, calls2[u])
    BY <1>3, <1>7 DEF Good
<1> QED BY <1>3, <1>5, <1>6, <1>8 DEF Good, calls2, handles2, o

-----------------------------------------------------------------------------
(***************************************************************************)
(* The methods.                                                            *)
(***************************************************************************)

\* What a method that runs beside others is and gives.
SharedMethod(m) ==
    /\ m.kind \in Kinds \ SequenceKinds /\ m.calls \in Int
    /\ m.gives \in {"value", "abort"} \cup (Kinds \ {"container"})
    /\ MakesObject(m.gives) => m.kind \in MakerKinds(m.gives)

LEMMA MethodFacts ==
    ASSUME NEW m \in HandleMethods \cup {container_signal_abort}
    PROVE  SharedMethod(m)
<1> USE DEF SharedMethod, MakesObject, MakerKinds, ParentKind, Kinds, SequenceKinds
<1>1. CASE m \in ContainerMethods
    <2>1. m \in {Getter("container"), Finder("container", "volume"),
                 Method("container", 1, "volumes")}
        BY <1>1 DEF ContainerMethods, container_is_locked, container_get_size,
            container_get_identifier, container_get_number_of_volumes,
            container_get_volume, container_get_volume_by_index, container_get_volumes
    <2> QED BY <2>1 DEF Getter, Finder, Method
<1>2. CASE m \in VolumeMethods
    <2>1. m \in {Getter("volume"), Finder("volume", "file_entry"),
                 Method("volume", 2, "value")}
        BY <1>2 DEF VolumeMethods, volume_unlock, volume_get_size, volume_get_identifier,
            volume_get_name, volume_is_locked, volume_set_password,
            volume_set_recovery_password, volume_get_next_file_entry_identifier,
            volume_get_file_entry_by_identifier, volume_get_root_directory,
            volume_get_file_entry_by_path
    <2> QED BY <2>1 DEF Getter, Finder, Method
<1>3. CASE m \in FileEntryMethods
    <2>1. m \in {Getter("file_entry"), Finder("file_entry", "file_entry"),
                 Finder("file_entry", "file_entries"),
                 Finder("file_entry", "extended_attribute"),
                 Finder("file_entry", "extended_attributes"),
                 Method("file_entry", 2, "value")}
        BY <1>3 DEF FileEntryMethods, file_entry_get_identifier,
            file_entry_get_parent_identifier, file_entry_get_creation_time,
            file_entry_get_creation_time_as_integer, file_entry_get_modification_time,
            file_entry_get_modification_time_as_integer, file_entry_get_access_time,
            file_entry_get_access_time_as_integer, file_entry_get_inode_change_time,
            file_entry_get_inode_change_time_as_integer, file_entry_get_added_time,
            file_entry_get_added_time_as_integer, file_entry_get_number_of_links,
            file_entry_get_owner_identifier, file_entry_get_group_identifier,
            file_entry_get_device_number, file_entry_get_file_mode,
            file_entry_get_name, file_entry_get_symbolic_link_target,
            file_entry_get_number_of_extended_attributes,
            file_entry_get_extended_attribute_by_index, file_entry_get_extended_attribute,
            file_entry_get_extended_attributes,
            file_entry_has_extended_attribute_by_name,
            file_entry_get_extended_attribute_by_name,
            file_entry_get_number_of_sub_file_entries,
            file_entry_get_sub_file_entry_by_index, file_entry_get_sub_file_entry,
            file_entry_get_sub_file_entries, file_entry_get_sub_file_entry_by_name,
            file_entry_read_buffer, file_entry_read_buffer_at_offset,
            file_entry_seek_offset, file_entry_get_offset, file_entry_get_size,
            file_entry_get_number_of_extents, file_entry_get_extent_by_index,
            file_entry_get_extent
    <2> QED BY <2>1 DEF Getter, Finder, Method
<1>4. CASE m \in ExtendedAttributeMethods
    <2>1. m \in {Getter("extended_attribute"), Method("extended_attribute", 2, "value")}
        BY <1>4 DEF ExtendedAttributeMethods, extended_attribute_get_identifier,
            extended_attribute_get_name, extended_attribute_read_buffer,
            extended_attribute_read_buffer_at_offset, extended_attribute_seek_offset,
            extended_attribute_get_offset, extended_attribute_get_size,
            extended_attribute_get_number_of_extents,
            extended_attribute_get_extent_by_index, extended_attribute_get_extent
    <2> QED BY <2>1 DEF Getter, Method
<1>5. CASE m = container_signal_abort
    <2>1. /\ m.kind = "container" /\ m.calls = 1 /\ m.gives = "abort"
        BY <1>5 DEF container_signal_abort, Getter, Method
    <2> QED BY <2>1
<1> QED BY <1>1, <1>2, <1>3, <1>4, <1>5 DEF HandleMethods

\* What opening and closing give.
LEMMA ExclusiveFacts ==
    ASSUME NEW m \in {container_open, container_open_file_object, container_close}
    PROVE  m.kind = "container" /\ m.calls = 1 /\ m.gives \in {"opened", "closed"}
BY DEF container_open, container_open_file_object, container_close, Getter, Method

\* An item of a sequence is made by a method of the sequence's parent.
LEMMA ItemFacts ==
    ASSUME NEW s \in Objects, object[s].kind \in SequenceKinds
    PROVE  /\ SharedMethod(ItemMethod(s))
           /\ ItemMethod(s).kind = ParentKind(object[s].kind)
           /\ ItemMethod(s).gives \in Kinds \ {"container"}
<1> USE DEF SharedMethod, MakesObject, MakerKinds, ParentKind, Kinds, SequenceKinds
<1>1. CASE object[s].kind = "volumes"
    <2>1. ItemMethod(s) = container_get_volume_by_index
        BY <1>1 DEF ItemMethod
    <2> QED BY <1>1, <2>1 DEF container_get_volume_by_index, Finder, Method
<1>2. CASE object[s].kind = "file_entries"
    <2>1. ItemMethod(s) = file_entry_get_sub_file_entry_by_index
        BY <1>2 DEF ItemMethod
    <2> QED BY <1>2, <2>1 DEF file_entry_get_sub_file_entry_by_index, Finder, Method
<1>3. CASE object[s].kind = "extended_attributes"
    <2>1. ItemMethod(s) = file_entry_get_extended_attribute_by_index
        BY <1>3 DEF ItemMethod
    <2> QED BY <1>3, <2>1 DEF file_entry_get_extended_attribute_by_index, Finder, Method
<1> QED BY <1>1, <1>2, <1>3

-----------------------------------------------------------------------------
(***************************************************************************)
(* Every step keeps the counts right.                                      *)
(***************************************************************************)

\* A thread that is idle does nothing.
LEMMA IdleThreads ==
    ASSUME RefInv, NEW t \in Threads
    PROVE  (call[t].at = "idle" \/ call[t].self = NoObject) <=> call[t] = Idle
<1>1. GoodCall(object, call[t]) /\ NoObject \notin Objects
    BY NamesAssumption DEF RefInv, Good
<1>2. Idle.at = "idle" /\ Idle.self = NoObject
    BY DEF Idle
<1> QED BY <1>1, <1>2 DEF GoodCall, MethodCall, DeallocCall

\* An object that the application has a reference to.
LEMMA HeldObjects ==
    ASSUME RefInv, NEW o \in Objects, app[o] > 0
    PROVE  object[o].kind # "none" /\ object[o].refs >= 1 /\ Freeing(call, o) = {}
<1>1. object[o].kind # "none"
    BY DEF RefInv, Good, GoneObject
<1> QED BY <1>1, KeptObjects DEF RefInv

\* A method is called on an object the application has a reference to.
LEMMA StartKeeps ==
    ASSUME RefInv, NEW t \in Threads, NEW o \in Objects, CanCall(t, o),
           NEW target \in Objects, NEW m, NEW item \in Int,
           m.gives \in AllGives, m.calls \in Int,
           MethodCall(object, Start(o, target, m, item)),
           object' = IncRef(object, o),
           call' = [call EXCEPT ![t] = Start(o, target, m, item)],
           UNCHANGED <<app, handle>>
    PROVE  RefInv'
<1> DEFINE c == Start(o, target, m, item)
<1>1. call[t] = Idle
    BY IdleThreads DEF CanCall
<1>2. object[o].kind # "none" /\ object[o].refs >= 1
    BY HeldObjects DEF CanCall
<1>3. Good(object', app, handle, call, o)
    BY <1>2, IncRefKeeps DEF RefInv
<1>4. c \in CallRecord /\ c.self = o /\ c.gives # "none"
    BY DEF Start, CallRecord, Phases, Refs, MethodCall
<1>5. MethodCall(object', c)
    <2> DEFINE refs == object[o].refs + 1
    <2>1. OnlyRefs(object', object, o, refs)
        BY IncRefEffect DEF RefInv, Good, Typed
    <2>2. GoodCall(object, c)
        BY DEF GoodCall
    <2>3. c # Idle
        BY <1>4 DEF Idle
    <2> HIDE DEF c, refs
    <2>4. \A d : GoodCall(object, d) => GoodCall(object', d)
        BY <2>1, OnlyRefsFrame
    <2> QED BY <1>4, <2>2, <2>3, <2>4 DEF GoodCall, DeallocCall
<1> HIDE DEF c
<1>6. Good(object', app, handle, [call EXCEPT ![t] = c], NoObject)
    BY <1>1, <1>3, <1>4, <1>5, CallBegins
<1> QED BY <1>6 DEF RefInv, c

\* A call takes its next step.
LEMMA GoesOnKeeps ==
    ASSUME RefInv, NEW t \in Threads, NEW c \in CallRecord,
           c.self = call[t].self, c.target = call[t].target, c.gives = call[t].gives,
           \/ /\ call[t].at \in {"enter", "library", "read", "reading", "return"}
              /\ c.at \in {"enter", "library", "read", "reading", "return"}
           \/ call[t].at = "return" /\ c.at = "freeio" /\ call[t].gives = "closed"
           \/ call[t].at = "close" /\ c.at = "freeio"
           \/ /\ call[t].at = "freeio"
              /\ c.at = IF call[t].gives = "none" THEN "free" ELSE "return",
           call' = [call EXCEPT ![t] = c], UNCHANGED <<object, app, handle>>
    PROVE  RefInv'
<1>1. GoodCall(object, call[t])
    BY DEF RefInv, Good
<1>2. GoodCall(object, c)
    <2>1. CASE call[t] = Idle
        BY <2>1 DEF Idle
    <2>2. CASE MethodCall(object, call[t])
        <3>1. MethodCall(object, c)
            BY <2>2 DEF MethodCall
        <3> QED BY <3>1 DEF GoodCall
    <2>3. CASE DeallocCall(object, call[t])
        <3>1. DeallocCall(object, c)
            BY <2>3 DEF DeallocCall
        <3> QED BY <3>1 DEF GoodCall
    <2> QED BY <1>1, <2>1, <2>2, <2>3 DEF GoodCall
<1>3. Good(object, app, handle, call', NoObject)
    BY <1>2, CallGoesOn DEF RefInv
<1> QED BY <1>3 DEF RefInv

\* A call ends and gives its reference back.
LEMMA EndKeeps ==
    ASSUME NEW objects, NEW apps, NEW handles, NEW t \in Threads,
           Good(objects, apps, handles, call, NoObject), call[t].gives # "none",
           Drop(t, objects, call[t].self)
    PROVE  Good(object', apps, handles, call', NoObject)
<1>1. /\ Good(objects, apps, handles, [call EXCEPT ![t] = Idle], call[t].self)
      /\ call[t].self \in Objects /\ objects[call[t].self].kind # "none"
    BY CallEnds
<1>2. call \in [Threads -> CallRecord]
    BY DEF Good, Typed
<1> QED BY <1>1, <1>2, DropKeeps

\* The object whose library object a call works on is kept.
LEMMA TargetIsKept ==
    ASSUME RefInv, NEW t \in Threads, call[t].gives # "none"
    PROVE  /\ MethodCall(object, call[t])
           /\ object[call[t].target].refs >= 1 /\ Freeing(call, call[t].target) = {}
<1>1. MethodCall(object, call[t])
    <2>1. GoodCall(object, call[t])
        BY DEF RefInv, Good
    <2> QED BY <2>1 DEF GoodCall, DeallocCall, Idle
<1>2. call[t].target \in Objects /\ object[call[t].target].kind # "none"
    BY <1>1 DEF MethodCall
<1>3. t \in Calling(call, call[t].self)
    BY DEF Calling
<1>4. CASE call[t].target = call[t].self
    BY <1>1, <1>2, <1>3, <1>4, KeptObjects DEF RefInv
<1>5. CASE call[t].target # call[t].self
    <2>1. call[t].self \in Children(object, call[t].target)
        BY <1>1, <1>5 DEF MethodCall, Children
    <2> QED BY <1>1, <1>2, <2>1, KeptObjects DEF RefInv
<1> QED BY <1>1, <1>4, <1>5

\* The object that a new one keeps, and what its library object borrows from.
LEMMA NewParent ==
    ASSUME RefInv, NEW t \in Threads, MakesObject(call[t].gives)
    PROVE  LET q == ParentOf(call[t].gives, call[t].target)
           IN  /\ q \in Objects /\ object[q].kind = ParentKind(call[t].gives)
               /\ object[q].refs >= 1
               /\ LenderOf(call[t].gives, call[t].target) = q
<1> DEFINE gives == call[t].gives
           g == call[t].target
           q == ParentOf(gives, g)
<1>1. gives # "none" /\ gives \in Kinds
    BY DEF MakesObject, Kinds, SequenceKinds
<1>2. /\ MethodCall(object, call[t]) /\ object[g].refs >= 1 /\ Freeing(call, g) = {}
    BY <1>1, TargetIsKept
<1>3. g \in Objects /\ object[g].kind # "none" /\ object[g].kind \in MakerKinds(gives)
    BY <1>2 DEF MethodCall
<1>4. CASE object[g].kind = "file_entry" /\ gives = "file_entry"
    <2>1. q = object[g].parent /\ LenderOf(gives, g) = handle[g].from
        BY <1>4 DEF ParentOf, LenderOf
    <2>2. GoodObject(object, app, handle, call, g, NoObject)
        BY <1>3 DEF RefInv, Good
    <2>3. q \in Objects /\ object[q].kind = "volume"
        BY <1>4, <2>1, <2>2 DEF GoodObject, ParentIsThere, ParentKind
    <2>4. handle[g].from = q
        <3>1. handle[g] = Borrower(object[g].parent)
            BY <1>2, <1>4, <2>2 DEF GoodObject, HandleOf, SequenceKinds
        <3> QED BY <2>1, <3>1 DEF Borrower
    <2>5. g \in Children(object, q)
        BY <1>3, <2>1 DEF Children
    <2>6. object[q].refs >= 1
        BY <2>3, <2>5, KeptObjects DEF RefInv
    <2> QED BY <1>4, <2>1, <2>3, <2>4, <2>6 DEF ParentKind
<1>5. CASE ~(object[g].kind = "file_entry" /\ gives = "file_entry")
    <2>1. q = g /\ LenderOf(gives, g) = g
        BY <1>5 DEF ParentOf, LenderOf
    <2>2. object[g].kind = ParentKind(gives)
        BY <1>3, <1>5 DEF MakerKinds, ParentKind
    <2> QED BY <1>2, <1>3, <2>1, <2>2
<1> QED BY <1>4, <1>5

\* A container is made: a reference to it is nobody's yet.
LEMMA ContainerAppears ==
    ASSUME RefInv, Free # {},
           object' = [object EXCEPT ![NewObject] =
                         [NotThere EXCEPT !.kind = "container", !.refs = 1]],
           handle' = [handle EXCEPT ![NewObject].held = TRUE]
    PROVE  /\ Good(object', app, handle', call, NewObject)
           /\ NewObject \in Objects /\ object'[NewObject].kind = "container"
<1> DEFINE n == NewObject
           new == [NotThere EXCEPT !.kind = "container", !.refs = 1]
<1>1. n \in Objects /\ object[n].kind = "none"
    BY NewObjectIsFree
<1>2. /\ object \in [Objects -> Object] /\ handle \in [Objects -> Handle]
      /\ handle[n] = NoHandle
    BY <1>1 DEF RefInv, Good, Typed, GoneObject
<1>3. /\ new \in Object /\ new.kind = "container" /\ new.refs = 1
      /\ new.parent = NoObject
    <2>1. NotThere \in Object /\ NotThere.parent = NoObject
        BY DEF NotThere, Object, Refs
    <2> QED BY <2>1 DEF Object, Kinds
<1> HIDE DEF n, new
<1>4. object' = [object EXCEPT ![n] = new] /\ handle' = [handle EXCEPT ![n].held = TRUE]
    BY DEF n, new
<1>5. /\ object' \in [Objects -> Object] /\ object'[n] = new
      /\ \A p \in Objects \ {n} : object'[p] = object[p]
    BY <1>1, <1>2, <1>3, <1>4
<1>6. Borrower(NoObject) \in Handle
    BY DEF Handle, Refs, Borrower
<1>7. /\ handle'[n] = Borrower(NoObject)
      /\ \A p \in Objects \ {n} : handle'[p] = handle[p]
      /\ handle' \in [Objects -> Handle]
    <2>1. [NoHandle EXCEPT !.held = TRUE] = Borrower(NoObject)
        <3> DEFINE r == [NoHandle EXCEPT !.held = TRUE]
        <3>1. NoHandle \in Handle /\ NoHandle.from = NoObject
            BY DEF NoHandle, Handle, Refs
        <3>2. r \in Handle /\ r.from = NoObject /\ r.held
            BY <3>1 DEF Handle
        <3>3. r.held = TRUE
            BY <3>2
        <3> HIDE DEF r
        <3>4. r = [held |-> r.held, from |-> r.from]
            BY <3>2 DEF Handle
        <3> QED BY <3>2, <3>3, <3>4 DEF r, Borrower
    <2>2. handle' = [handle EXCEPT ![n] = [handle[n] EXCEPT !.held = TRUE]]
        BY <1>4
    <2>3. handle' = [handle EXCEPT ![n] = Borrower(NoObject)]
        BY <1>2, <2>1, <2>2
    <2> QED BY <1>1, <1>2, <1>6, <2>3
<1>8. "container" \in Kinds \ SequenceKinds /\ NoObject \in Refs
    BY DEF Kinds, SequenceKinds, Refs
<1>9. Appears(object, handle, object', handle', n, "container", NoObject)
    BY <1>1, <1>3, <1>5, <1>7, <1>8 DEF Appears
<1>10. Good(object', app, handle', call, n)
    BY <1>9, ObjectAppears DEF RefInv
<1> QED BY <1>1, <1>3, <1>5, <1>10 DEF n

\* An object is made for what the library made, and the iteration moves on.
LEMMA MadeKeeps ==
    ASSUME RefInv, NEW t \in Threads, MakesObject(call[t].gives), Free # {},
           NEW handles,
           handles = IF call[t].gives \in SequenceKinds THEN handle
                     ELSE [handle EXCEPT ![NewObject] =
                              [held |-> TRUE,
                               from |-> LenderOf(call[t].gives, call[t].target)]]
    PROVE  LET self == call[t].self
               moved == MoveOn(object_new(object, call[t].gives,
                                          ParentOf(call[t].gives, call[t].target)), t)
           IN  /\ Good(moved, [app EXCEPT ![NewObject] = 1], handles, call, NoObject)
               /\ NewObject \in Objects /\ object[NewObject].kind = "none"
               /\ moved[NewObject].kind = call[t].gives
               /\ moved[NewObject].current_index = 0 /\ moved[NewObject].given = <<>>
               /\ \A p \in Objects \ {NewObject} :
                     /\ moved[p].kind = object[p].kind
                     /\ call[t].item = -1 \/ p # self =>
                           /\ moved[p].current_index = object[p].current_index
                           /\ moved[p].given = object[p].given
               /\ call[t].item # -1 =>
                     /\ moved[self].current_index = object[self].current_index + 1
                     /\ moved[self].given = Append(object[self].given, call[t].item)
<1> DEFINE n == NewObject
           gives == call[t].gives
           q == ParentOf(gives, call[t].target)
           new == [NotThere EXCEPT !.kind = gives, !.refs = 1, !.parent = q]
           first == [object EXCEPT ![n] = new]
           made == object_new(object, gives, q)
           moved == MoveOn(made, t)
           self == call[t].self
<1>1. n \in Objects /\ object[n].kind = "none"
    BY NewObjectIsFree
<1>2. /\ object \in [Objects -> Object] /\ handle \in [Objects -> Handle]
      /\ app \in [Objects -> Nat] /\ call[t] \in CallRecord
      /\ handle[n] = NoHandle /\ app[n] = 0
    BY <1>1 DEF RefInv, Good, Typed, GoneObject
<1>3. /\ q \in Objects /\ object[q].kind = ParentKind(gives) /\ object[q].refs >= 1
      /\ LenderOf(gives, call[t].target) = q /\ q # n
      /\ gives \in Kinds \ {"container"} /\ gives # "none" /\ q \in Refs
    <2>1. gives \in Kinds \ {"container"} /\ gives # "none"
        BY DEF MakesObject, Kinds, SequenceKinds
    <2>2. /\ q \in Objects /\ object[q].kind = ParentKind(gives) /\ object[q].refs >= 1
          /\ LenderOf(gives, call[t].target) = q
        BY NewParent
    <2> QED BY <1>1, <2>1, <2>2 DEF ParentKind, Refs
<1> HIDE DEF q
<1>4. /\ new \in Object /\ new.kind = gives /\ new.refs = 1 /\ new.parent = q
      /\ new.current_index = 0 /\ new.given = <<>>
    <2>1. NotThere \in Object
        BY DEF NotThere, Object, Refs
    <2>2. new \in Object /\ new.kind = gives /\ new.refs = 1 /\ new.parent = q
        BY <1>3, <2>1 DEF Object
    <2> QED BY <2>1, <2>2 DEF NotThere, Object
<1>5. made = IncRef(first, q)
    BY DEF object_new
<1> HIDE DEF n, new, made
<1>6. first \in [Objects -> Object] /\ first[n] = new /\ first[q] = object[q]
      /\ \A p \in Objects \ {n} : first[p] = object[p]
    BY <1>1, <1>2, <1>3, <1>4
<1> HIDE DEF first
<1>7. OnlyRefs(made, first, q, first[q].refs + 1)
    BY <1>3, <1>5, <1>6, IncRefEffect
<1>8. /\ made \in [Objects -> Object] /\ made[n] = new
      /\ \A p \in Objects \ {n, q} : made[p] = object[p]
      /\ made[q].refs = object[q].refs + 1 /\ made[q].kind = object[q].kind
      /\ made[q].parent = object[q].parent
      /\ \A p \in Objects \ {n} : /\ made[p].kind = object[p].kind
                                  /\ made[p].current_index = object[p].current_index
                                  /\ made[p].given = object[p].given
    BY <1>1, <1>3, <1>6, <1>7 DEF OnlyRefs
<1>9. Borrower(q) \in Handle
    BY <1>3 DEF Handle, Borrower
<1>10. /\ gives \in SequenceKinds => handles[n] = NoHandle
       /\ gives \notin SequenceKinds => handles[n] = Borrower(q)
       /\ \A p \in Objects \ {n} : handles[p] = handle[p]
       /\ handles \in [Objects -> Handle]
    BY <1>1, <1>2, <1>3, <1>9 DEF n, Borrower
<1>11. Good(made, app, handles, call, n)
    <2>1. Appears(object, handle, made, handles, n, gives, q)
        BY <1>1, <1>3, <1>4, <1>8, <1>10 DEF Appears
    <2> QED BY <2>1, ObjectAppears DEF RefInv
<1>12. Good(made, [app EXCEPT ![n] = @ + 1], handles, call, NoObject)
    BY <1>1, <1>3, <1>4, <1>8, <1>11, ApplicationTakes
<1>13. [app EXCEPT ![n] = @ + 1] = [app EXCEPT ![n] = 1]
    BY <1>1, <1>2
<1> DEFINE Moved == /\ moved[n].kind = gives
                    /\ moved[n].current_index = 0 /\ moved[n].given = <<>>
                    /\ \A p \in Objects \ {n} :
                         /\ moved[p].kind = object[p].kind
                         /\ call[t].item = -1 \/ p # self =>
                              /\ moved[p].current_index = object[p].current_index
                              /\ moved[p].given = object[p].given
                    /\ call[t].item # -1 =>
                         /\ moved[self].current_index = object[self].current_index + 1
                         /\ moved[self].given = Append(object[self].given, call[t].item)
<1>14. Good(moved, [app EXCEPT ![n] = 1], handles, call, NoObject) /\ Moved
    <2>1. CASE call[t].item = -1
        <3>1. moved = made
            BY <2>1 DEF MoveOn
        <3> HIDE DEF moved
        <3> QED BY <1>1, <1>4, <1>8, <1>12, <1>13, <2>1, <3>1
    <2>2. CASE call[t].item # -1
        <3>1. self \in Objects /\ object[self].kind # "none"
            BY <1>3, TargetIsKept DEF MethodCall
        <3>2. made[self].kind # "none"
            BY <1>1, <1>8, <3>1
        <3> DEFINE r == [made[self] EXCEPT !.current_index = @ + 1,
                                           !.given = Append(@, call[t].item)]
        <3>3. /\ r \in Object /\ r.kind = made[self].kind /\ r.refs = made[self].refs
              /\ r.parent = made[self].parent
            <4>1. made[self] \in Object /\ call[t].item \in Int
                BY <1>2, <1>8, <3>1 DEF CallRecord
            <4>2. /\ made[self].current_index + 1 \in Nat
                  /\ Append(made[self].given, call[t].item) \in Seq(Int)
                BY <4>1 DEF Object
            <4> QED BY <4>1, <4>2 DEF Object
        <3>4. moved = [made EXCEPT ![self] = r]
            BY <1>8, <2>2, <3>1 DEF MoveOn
        <3> HIDE DEF r
        <3>5. /\ moved \in [Objects -> Object] /\ moved[self] = r
              /\ \A p \in Objects \ {self} : moved[p] = made[p]
            BY <1>8, <3>1, <3>3, <3>4
        <3>6. \A p \in Objects : /\ moved[p].kind = made[p].kind
                                 /\ moved[p].refs = made[p].refs
                                 /\ moved[p].parent = made[p].parent
                                 /\ made[p].kind = "none" => moved[p] = made[p]
            BY <3>2, <3>3, <3>5
        <3>7. self # n
            BY <1>1, <3>1
        <3>8. /\ r.current_index = object[self].current_index + 1
              /\ r.given = Append(object[self].given, call[t].item)
            <4>1. made[self] \in Object
                BY <1>8, <3>1
            <4>2. /\ r.current_index = made[self].current_index + 1
                  /\ r.given = Append(made[self].given, call[t].item)
                BY <4>1 DEF r, Object
            <4> QED BY <1>8, <3>1, <3>7, <4>2
        <3> HIDE DEF moved
        <3>9. Moved
            BY <1>1, <1>4, <1>8, <2>2, <3>5, <3>6, <3>7, <3>8
        <3>10. Good(moved, [app EXCEPT ![n] = 1], handles, call, NoObject)
            BY <1>12, <1>13, <3>5, <3>6, IterationKeeps
        <3> QED BY <3>9, <3>10
    <2> QED BY <2>1, <2>2
<1> QED BY <1>1, <1>14 DEF n, q, made

\* A container that is made and opened at once is not the application's yet.
NewIsNotHeld ==
    \A t \in Threads : call[t].gives = "container" => app[call[t].self] = 0

LEMMA RefInvInit ==
    ASSUME Init
    PROVE  RefInv
<1>1. Idle \in CallRecord /\ NotThere \in Object /\ NotThere.kind = "none"
    BY DEF Idle, CallRecord, Phases, AllGives, Refs, NotThere, Object
<1>2. NoHandle \in Handle
    BY DEF NoHandle, Handle, Refs
<1>3. Typed(object, app, handle, call)
    BY <1>1, <1>2 DEF Init, Typed
<1>4. \A o \in Objects : object[o].kind = "none" /\ GoneObject(object, app, handle, o)
    BY <1>1 DEF Init, GoneObject
<1>5. \A t \in Threads : GoodCall(object, call[t])
    BY DEF Init, GoodCall
<1> QED BY <1>3, <1>4, <1>5 DEF RefInv, Good

\* The application's steps.
LEMMA ApplicationKeepsCounts ==
    ASSUME RefInv, NEW t \in Threads, Application(t)
    PROVE  RefInv'
<1>0. /\ Typed(object, app, handle, call) /\ NoObject \notin Objects
    BY NamesAssumption DEF RefInv, Good
<1>1. CASE container_init(t)
    <2>1. /\ Good(object', app, handle', call, NewObject)
          /\ NewObject \in Objects /\ object'[NewObject].kind = "container"
        BY <1>1, ContainerAppears DEF container_init
    <2> DEFINE n == NewObject
    <2>2. app[n] = 0 /\ app' = [app EXCEPT ![n] = 1] /\ call' = call
        BY <1>1, NewObjectIsFree DEF container_init, RefInv, Good, GoneObject
    <2>3. app' = [app EXCEPT ![n] = @ + 1]
        BY <1>0, <2>1, <2>2 DEF Typed
    <2> HIDE DEF n
    <2>4. Good(object', app, handle', call, n) /\ n \in Objects /\ object'[n].kind # "none"
        BY <2>1 DEF n
    <2>5. Good(object', app', handle', call, NoObject)
        BY <2>3, <2>4, ApplicationTakes
    <2> QED BY <2>2, <2>5 DEF RefInv
<1>2. CASE open_new_container_with_file_object(t)
    <2> DEFINE n == NewObject
               m == [container_open_file_object EXCEPT !.gives = "container"]
               c == Start(n, n, m, -1)
    <2>1. /\ Good(object', app, handle', call, n)
          /\ n \in Objects /\ object'[n].kind = "container"
        BY <1>2, ContainerAppears DEF open_new_container_with_file_object
    <2>2. m.gives = "container" /\ m.calls = 1
        BY DEF container_open_file_object, Getter, Method
    <2>3. call[t] = Idle /\ call' = [call EXCEPT ![t] = c] /\ app' = app
        BY <1>2, IdleThreads DEF open_new_container_with_file_object
    <2> HIDE DEF n, m
    <2>4. /\ c \in CallRecord /\ c.self = n /\ c.target = n
          /\ c.gives = "container" /\ c.at = "enter"
        BY <2>1, <2>2 DEF Start, CallRecord, Phases, Refs, AllGives, Kinds
    <2>5. MethodCall(object', c)
        BY <2>1, <2>4 DEF MethodCall, MakesObject, SequenceKinds
    <2> HIDE DEF c
    <2>6. Good(object', app, handle', call', NoObject)
        BY <2>1, <2>3, <2>4, <2>5, CallBegins
    <2> QED BY <2>3, <2>6 DEF RefInv
<1>3. ASSUME NEW o \in Objects, NEW m \in HandleMethods \cup {container_signal_abort},
             CallMethod(t, o, m)
      PROVE  RefInv'
    <2>1. SharedMethod(m) /\ object[o].kind = m.kind
        BY <1>3, MethodFacts DEF CallMethod
    <2>2. m.gives \in AllGives /\ m.calls \in Int
        BY <2>1 DEF SharedMethod, AllGives
    <2>3. MethodCall(object, Start(o, o, m, -1))
        BY <2>1 DEF SharedMethod, MethodCall, Start, Kinds, SequenceKinds
    <2> DEFINE item == -1
    <2>4. /\ CanCall(t, o) /\ object' = IncRef(object, o) /\ UNCHANGED <<app, handle>>
          /\ call' = [call EXCEPT ![t] = Start(o, o, m, item)]
          /\ MethodCall(object, Start(o, o, m, item)) /\ item \in Int
        BY <1>3, <2>3 DEF CallMethod
    <2> HIDE DEF item
    <2> QED BY <2>2, <2>4, StartKeeps
<1>4. ASSUME NEW o \in Objects,
             NEW m \in {container_open, container_open_file_object, container_close},
             CallExclusive(t, o, m)
      PROVE  RefInv'
    <2>1. /\ object[o].kind = "container" /\ m.calls = 1
          /\ m.gives \in {"opened", "closed"}
        BY <1>4, ExclusiveFacts DEF CallExclusive
    <2>2. m.gives \in AllGives /\ m.calls \in Int
        BY <2>1 DEF AllGives
    <2>3. MethodCall(object, Start(o, o, m, -1))
        BY <2>1 DEF MakesObject, MethodCall, Start, Kinds, SequenceKinds
    <2> DEFINE item == -1
    <2>4. /\ CanCall(t, o) /\ object' = IncRef(object, o) /\ UNCHANGED <<app, handle>>
          /\ call' = [call EXCEPT ![t] = Start(o, o, m, item)]
          /\ MethodCall(object, Start(o, o, m, item)) /\ item \in Int
        BY <1>4, <2>3 DEF CallExclusive
    <2> HIDE DEF item
    <2> QED BY <2>2, <2>4, StartKeeps
<1>5. ASSUME NEW o \in Objects, sequence_iter(t, o)
      PROVE  RefInv'
    <2>1. object[o].kind # "none" /\ object[o].refs >= 1
        BY <1>5, HeldObjects DEF sequence_iter, CanCall
    <2>2. Good(object', app, handle, call, o)
        BY <1>5, <2>1, IncRefKeeps DEF sequence_iter, RefInv
    <2>3. object'[o].kind # "none"
        <3>1. OnlyRefs(object', object, o, object[o].refs + 1)
            BY <1>0, <1>5, IncRefEffect DEF sequence_iter, Typed
        <3> QED BY <2>1, <3>1 DEF OnlyRefs
    <2>4. Good(object', [app EXCEPT ![o] = @ + 1], handle, call, NoObject)
        BY <2>2, <2>3, ApplicationTakes
    <2> QED BY <1>5, <2>4 DEF sequence_iter, RefInv
<1>6. ASSUME NEW o \in Objects, NEW i \in Int, NEW moves, CallItem(t, o, i, moves)
      PROVE  RefInv'
    <2> DEFINE q == object[o].parent
               m == ItemMethod(o)
               item == IF moves THEN i ELSE -1
    <2>1. object[o].kind \in SequenceKinds
        BY <1>6 DEF CallItem
    <2>2. /\ SharedMethod(m) /\ m.kind = ParentKind(object[o].kind)
          /\ m.gives \in Kinds \ {"container"}
        BY <2>1, ItemFacts
    <2>3. q \in Objects /\ object[q].kind = m.kind
        <3>1. ParentIsThere(object, o)
            BY <1>6, HeldObjects DEF CallItem, CanCall, RefInv, Good, GoodObject
        <3> QED BY <2>1, <2>2, <3>1 DEF ParentIsThere, SequenceKinds
    <2>4. CanCall(t, o) /\ object' = IncRef(object, o) /\ UNCHANGED <<app, handle>>
          /\ call' = [call EXCEPT ![t] = Start(o, q, m, item)]
        BY <1>6 DEF CallItem
    <2>5. item \in Int
        OBVIOUS
    <2> HIDE DEF q, m, item
    <2>6. m.gives \in AllGives /\ m.calls \in Int /\ object[q].kind # "none"
        BY <2>2, <2>3 DEF SharedMethod, AllGives, Kinds, SequenceKinds
    <2>7. MethodCall(object, Start(o, q, m, item))
        <3>1. m.gives \notin {"none", "opened", "closed", "container"}
            BY <2>2 DEF Kinds, SequenceKinds
        <3>2. object[o].kind # "none"
            BY <2>1 DEF SequenceKinds
        <3> QED BY <2>1, <2>2, <2>3, <2>6, <3>1, <3>2 DEF SharedMethod, MethodCall, Start, q
    <2> QED BY <2>3, <2>4, <2>5, <2>6, <2>7, StartKeeps
<1>7. ASSUME NEW o \in Objects, sequence_getitem(t, o)
      PROVE  RefInv'
    <2>1. NumberOfItems \in Nat
        BY BoundsAssumption
    <2>2. PICK i \in 0 .. NumberOfItems - 1 : CallItem(t, o, i, FALSE)
        BY <1>7 DEF sequence_getitem
    <2>3. i \in Int
        BY <2>1
    <2> QED BY <1>6, <2>2, <2>3
<1>8. ASSUME NEW o \in Objects, sequence_iternext(t, o)
      PROVE  RefInv'
    <2>1. object[o].current_index \in Int
        BY <1>0 DEF Typed, Object
    <2> QED BY <1>6, <1>8, <2>1 DEF sequence_iternext
<1>9. ASSUME NEW o \in Objects, ReleaseReference(t, o)
      PROVE  RefInv'
    <2>1. call[t] = Idle
        BY <1>9, IdleThreads DEF ReleaseReference, CanCall
    <2>2. call = [call EXCEPT ![t] = Idle] /\ call \in [Threads -> CallRecord]
        BY <1>0, <2>1 DEF Typed
    <2>3. Good(object, app', handle, call, o) /\ object[o].kind # "none"
        BY <1>9, ApplicationLetsGo DEF ReleaseReference, CanCall, RefInv
    <2>4. Good(object, app', handle, [call EXCEPT ![t] = Idle], o)
        BY <2>2, <2>3
    <2>5. Drop(t, object, o) /\ handle' = handle
        BY <1>9 DEF ReleaseReference
    <2>6. Good(object', app', handle, call', NoObject)
        BY <2>2, <2>3, <2>4, <2>5, DropKeeps
    <2> QED BY <2>5, <2>6 DEF RefInv
<1>10. ASSUME NEW o \in Objects, container_open_file_object_refused(t, o)
       PROVE  RefInv'
    BY <1>10 DEF container_open_file_object_refused, RefInv
<1> QED BY <1>1, <1>2, <1>3, <1>4, <1>5, <1>7, <1>8, <1>9, <1>10 DEF Application

\* The steps of a call that goes on.
GoesOn(t) ==
    \/ EnterLibrary(t) \/ SignalAbort(t) \/ DeallocCloses(t)
    \/ file_object_io_handle_seek_offset(t) \/ file_object_io_handle_read(t)
    \/ file_object_read_buffer(t) \/ ReturnForSecondCall(t)
    \/ file_object_io_handle_free(t)
    \/ container_close_returns(t) /\ call[t].ok /\ ioHandle
    \/ \E ok \in BOOLEAN : LeaveLibrary(t, ok)

\* Such a step changes where the thread is in its call, and nothing of what the
\* call is about.
LEMMA GoesOnEffect ==
    ASSUME RefInv, NEW t \in Threads, GoesOn(t)
    PROVE  \E c \in CallRecord :
             /\ call' = [call EXCEPT ![t] = c]
             /\ c.self = call[t].self /\ c.target = call[t].target
             /\ c.gives = call[t].gives /\ c.item = call[t].item
             /\ UNCHANGED <<object, app, handle>>
             /\ \/ /\ call[t].at \in {"enter", "library", "read", "reading", "return"}
                   /\ c.at \in {"enter", "library", "read", "reading", "return"}
                \/ call[t].at = "return" /\ c.at = "freeio" /\ call[t].gives = "closed"
                \/ call[t].at = "close" /\ c.at = "freeio"
                \/ /\ call[t].at = "freeio"
                   /\ c.at = IF call[t].gives = "none" THEN "free" ELSE "return"
<1>0. call \in [Threads -> CallRecord] /\ call[t] \in CallRecord
    BY DEF RefInv, Good, Typed
<1> DEFINE At(at) == [call[t] EXCEPT !.at = at]
<1>1. \A at \in Phases : /\ At(at) \in CallRecord /\ At(at).at = at
                         /\ At(at).self = call[t].self /\ At(at).target = call[t].target
                         /\ At(at).gives = call[t].gives /\ At(at).item = call[t].item
    BY <1>0 DEF CallRecord
<1>2. CASE EnterLibrary(t)
    <2>1. call' = [call EXCEPT ![t] = At("library")]
        BY <1>0, <1>2 DEF EnterLibrary
    <2> HIDE DEF At
    <2> QED BY <1>1, <1>2, <2>1 DEF EnterLibrary, Phases
<1>3. CASE SignalAbort(t)
    <2> DEFINE c == [call[t] EXCEPT !.at = "return", !.ok = TRUE]
    <2>1. call' = [call EXCEPT ![t] = c]
        BY <1>0, <1>3 DEF SignalAbort
    <2>2. /\ c \in CallRecord /\ c.at = "return"
          /\ c.self = call[t].self /\ c.target = call[t].target
          /\ c.gives = call[t].gives /\ c.item = call[t].item
        BY <1>0 DEF CallRecord, Phases
    <2> HIDE DEF c
    <2> QED BY <1>3, <2>1, <2>2 DEF SignalAbort
<1>4. CASE DeallocCloses(t)
    <2>1. call' = [call EXCEPT ![t] = At("freeio")]
        BY <1>0, <1>4 DEF DeallocCloses
    <2> HIDE DEF At
    <2> QED BY <1>1, <1>4, <2>1 DEF DeallocCloses, Phases
<1>5. CASE file_object_io_handle_seek_offset(t)
    <2> DEFINE reads == call[t].reads + 1
               c == [call[t] EXCEPT !.at = "read", !.reads = reads]
    <2>1. call' = [call EXCEPT ![t] = c] /\ reads \in Int
        BY <1>0, <1>5 DEF file_object_io_handle_seek_offset, CallRecord
    <2> HIDE DEF reads
    <2>2. /\ c \in CallRecord /\ c.at = "read"
          /\ c.self = call[t].self /\ c.target = call[t].target
          /\ c.gives = call[t].gives /\ c.item = call[t].item
        BY <1>0, <2>1 DEF CallRecord, Phases
    <2> HIDE DEF c
    <2> QED BY <1>5, <2>1, <2>2 DEF file_object_io_handle_seek_offset
<1>6. CASE file_object_io_handle_read(t)
    <2>1. call' = [call EXCEPT ![t] = At("reading")]
        BY <1>0, <1>6 DEF file_object_io_handle_read
    <2> HIDE DEF At
    <2> QED BY <1>1, <1>6, <2>1 DEF file_object_io_handle_read, Phases
<1>7. CASE file_object_read_buffer(t)
    <2>1. call' = [call EXCEPT ![t] = At("library")]
        BY <1>0, <1>7 DEF file_object_read_buffer
    <2> HIDE DEF At
    <2> QED BY <1>1, <1>7, <2>1 DEF file_object_read_buffer, Phases
<1>8. CASE ReturnForSecondCall(t)
    <2> DEFINE calls == call[t].calls - 1
               c == [call[t] EXCEPT !.at = "enter", !.calls = calls, !.ok = FALSE]
    <2>1. call' = [call EXCEPT ![t] = c] /\ calls \in Int
        BY <1>0, <1>8 DEF ReturnForSecondCall, CallRecord
    <2> HIDE DEF calls
    <2>2. /\ c \in CallRecord /\ c.at = "enter"
          /\ c.self = call[t].self /\ c.target = call[t].target
          /\ c.gives = call[t].gives /\ c.item = call[t].item
        BY <1>0, <2>1 DEF CallRecord, Phases
    <2> HIDE DEF c
    <2> QED BY <1>8, <2>1, <2>2 DEF ReturnForSecondCall
<1>9. CASE file_object_io_handle_free(t)
    <2> DEFINE at == IF call[t].gives = "none" THEN "free" ELSE "return"
    <2>1. call' = [call EXCEPT ![t] = At(at)]
        BY <1>0, <1>9 DEF file_object_io_handle_free
    <2>2. at \in Phases
        BY DEF Phases
    <2> HIDE DEF At
    <2> QED BY <1>1, <1>9, <2>1, <2>2 DEF file_object_io_handle_free
<1>10. CASE container_close_returns(t) /\ call[t].ok /\ ioHandle
    <2>1. call' = [call EXCEPT ![t] = At("freeio")]
        BY <1>0, <1>10 DEF container_close_returns
    <2>2. /\ call[t].at = "return" /\ call[t].gives = "closed"
          /\ UNCHANGED <<object, app, handle>>
        BY <1>10 DEF container_close_returns
    <2> HIDE DEF At
    <2> QED BY <1>1, <2>1, <2>2 DEF Phases
<1>11. ASSUME NEW ok \in BOOLEAN, LeaveLibrary(t, ok)
       PROVE  \E c \in CallRecord :
                 /\ call' = [call EXCEPT ![t] = c]
                 /\ c.self = call[t].self /\ c.target = call[t].target
                 /\ c.gives = call[t].gives /\ c.item = call[t].item
                 /\ UNCHANGED <<object, app, handle>>
                 /\ call[t].at = "library" /\ c.at = "return"
    <2> DEFINE c == [call[t] EXCEPT !.at = "return", !.ok = ok, !.reads = 0]
    <2>1. call' = [call EXCEPT ![t] = c]
        BY <1>0, <1>11 DEF LeaveLibrary
    <2>2. /\ c \in CallRecord /\ c.at = "return"
          /\ c.self = call[t].self /\ c.target = call[t].target
          /\ c.gives = call[t].gives /\ c.item = call[t].item
        <3> DEFINE b == [call[t] EXCEPT !.at = "return", !.ok = ok]
        <3>1. /\ b \in CallRecord /\ b.at = "return"
              /\ b.self = call[t].self /\ b.target = call[t].target
              /\ b.gives = call[t].gives /\ b.item = call[t].item
            BY <1>0 DEF CallRecord, Phases
        <3>2. c = [b EXCEPT !.reads = 0]
            OBVIOUS
        <3> HIDE DEF b, c
        <3> QED BY <3>1, <3>2 DEF CallRecord
    <2> HIDE DEF c
    <2> QED BY <1>11, <2>1, <2>2 DEF LeaveLibrary
<1> QED BY <1>2, <1>3, <1>4, <1>5, <1>6, <1>7, <1>8, <1>9, <1>10, <1>11 DEF GoesOn

\* A deallocated object goes, and its parent has one reference too many.
LEMMA DeallocatedGoes ==
    ASSUME RefInv, NEW t \in Threads, DeallocDropsParent(t)
    PROVE  LET q == object[call[t].self].parent
               gone == [object EXCEPT ![call[t].self] = NotThere]
           IN  /\ Good(gone, app, handle, [call EXCEPT ![t] = Idle], q)
               /\ q # NoObject => q \in Objects /\ gone[q].kind # "none"
<1> DEFINE o == call[t].self
           q == object[o].parent
           gone == [object EXCEPT ![o] = NotThere]
<1>0. /\ Typed(object, app, handle, call) /\ NoObject \notin Objects
      /\ GoodCall(object, call[t])
    BY NamesAssumption DEF RefInv, Good
<1>1. DeallocCall(object, call[t]) /\ call[t].at = "freed"
    BY <1>0 DEF DeallocDropsParent, GoodCall, MethodCall, Idle
<1>2. o \in Objects /\ object[o].kind # "none" /\ t \in Freeing(call, o)
    BY <1>1 DEF DeallocCall, Freeing
<1>3. GoodObject(object, app, handle, call, o, NoObject)
    BY <1>2 DEF RefInv, Good
<1>4. /\ handle[o] = NoHandle /\ Freeing(call, o) \subseteq {t}
      /\ Count(object, app, call, o) = 0 /\ ParentIsThere(object, o)
    <2>1. handle[o] = NoHandle
        BY <1>1, <1>2, <1>3 DEF GoodObject, HandleOf
    <2>2. Count(object, app, call, o) \in Nat
        BY <1>0, <1>2, CountsAreFinite DEF Typed
    <2>3. object[o].refs = 0 /\ o # NoObject
        BY <1>0, <1>2, <1>3 DEF GoodObject
    <2>4. Count(object, app, call, o) = 0
        BY <1>3, <2>2, <2>3 DEF GoodObject
    <2> QED BY <1>2, <1>3, <2>1, <2>4 DEF GoodObject
<1>5. Good(gone, app, handle, [call EXCEPT ![t] = Idle], q)
    BY <1>2, <1>4, ObjectGoes DEF RefInv
<1>6. ASSUME q # NoObject PROVE q \in Objects /\ gone[q].kind # "none"
    <2>1. q \in Objects /\ object[q].kind # "none"
        BY <1>4, <1>6 DEF ParentIsThere, ParentKind
    <2>2. o \notin Children(object, o)
        BY <1>0, <1>2, <1>4, CountOfNone DEF Typed
    <2>3. q # o
        BY <1>2, <2>1, <2>2 DEF Children
    <2> QED BY <1>0, <2>1, <2>3 DEF Typed
<1> QED BY <1>5, <1>6

\* The steps of a thread that is in a call.
LEMMA ThreadKeepsCounts ==
    ASSUME RefInv, NewIsNotHeld, NEW t \in Threads, Waits(t) \/ Works(t)
    PROVE  RefInv'
<1>0. /\ Typed(object, app, handle, call) /\ NoObject \notin Objects
      /\ GoodCall(object, call[t])
      /\ call[t].gives = "none" \/ call[t].gives # "none"
    BY NamesAssumption DEF RefInv, Good
<1>1. CASE GoesOn(t)
    BY <1>1, GoesOnEffect, GoesOnKeeps
<1>2. CASE ReturnObject(t)
    <2>1. /\ MakesObject(call[t].gives) /\ Free # {} /\ call[t].gives # "none"
        BY <1>2 DEF ReturnObject, MakesObject, Kinds, SequenceKinds
    <2> DEFINE objects == MoveOn(object_new(object, call[t].gives,
                                    ParentOf(call[t].gives, call[t].target)), t)
    <2>2. Good(objects, app', handle', call, NoObject)
        BY <1>2, <2>1, MadeKeeps DEF ReturnObject
    <2>3. Drop(t, objects, call[t].self)
        BY <1>2 DEF ReturnObject
    <2> HIDE DEF objects
    <2> QED BY <2>1, <2>2, <2>3, EndKeeps DEF RefInv
<1>3. CASE ReturnValue(t)
    <2>1. call[t].gives # "none"
        BY <1>0, <1>3 DEF ReturnValue, GoodCall, MethodCall, DeallocCall, Idle
    <2> QED BY <1>3, <2>1, EndKeeps DEF ReturnValue, RefInv
<1>4. CASE container_close_returns(t) /\ ~(call[t].ok /\ ioHandle)
    <2>1. call[t].gives # "none" /\ Drop(t, object, call[t].self)
          /\ UNCHANGED <<app, handle>>
        BY <1>4 DEF container_close_returns
    <2> QED BY <2>1, EndKeeps DEF RefInv
<1>5. CASE container_open_returns(t)
    <2> DEFINE o == call[t].self
    <2>1. call[t].gives \in {"opened", "container"} /\ call[t].gives # "none"
        BY <1>5 DEF container_open_returns, Opens
    <2>2. MethodCall(object, call[t])
        BY <1>0, <2>1 DEF GoodCall, DeallocCall, Idle
    <2>3. o \in Objects /\ object[o].kind = "container"
        BY <2>1, <2>2 DEF MethodCall
    <2>4. Good(object, app, handle, [call EXCEPT ![t] = Idle], o)
        BY <2>1, CallEnds DEF RefInv
    <2>5. CASE call[t].gives = "container" /\ call[t].ok
        <3>1. /\ app' = [app EXCEPT ![o] = 1] /\ call' = [call EXCEPT ![t] = Idle]
              /\ object' = object /\ handle' = handle
            BY <1>5, <2>5 DEF container_open_returns
        <3>2. app[o] = 0 /\ app \in [Objects -> Nat]
            BY <1>0, <2>5 DEF NewIsNotHeld, Typed
        <3>3. o \in Objects /\ object[o].kind # "none"
            BY <2>3
        <3> HIDE DEF o
        <3>4. app' = [app EXCEPT ![o] = @ + 1]
            BY <3>1, <3>2, <3>3
        <3>5. Good(object, app, handle, call', o)
            BY <2>4, <3>1
        <3>6. Good(object, app', handle, call', NoObject)
            BY <3>3, <3>4, <3>5, ApplicationTakes
        <3> QED BY <3>1, <3>6 DEF RefInv
    <2>6. CASE ~(call[t].gives = "container" /\ call[t].ok)
        <3> DEFINE calls == [call EXCEPT ![t] = Idle]
                   c == IF object'[o].refs = 0
                        THEN Dealloc(o, IF ioHandle' THEN "close" ELSE "free")
                        ELSE Idle
        <3>1. /\ object' = DecRef(object, o) /\ call' = [call EXCEPT ![t] = c]
              /\ app' = app /\ handle' = handle
            BY <1>5, <2>6 DEF container_open_returns
        <3>2. object' = [object EXCEPT ![o].refs = @ - 1] /\ ~(object[o].kind \in SequenceKinds)
            BY <2>3, <3>1 DEF DecRef, IsLastOfSequence, SequenceKinds
        <3>3. object[o].refs >= 1
            BY <2>3, <2>4, KeptObjects
        <3>4. OnlyRefs(object', object, o, object[o].refs - 1)
            BY <1>0, <2>3, <3>2, <3>3, LessRefEffect DEF Typed
        <3>5. object'[o].kind = "container"
            BY <2>3, <3>4 DEF OnlyRefs
        <3>6. Idle \in CallRecord
            BY DEF Idle, CallRecord, Phases, AllGives, Refs
        <3>7. c \in CallRecord /\ (IF object'[o].refs = 0
                                   THEN DeallocCall(object', c) /\ c.self = o /\ c.at # "freed"
                                   ELSE c = Idle)
            <4>1. CASE object'[o].refs = 0
                <5> DEFINE at == IF ioHandle' THEN "close" ELSE "free"
                <5>1. c = Dealloc(o, at) /\ at \in {"close", "free"}
                    BY <4>1
                <5>2. object'[o].kind \notin SequenceKinds \cup {"none"}
                    BY <3>5 DEF SequenceKinds
                <5> HIDE DEF at, c
                <5> QED BY <2>3, <3>5, <4>1, <5>1, <5>2, DeallocIsCall
            <4>2. CASE object'[o].refs # 0
                BY <3>6, <4>2
            <4> QED BY <4>1, <4>2
        <3>8. calls[t] = Idle /\ call' = [calls EXCEPT ![t] = c]
            BY <1>0, <3>1 DEF Typed
        <3>9. Good(object, app, handle, calls, o) /\ object[o].kind # "none"
            BY <2>3, <2>4
        <3> HIDE DEF calls, c, o
        <3>10. Good(object', app, handle, call', NoObject)
            BY <2>3, <3>2, <3>4, <3>7, <3>8, <3>9, DeallocStarts
        <3> QED BY <3>1, <3>10 DEF RefInv
    <2> QED BY <2>5, <2>6
<1>6. CASE DeallocFrees(t)
    <2> DEFINE c == [call[t] EXCEPT !.at = "freed"]
    <2>1. call[t] \in CallRecord
        BY <1>0 DEF Typed
    <2>2. /\ call[t].at = "free" /\ call' = [call EXCEPT ![t] = c]
          /\ handle' = [handle EXCEPT ![call[t].self] = NoHandle]
          /\ object' = object /\ app' = app
        BY <1>0, <1>6 DEF DeallocFrees, Typed
    <2>3. /\ c \in CallRecord /\ c.at = "freed" /\ c.self = call[t].self
          /\ c.target = call[t].target /\ c.gives = call[t].gives
        BY <2>1 DEF CallRecord, Phases
    <2> HIDE DEF c
    <2>4. Good(object, app, handle', call', NoObject)
        BY <2>2, <2>3, HandleIsFreed DEF RefInv
    <2> QED BY <2>2, <2>4 DEF RefInv
<1>7. CASE DeallocDropsParent(t)
    <2> DEFINE q == object[call[t].self].parent
               gone == [object EXCEPT ![call[t].self] = NotThere]
    <2>1. /\ Good(gone, app, handle, [call EXCEPT ![t] = Idle], q)
          /\ q # NoObject => q \in Objects /\ gone[q].kind # "none"
        BY <1>7, DeallocatedGoes
    <2>2. CASE q = NoObject
        <3>1. /\ object' = gone /\ call' = [call EXCEPT ![t] = Idle]
              /\ UNCHANGED <<app, handle>>
            BY <1>7, <2>2 DEF DeallocDropsParent
        <3> QED BY <2>1, <2>2, <3>1 DEF RefInv
    <2>3. CASE q # NoObject
        <3>1. Drop(t, gone, q) /\ UNCHANGED <<app, handle>>
            BY <1>7, <2>3 DEF DeallocDropsParent
        <3>2. call \in [Threads -> CallRecord]
            BY <1>0 DEF Typed
        <3> HIDE DEF gone, q
        <3>3. Good(object', app, handle, call', NoObject)
            BY <2>1, <2>3, <3>1, <3>2, DropKeeps
        <3> QED BY <3>1, <3>3 DEF RefInv
    <2> QED BY <2>2, <2>3
<1> QED BY <1>1, <1>2, <1>3, <1>4, <1>5, <1>6, <1>7 DEF Waits, Works, GoesOn

-----------------------------------------------------------------------------
(***************************************************************************)
(* Opening and closing.  The invariant says that whoever opens or closes   *)
(* the container is alone with it, so that no other call ever meets a      *)
(* container that is being closed.                                         *)
(***************************************************************************)

AllAreContainers(objects) == \A o \in Objects : objects[o].kind \in {"none", "container"}
AtMostOneContainer(objects) ==
    \A o, p \in Objects :
        objects[o].kind = "container" /\ objects[p].kind = "container" => o = p

IsExclusive(c) == c.gives \in {"opened", "closed", "container"}

\* A thread that opens or closes the container has it to itself.
ExclusiveIsAlone ==
    \A t \in Threads : IsExclusive(call[t]) =>
        AllAreContainers(object) /\ \A u \in Threads \ {t} : call[u] = Idle

\* Nothing that was made from the container is left when it is closed.
ClosedIsEmpty == opened = "no" => AllAreContainers(object)

\* What the library made, it made of an open container.
MadeWhileOpen ==
    \A t \in Threads :
        call[t].at = "return" /\ call[t].ok /\ MakesObject(call[t].gives) => opened # "no"

\* Who reads the file-like object does so through a file IO handle.
ReadsHaveHandle ==
    \A t \in Threads : call[t].at \in {"read", "reading"} => ReadsFileObject

OpenInv ==
    /\ AtMostOneContainer(object)
    /\ NewIsNotHeld
    /\ ExclusiveIsAlone
    /\ ClosedIsEmpty
    /\ MadeWhileOpen
    /\ ReadsHaveHandle

\* Every object keeps a container, if it is not one.
LEMMA RootIsContainer ==
    ASSUME NEW objects, NEW apps, NEW handles, NEW calls,
           Good(objects, apps, handles, calls, NoObject),
           NEW o \in Objects, objects[o].kind # "none"
    PROVE  \E p \in Objects : /\ objects[p].kind = "container"
                              /\ p = o \/ Children(objects, p) # {}
<1>1. \A p \in Objects : /\ objects[p].kind # "none" => ParentIsThere(objects, p)
                         /\ objects[p].kind \in Kinds \cup {"none"}
    BY DEF Good, GoodObject, Typed, Object
<1>2. ASSUME NEW p \in Objects, objects[p].kind # "none", objects[p].kind # "container"
      PROVE  /\ objects[p].parent \in Objects
             /\ objects[objects[p].parent].kind = ParentKind(objects[p].kind)
             /\ p \in Children(objects, objects[p].parent)
    BY <1>1, <1>2 DEF ParentIsThere, Children
<1>3. ASSUME NEW p \in Objects, objects[p].kind \in {"volume", "volumes"}
      PROVE  \E r \in Objects : objects[r].kind = "container" /\ Children(objects, r) # {}
    BY <1>2, <1>3 DEF ParentKind
<1>4. ASSUME NEW p \in Objects, objects[p].kind = "file_entry"
      PROVE  \E r \in Objects : objects[r].kind = "container" /\ Children(objects, r) # {}
    <2>1. objects[p].parent \in Objects /\ objects[objects[p].parent].kind = "volume"
        BY <1>2, <1>4 DEF ParentKind
    <2> QED BY <1>3, <2>1
<1>5. ASSUME NEW p \in Objects,
             objects[p].kind \in {"file_entries", "extended_attribute", "extended_attributes"}
      PROVE  \E r \in Objects : objects[r].kind = "container" /\ Children(objects, r) # {}
    <2>1. objects[p].parent \in Objects /\ objects[objects[p].parent].kind = "file_entry"
        BY <1>2, <1>5 DEF ParentKind
    <2> QED BY <1>4, <2>1
<1>6. CASE objects[o].kind = "container"
    BY <1>6
<1>7. CASE objects[o].kind # "container"
    BY <1>1, <1>3, <1>4, <1>5, <1>7 DEF Kinds, SequenceKinds
<1> QED BY <1>6, <1>7

\* A thread that is in a call is in one of an object that is there.
LEMMA BusyThreads ==
    ASSUME NEW objects, NEW apps, NEW handles, NEW calls, NEW extra,
           Good(objects, apps, handles, calls, extra),
           NEW t \in Threads, calls[t] # Idle
    PROVE  /\ calls[t].self \in Objects /\ objects[calls[t].self].kind # "none"
           /\ t \in Calling(calls, calls[t].self) \cup Freeing(calls, calls[t].self)
           /\ calls[t].at # "idle"
<1>1. GoodCall(objects, calls[t])
    BY DEF Good
<1>2. calls[t].self \in Objects /\ objects[calls[t].self].kind # "none"
      /\ calls[t].at # "idle"
    BY <1>1 DEF GoodCall, MethodCall, DeallocCall
<1> QED BY <1>2 DEF Calling, Freeing

\* When a container is deallocated there is nothing else.
LEMMA LonelyContainer ==
    ASSUME NEW objects, NEW apps, NEW handles, NEW calls,
           Good(objects, apps, handles, calls, NoObject), AtMostOneContainer(objects),
           NEW t \in Threads, DeallocCall(objects, calls[t]),
           objects[calls[t].self].kind = "container"
    PROVE  AllAreContainers(objects) /\ \A u \in Threads \ {t} : calls[u] = Idle
<1> DEFINE o == calls[t].self
<1>1. o \in Objects /\ t \in Freeing(calls, o) /\ o # NoObject
    BY NamesAssumption DEF DeallocCall, Freeing
<1>2. GoodObject(objects, apps, handles, calls, o, NoObject) /\ apps \in [Objects -> Nat]
    BY <1>1 DEF Good, Typed
<1>3. Children(objects, o) = {} /\ Calling(calls, o) = {} /\ Freeing(calls, o) = {t}
    <2>1. Count(objects, apps, calls, o) \in Nat
        BY <1>1, <1>2, CountsAreFinite
    <2>2. Count(objects, apps, calls, o) = 0
        BY <1>1, <1>2, <2>1 DEF GoodObject
    <2>3. Freeing(calls, o) = {t}
        BY <1>1, <1>2 DEF GoodObject
    <2> QED BY <1>1, <1>2, <2>2, <2>3, CountOfNone
<1>4. \A p \in Objects : objects[p].kind # "none" => p = o
    BY <1>1, <1>3, RootIsContainer DEF AtMostOneContainer
<1>5. AllAreContainers(objects)
    BY <1>4 DEF AllAreContainers
<1>6. ASSUME NEW u \in Threads \ {t}, calls[u] # Idle PROVE FALSE
    <2>1. calls[u].self = o /\ u \in Calling(calls, o) \cup Freeing(calls, o)
        BY <1>4, <1>6, BusyThreads
    <2> QED BY <1>3, <2>1
<1> QED BY <1>5, <1>6

\* A thread that opens or closes the container keeps the others from calling.
LEMMA ExclusiveKeepsOthersOut ==
    ASSUME RefInv, OpenInv, NEW u \in Threads, IsExclusive(call[u]),
           NEW o \in Objects, app[o] > 0
    PROVE  /\ object[o].kind = "container" /\ o = call[u].self
           /\ u \in CallsOn(o) /\ call[u].at # "idle"
           /\ call[u].gives \in {"opened", "closed"}
<1>1. MethodCall(object, call[u])
    <2>1. GoodCall(object, call[u]) /\ call[u].gives # "none"
        BY DEF RefInv, Good, IsExclusive
    <2> QED BY <2>1 DEF GoodCall, DeallocCall, Idle
<1>2. object[o].kind = "container" /\ object[call[u].self].kind = "container"
      /\ call[u].self \in Objects /\ call[u].at # "idle"
    BY <1>1, HeldObjects
        DEF OpenInv, ExclusiveIsAlone, AllAreContainers, MethodCall, IsExclusive
<1>3. o = call[u].self
    BY <1>2 DEF OpenInv, AtMostOneContainer
<1>4. call[u].gives # "container"
    BY <1>3 DEF OpenInv, NewIsNotHeld
<1> QED BY <1>2, <1>3, <1>4 DEF CallsOn, IsExclusive

\* Two objects that differ in their count only.
SameButRefs(a, b) == /\ a.kind = b.kind /\ a.parent = b.parent
                     /\ a.current_index = b.current_index /\ a.given = b.given

\* What dropping a reference does to objects and calls.
LEMMA DropEffect ==
    ASSUME NEW objects, objects \in [Objects -> Object], NEW o \in Objects,
           objects[o].kind \in SequenceKinds => objects[o].parent \in Objects \ {o},
           NEW t \in Threads, call \in [Threads -> CallRecord], Drop(t, objects, o)
    PROVE  /\ \A p \in Objects : \/ SameButRefs(object'[p], NotThere)
                                 \/ SameButRefs(object'[p], objects[p])
           /\ \A p \in Objects : objects[p].kind = "container" =>
                                    object'[p].kind = "container"
           /\ \A u \in Threads \ {t} : call'[u] = call[u]
           /\ call'[t].gives = "none" /\ call'[t].item = -1
           /\ call'[t].at \in {"idle", "close", "free"}
<1> DEFINE Fields == {"kind", "refs", "parent", "current_index", "given"}
           IsTable(f) == DOMAIN f = Objects /\ \A p \in Objects : DOMAIN f[p] = Fields
           Less(f, q) == [f EXCEPT ![q].refs = @ - 1]
<1>1. ASSUME NEW f, IsTable(f), NEW q
      PROVE  IsTable(Less(f, q)) /\ \A p \in Objects : SameButRefs(Less(f, q)[p], f[p])
    <2> DEFINE r == [f[q] EXCEPT !.refs = @ - 1]
    <2>1. Less(f, q) = [f EXCEPT ![q] = r]
        OBVIOUS
    <2>2. q \in Objects => SameButRefs(r, f[q]) /\ DOMAIN r = DOMAIN f[q]
        BY <1>1 DEF SameButRefs
    <2> HIDE DEF r
    <2>3. \A p \in Objects : [f EXCEPT ![q] = r][p] = IF p = q THEN r ELSE f[p]
        BY <1>1
    <2>4. DOMAIN [f EXCEPT ![q] = r] = Objects
        BY <1>1
    <2>5. \A p \in Objects : SameButRefs(f[p], f[p])
        BY DEF SameButRefs
    <2> HIDE DEF Fields, Less
    <2>6. IsTable(Less(f, q))
        BY <1>1, <2>1, <2>2, <2>3, <2>4
    <2> QED BY <2>1, <2>2, <2>3, <2>5, <2>6
<1>2. IsTable(objects)
    BY DEF Object
<1> DEFINE dropped == Less(objects, o)
           q == dropped[o].parent
<1>3. IsTable(dropped) /\ \A p \in Objects : SameButRefs(dropped[p], objects[p])
    BY <1>1, <1>2
<1>4. /\ ~IsLastOfSequence(objects, o) => object' = dropped
      /\ IsLastOfSequence(objects, o) => object' = sequence_free(dropped, o)
    BY DEF Drop, DecRef
<1> HIDE DEF dropped, q, Less
<1> HIDE DEF IsTable
<1>5. \A p \in Objects : \/ /\ SameButRefs(object'[p], NotThere)
                            /\ objects[p].kind # "container"
                         \/ SameButRefs(object'[p], objects[p])
    <2>1. CASE ~IsLastOfSequence(objects, o)
        BY <1>3, <1>4, <2>1
    <2>2. CASE IsLastOfSequence(objects, o)
        <3>1. q \in Objects \ {o}
            BY <1>3, <2>2 DEF IsLastOfSequence, SameButRefs, q
        <3>2. object' = [p \in Objects |->
                            IF p = q THEN [dropped[q] EXCEPT !.refs = @ - 1]
                            ELSE IF p = o THEN NotThere ELSE dropped[p]]
            BY <1>3, <1>4, <2>2, <3>1 DEF sequence_free, q, IsTable
        <3>3. SameButRefs([dropped[q] EXCEPT !.refs = @ - 1], dropped[q])
            BY <1>3, <3>1 DEF SameButRefs, IsTable
        <3>4. SameButRefs(NotThere, NotThere)
            BY DEF SameButRefs
        <3>5. object'[q] = [dropped[q] EXCEPT !.refs = @ - 1]
            BY <3>1, <3>2
        <3>6. \A p \in Objects \ {q} : object'[p] = IF p = o THEN NotThere ELSE dropped[p]
            BY <3>2
        <3>7. SameButRefs(object'[q], objects[q])
            BY <1>3, <3>1, <3>3, <3>5 DEF SameButRefs
        <3>8. objects[o].kind # "container"
            BY <2>2 DEF IsLastOfSequence, SequenceKinds
        <3> QED BY <1>3, <3>4, <3>6, <3>7, <3>8
    <2> QED BY <2>1, <2>2
<1> DEFINE last == IF IsLastOfSequence(objects, o) THEN objects[o].parent ELSE o
           c == IF object'[last].refs = 0 THEN container_free(object', last) ELSE Idle
<1>6. call' = [call EXCEPT ![t] = c]
    BY DEF Drop
<1>7. c.gives = "none" /\ c.item = -1 /\ c.at \in {"idle", "close", "free"}
    <2>1. Idle \in CallRecord /\ Idle.gives = "none" /\ Idle.item = -1 /\ Idle.at = "idle"
        BY DEF Idle, CallRecord, Phases, AllGives, Refs
    <2>2. ASSUME NEW at, NEW l
          PROVE  /\ Dealloc(l, at).gives = "none" /\ Dealloc(l, at).item = -1
                 /\ Dealloc(l, at).at = at
        BY <2>1 DEF Dealloc, CallRecord
    <2> QED BY <2>1, <2>2 DEF container_free
<1> HIDE DEF c
<1>8. \A p \in Objects : objects[p].kind = "container" => object'[p].kind = "container"
    BY <1>5 DEF SameButRefs
<1> QED BY <1>5, <1>6, <1>7, <1>8

\* The same, for objects whose counts are right.
LEMMA EndEffect ==
    ASSUME NEW objects, NEW apps, NEW handles, NEW extra, NEW calls,
           Good(objects, apps, handles, calls, extra), call \in [Threads -> CallRecord],
           NEW o \in Objects, objects[o].kind # "none", NEW t \in Threads,
           Drop(t, objects, o)
    PROVE  /\ \A p \in Objects : \/ SameButRefs(object'[p], NotThere)
                                 \/ SameButRefs(object'[p], objects[p])
           /\ \A p \in Objects : object'[p].kind \in {objects[p].kind, "none"}
           /\ \A p \in Objects : (object'[p].kind = "container") =
                                  (objects[p].kind = "container")
           /\ \A u \in Threads \ {t} : call'[u] = call[u]
           /\ call'[t].gives = "none" /\ call'[t].item = -1
           /\ call'[t].at \in {"idle", "close", "free"}
<1>1. objects \in [Objects -> Object] /\ ParentIsThere(objects, o)
    BY DEF Good, Typed, GoodObject
<1>2. objects[o].kind \in SequenceKinds => objects[o].parent \in Objects \ {o}
    <2> HAVE objects[o].kind \in SequenceKinds
    <2>1. objects[o].kind \in Kinds \ {"container"}
        BY DEF Kinds, SequenceKinds
    <2> QED BY <1>1, <2>1, ParentsAreNoSequences
<1>3. /\ \A p \in Objects : \/ SameButRefs(object'[p], NotThere)
                            \/ SameButRefs(object'[p], objects[p])
      /\ \A p \in Objects : objects[p].kind = "container" => object'[p].kind = "container"
      /\ \A u \in Threads \ {t} : call'[u] = call[u]
      /\ call'[t].gives = "none" /\ call'[t].item = -1
      /\ call'[t].at \in {"idle", "close", "free"}
    BY <1>1, <1>2, DropEffect
<1>4. \A p \in Objects : object'[p].kind \in {objects[p].kind, "none"}
    BY <1>3 DEF SameButRefs, NotThere
<1>5. \A p \in Objects : (object'[p].kind = "container") = (objects[p].kind = "container")
    BY <1>3, <1>4
<1> QED BY <1>3, <1>4, <1>5

-----------------------------------------------------------------------------
\* A step that makes no object and starts nothing exclusive.
LEMMA StepKeepsOpen ==
    ASSUME RefInv, OpenInv, RefInv', NEW t \in Threads,
           \A p \in Objects : object'[p].kind \in {object[p].kind, "none"},
           \A u \in Threads \ {t} : call'[u] = call[u],
           IsExclusive(call'[t]) => IsExclusive(call[t]),
           \/ call'[t].gives = "none"
           \/ call[t] # Idle
           \/ \A u \in Threads : ~IsExclusive(call[u]),
           NewIsNotHeld', ClosedIsEmpty', MadeWhileOpen', ReadsHaveHandle'
    PROVE  OpenInv'
<1>1. AtMostOneContainer(object')
    BY DEF OpenInv, AtMostOneContainer
<1>2. AllAreContainers(object) => AllAreContainers(object')
    BY DEF AllAreContainers
<1>3. ASSUME NEW u \in Threads, IsExclusive(call'[u])
      PROVE  AllAreContainers(object') /\ \A v \in Threads \ {u} : call'[v] = Idle
    <2>1. IsExclusive(call[u])
        BY <1>3
    <2>2. AllAreContainers(object) /\ \A v \in Threads \ {u} : call[v] = Idle
        BY <2>1 DEF OpenInv, ExclusiveIsAlone
    <2>3. \A v \in Threads \ {u, t} : call'[v] = Idle
        BY <2>2
    <2>4. ASSUME u # t PROVE call'[t] = Idle
        <3>1. call[t] = Idle /\ call'[t].gives = "none"
            BY <2>1, <2>2, <2>4
        <3>2. GoodCall(object', call'[t])
            BY DEF RefInv, Good
        <3>3. SUFFICES ASSUME call'[t] # Idle PROVE FALSE
            OBVIOUS
        <3>4. DeallocCall(object', call'[t])
            BY <3>1, <3>2, <3>3 DEF GoodCall, MethodCall
        <3>5. object'[call'[t].self].kind = "container"
            BY <1>2, <2>2, <3>4 DEF DeallocCall, AllAreContainers
        <3>6. call'[u] = Idle
            BY <1>1, <2>4, <3>4, <3>5, LonelyContainer DEF RefInv
        <3> QED BY <1>3, <3>6 DEF IsExclusive, Idle
    <2> QED BY <1>2, <2>2, <2>3, <2>4
<1>4. ExclusiveIsAlone'
    BY <1>3 DEF ExclusiveIsAlone
<1> QED BY <1>1, <1>4 DEF OpenInv

\* What it takes for the rest when nothing is opened or closed.
LEMMA SameOpen ==
    ASSUME RefInv, OpenInv, NEW t \in Threads,
           \A p \in Objects : object'[p].kind \in {object[p].kind, "none"},
           \A u \in Threads \ {t} : call'[u] = call[u],
           call'[t].gives = "container" =>
               call[t].gives = "container" /\ call'[t].self = call[t].self,
           \A o \in Objects : app[o] = 0 => app'[o] = 0,
           UNCHANGED <<opened, ioHandle>>,
           call'[t].at = "return" => ~call'[t].ok \/ ~MakesObject(call'[t].gives),
           call'[t].at \in {"read", "reading"} => ReadsFileObject
    PROVE  NewIsNotHeld' /\ ClosedIsEmpty' /\ MadeWhileOpen' /\ ReadsHaveHandle'
<1>1. NewIsNotHeld'
    <2> SUFFICES ASSUME NEW u \in Threads, call'[u].gives = "container"
                 PROVE  app'[call'[u].self] = 0
        BY DEF NewIsNotHeld
    <2>1. call[u].gives = "container" /\ call'[u].self = call[u].self
        OBVIOUS
    <2>2. GoodCall(object, call[u])
        BY DEF RefInv, Good
    <2>3. call[u].self \in Objects
        BY <2>1, <2>2 DEF GoodCall, MethodCall, DeallocCall, Idle
    <2> QED BY <2>1, <2>3 DEF OpenInv, NewIsNotHeld
<1>2. ClosedIsEmpty'
    BY DEF OpenInv, ClosedIsEmpty, AllAreContainers
<1>3. MadeWhileOpen'
    BY DEF OpenInv, MadeWhileOpen
<1>4. ReadsHaveHandle'
    BY DEF OpenInv, ReadsHaveHandle, ReadsFileObject
<1> QED BY <1>1, <1>2, <1>3, <1>4

\* A step by which a call ends or a deallocation goes on, and nothing is opened.
LEMMA EndKeepsOpen ==
    ASSUME RefInv, OpenInv, RefInv', NEW t \in Threads,
           \A p \in Objects : object'[p].kind \in {object[p].kind, "none"},
           \A u \in Threads \ {t} : call'[u] = call[u],
           call'[t].gives = "none", call'[t].at \in {"idle", "close", "free", "freed"},
           \A o \in Objects : app[o] = 0 => app'[o] = 0,
           UNCHANGED <<opened, ioHandle>>
    PROVE  OpenInv'
<1>1. ~IsExclusive(call'[t]) /\ ~MakesObject(call'[t].gives)
    BY DEF IsExclusive, MakesObject, Kinds, SequenceKinds
<1>2. NewIsNotHeld' /\ ClosedIsEmpty' /\ MadeWhileOpen' /\ ReadsHaveHandle'
    BY <1>1, SameOpen
<1> QED BY <1>1, <1>2, StepKeepsOpen

\* A call that runs beside others begins.
LEMMA SharedKeepsOpen ==
    ASSUME RefInv, OpenInv, RefInv', NEW t \in Threads, NEW o \in Objects,
           NEW target, NEW m, NEW item, SharedMethod(m),
           \A u \in Threads : ~IsExclusive(call[u]),
           object' = IncRef(object, o),
           call' = [call EXCEPT ![t] = Start(o, target, m, item)],
           UNCHANGED <<app, opened, ioHandle>>
    PROVE  OpenInv'
<1>0. object \in [Objects -> Object] /\ call \in [Threads -> CallRecord]
    BY DEF RefInv, Good, Typed
<1>1. \A p \in Objects : object'[p].kind = object[p].kind
    <2>1. OnlyRefs(object', object, o, object[o].refs + 1)
        BY <1>0, IncRefEffect
    <2> QED BY <2>1 DEF OnlyRefs
<1>2. /\ \A u \in Threads \ {t} : call'[u] = call[u]
      /\ call'[t].at = "enter" /\ call'[t].gives = m.gives
    BY <1>0 DEF Start
<1>3. m.gives \notin {"container", "opened", "closed"}
    BY DEF SharedMethod, Kinds, SequenceKinds
<1>4. NewIsNotHeld' /\ ClosedIsEmpty' /\ MadeWhileOpen' /\ ReadsHaveHandle'
    BY <1>1, <1>2, <1>3, SameOpen
<1> QED BY <1>1, <1>2, <1>3, <1>4, StepKeepsOpen DEF IsExclusive

\* Before a container is made there is nothing.
LEMMA NothingWithoutContainer ==
    ASSUME RefInv, \A o \in Objects : object[o].kind # "container"
    PROVE  /\ \A o \in Objects : object[o].kind = "none"
           /\ \A t \in Threads : call[t] = Idle
<1>1. \A o \in Objects : object[o].kind = "none"
    BY RootIsContainer DEF RefInv
<1>2. \A t \in Threads : call[t] = Idle
    BY <1>1, BusyThreads DEF RefInv
<1> QED BY <1>1, <1>2

LEMMA OpenInvInit ==
    ASSUME Init
    PROVE  OpenInv
<1>1. \A t \in Threads : call[t] = Idle
    BY DEF Init
<1>2. \A o \in Objects : object[o].kind = "none"
    BY DEF Init, NotThere
<1>3. Idle.at = "idle" /\ Idle.gives = "none"
    BY DEF Idle
<1>4. AtMostOneContainer(object) /\ AllAreContainers(object)
    BY <1>2 DEF AtMostOneContainer, AllAreContainers
<1>5. NewIsNotHeld /\ ExclusiveIsAlone /\ ClosedIsEmpty
    BY <1>1, <1>3, <1>4 DEF NewIsNotHeld, ExclusiveIsAlone, ClosedIsEmpty, IsExclusive
<1>6. MadeWhileOpen /\ ReadsHaveHandle
    BY <1>1, <1>3 DEF MadeWhileOpen, ReadsHaveHandle
<1> QED BY <1>4, <1>5, <1>6 DEF OpenInv

LEMMA ApplicationKeepsOpen ==
    ASSUME RefInv, OpenInv, RefInv', NEW t \in Threads, Application(t)
    PROVE  OpenInv'
<1>0. /\ Typed(object, app, handle, call) /\ NoObject \notin Objects
      /\ Idle.at = "idle" /\ Idle.gives = "none" /\ Idle.item = -1
    BY NamesAssumption DEF RefInv, Good, Idle
<1>1. CASE container_init(t) \/ open_new_container_with_file_object(t)
    <2> DEFINE n == NewObject
    <2>1. /\ \A o \in Objects : object[o].kind = "none"
          /\ \A u \in Threads : call[u] = Idle
        BY <1>1, NothingWithoutContainer
            DEF container_init, open_new_container_with_file_object
    <2>2. n \in Objects /\ app[n] = 0
        BY <1>1, NewObjectIsFree DEF container_init, open_new_container_with_file_object,
            RefInv, Good, GoneObject
    <2>3. \A p \in Objects : object'[p].kind # "none" =>
                                p = n /\ object'[p].kind = "container"
        <3>1. object' = [object EXCEPT ![n] =
                            [NotThere EXCEPT !.kind = "container", !.refs = 1]]
            BY <1>1 DEF container_init, open_new_container_with_file_object
        <3>2. [NotThere EXCEPT !.kind = "container", !.refs = 1].kind = "container"
            BY DEF NotThere
        <3> QED BY <1>0, <2>1, <2>2, <3>1, <3>2 DEF Typed
    <2>4. AtMostOneContainer(object') /\ AllAreContainers(object')
        BY <2>3 DEF AtMostOneContainer, AllAreContainers
    <2>5. \A u \in Threads \ {t} : call'[u] = Idle
        BY <1>0, <1>1, <2>1
            DEF container_init, open_new_container_with_file_object, Typed
    <2>6. \/ call'[t] = Idle
          \/ call'[t].at = "enter" /\ call'[t].self = n /\ app'[n] = 0
        BY <1>0, <1>1, <2>1, <2>2
            DEF container_init, open_new_container_with_file_object, Typed, Start
    <2>7. NewIsNotHeld' /\ ExclusiveIsAlone' /\ ClosedIsEmpty'
        BY <1>0, <2>4, <2>5, <2>6
            DEF NewIsNotHeld, ExclusiveIsAlone, ClosedIsEmpty, IsExclusive
    <2>8. MadeWhileOpen' /\ ReadsHaveHandle'
        BY <1>0, <2>5, <2>6 DEF MadeWhileOpen, ReadsHaveHandle
    <2> QED BY <2>4, <2>7, <2>8 DEF OpenInv
<1>2. ASSUME NEW o \in Objects, NEW m \in HandleMethods \cup {container_signal_abort},
             CallMethod(t, o, m)
      PROVE  OpenInv'
    <2>1. SharedMethod(m)
        BY MethodFacts
    <2>2. \A u \in Threads : ~IsExclusive(call[u])
        <3> SUFFICES ASSUME NEW u \in Threads, IsExclusive(call[u]) PROVE FALSE
            OBVIOUS
        <3>1. u \in CallsOn(o) /\ call[u].gives \in {"opened", "closed"}
            BY <1>2, ExclusiveKeepsOthersOut DEF CallMethod, CanCall
        <3> QED BY <1>2, <3>1 DEF CallMethod, IsExclusivelyUsed
    <2> DEFINE item == -1
    <2>3. /\ object' = IncRef(object, o) /\ UNCHANGED <<app, opened, ioHandle>>
          /\ call' = [call EXCEPT ![t] = Start(o, o, m, item)]
        BY <1>2 DEF CallMethod
    <2> HIDE DEF item
    <2> QED BY <2>1, <2>2, <2>3, SharedKeepsOpen
<1>3. ASSUME NEW o \in Objects,
             NEW m \in {container_open, container_open_file_object, container_close},
             CallExclusive(t, o, m)
      PROVE  OpenInv'
    <2>1. object[o].kind = "container" /\ m.gives \in {"opened", "closed"}
        BY <1>3, ExclusiveFacts DEF CallExclusive
    <2>2. AllAreContainers(object)
        BY <1>3, <2>1 DEF CallExclusive, AllAreContainers, OpenInv, ClosedIsEmpty
    <2>3. \A u \in Threads : call[u] = Idle
        <3> SUFFICES ASSUME NEW u \in Threads, call[u] # Idle PROVE FALSE
            OBVIOUS
        <3>1. /\ call[u].self \in Objects /\ object[call[u].self].kind # "none"
              /\ call[u].at # "idle"
            BY BusyThreads DEF RefInv
        <3>2. call[u].self = o
            BY <2>1, <2>2, <3>1 DEF AllAreContainers, OpenInv, AtMostOneContainer
        <3> QED BY <1>3, <3>1, <3>2 DEF CallExclusive, IsBusy, CallsOn
    <2>4. \A p \in Objects : object'[p].kind = object[p].kind
        <3>1. OnlyRefs(object', object, o, object[o].refs + 1)
            BY <1>0, <1>3, IncRefEffect DEF CallExclusive, Typed
        <3> QED BY <3>1 DEF OnlyRefs
    <2>5. /\ \A u \in Threads \ {t} : call'[u] = Idle
          /\ call'[t].at = "enter" /\ call'[t].gives = m.gives
        BY <1>0, <1>3, <2>3 DEF CallExclusive, Typed, Start
    <2>6. AtMostOneContainer(object') /\ AllAreContainers(object')
        BY <2>2, <2>4 DEF OpenInv, AtMostOneContainer, AllAreContainers
    <2>7. NewIsNotHeld' /\ ExclusiveIsAlone' /\ ClosedIsEmpty'
        BY <1>0, <2>1, <2>5, <2>6
            DEF NewIsNotHeld, ExclusiveIsAlone, ClosedIsEmpty, IsExclusive
    <2>8. MadeWhileOpen' /\ ReadsHaveHandle'
        BY <1>0, <2>5 DEF MadeWhileOpen, ReadsHaveHandle
    <2> QED BY <2>6, <2>7, <2>8 DEF OpenInv
<1>4. ASSUME NEW o \in Objects, sequence_iter(t, o)
      PROVE  OpenInv'
    <2>1. \A p \in Objects : object'[p].kind = object[p].kind
        <3>1. OnlyRefs(object', object, o, object[o].refs + 1)
            BY <1>0, <1>4, IncRefEffect DEF sequence_iter, Typed
        <3> QED BY <3>1 DEF OnlyRefs
    <2>2. /\ call' = call /\ UNCHANGED <<opened, ioHandle>> /\ call[t] = Idle
          /\ \A p \in Objects : app[p] = 0 => app'[p] = 0
        BY <1>0, <1>4, IdleThreads DEF sequence_iter, CanCall, Typed
    <2> QED BY <1>0, <2>1, <2>2, EndKeepsOpen
<1>5. ASSUME NEW o \in Objects, NEW i, NEW moves, CallItem(t, o, i, moves)
      PROVE  OpenInv'
    <2>1. SharedMethod(ItemMethod(o))
        BY <1>5, ItemFacts DEF CallItem
    <2>2. \A u \in Threads : ~IsExclusive(call[u])
        <3> SUFFICES ASSUME NEW u \in Threads, IsExclusive(call[u]) PROVE FALSE
            OBVIOUS
        <3>1. object[o].kind = "container"
            BY <1>5, ExclusiveKeepsOthersOut DEF CallItem, CanCall
        <3> QED BY <1>5, <3>1 DEF CallItem, SequenceKinds
    <2> DEFINE item == IF moves THEN i ELSE -1
               m == ItemMethod(o)
               q == object[o].parent
    <2>3. /\ object' = IncRef(object, o) /\ UNCHANGED <<app, opened, ioHandle>>
          /\ call' = [call EXCEPT ![t] = Start(o, q, m, item)]
        BY <1>5 DEF CallItem
    <2> HIDE DEF item, q
    <2> QED BY <2>1, <2>2, <2>3, SharedKeepsOpen
<1>6. ASSUME NEW o \in Objects, sequence_getitem(t, o) \/ sequence_iternext(t, o)
      PROVE  OpenInv'
    BY <1>5, <1>6 DEF sequence_getitem, sequence_iternext
<1>7. ASSUME NEW o \in Objects, ReleaseReference(t, o)
      PROVE  OpenInv'
    <2>1. /\ Drop(t, object, o) /\ object[o].kind # "none" /\ app[o] > 0
          /\ app' = [app EXCEPT ![o] = @ - 1] /\ UNCHANGED <<opened, ioHandle>>
        BY <1>7, HeldObjects DEF ReleaseReference, CanCall
    <2>2. call \in [Threads -> CallRecord] /\ \A p \in Objects : app[p] = 0 => app'[p] = 0
        BY <1>0, <2>1 DEF Typed
    <2>3. /\ \A p \in Objects : object'[p].kind \in {object[p].kind, "none"}
          /\ \A u \in Threads \ {t} : call'[u] = call[u]
          /\ call'[t].gives = "none" /\ call'[t].at \in {"idle", "close", "free"}
        BY <2>1, <2>2, EndEffect DEF RefInv
    <2> QED BY <2>1, <2>2, <2>3, EndKeepsOpen
<1>8. ASSUME NEW o \in Objects, container_open_file_object_refused(t, o)
      PROVE  OpenInv'
    <2>1. /\ object[o].kind = "container" /\ ~IsBusy(o)
          /\ opened' = (IF opened = "no" THEN "no" ELSE "dangling")
          /\ UNCHANGED <<object, app, call>>
        BY <1>8 DEF container_open_file_object_refused, container_open_file_object,
            Getter, Method
    <2>2. /\ AtMostOneContainer(object') /\ NewIsNotHeld' /\ ExclusiveIsAlone'
          /\ ClosedIsEmpty' /\ MadeWhileOpen'
        BY <2>1 DEF OpenInv, NewIsNotHeld, ExclusiveIsAlone, ClosedIsEmpty, MadeWhileOpen
    <2>3. ASSUME NEW u \in Threads, call[u].at \in {"read", "reading"}
          PROVE  opened # "no"
        <3> SUFFICES ASSUME opened = "no" PROVE FALSE
            OBVIOUS
        <3>1. call[u].self \in Objects /\ object[call[u].self].kind # "none"
              /\ call[u].at # "idle"
            BY <1>0, <2>3, BusyThreads DEF RefInv
        <3>2. call[u].self = o
            BY <2>1, <3>1 DEF OpenInv, ClosedIsEmpty, AllAreContainers, AtMostOneContainer
        <3> QED BY <2>1, <3>1, <3>2 DEF IsBusy, CallsOn
    <2>4. ReadsHaveHandle'
        BY <2>1, <2>3 DEF ReadsHaveHandle, ReadsFileObject
    <2> QED BY <2>2, <2>4 DEF OpenInv
<1> QED BY <1>1, <1>2, <1>3, <1>4, <1>6, <1>7, <1>8 DEF Application

\* Where a call that went on is afterwards.
LEMMA GoesOnTo ==
    ASSUME RefInv, NEW t \in Threads, GoesOn(t)
    PROVE  /\ call'[t].at = "return" /\ call'[t].ok /\ MakesObject(call'[t].gives) =>
                 LeaveLibrary(t, TRUE)
           /\ call'[t].at \in {"read", "reading"} =>
                 ReadsFileObject \/ call[t].at \in {"read", "reading"}
           /\ call[t] # Idle /\ GoodCall(object, call[t])
<1>0. /\ call \in [Threads -> CallRecord] /\ call[t] \in CallRecord
      /\ GoodCall(object, call[t]) /\ Idle.at = "idle"
    BY DEF RefInv, Good, Typed, Idle
<1>1. PICK c \in CallRecord : /\ call' = [call EXCEPT ![t] = c]
                              /\ c.gives = call[t].gives /\ call[t].at # "idle"
    BY GoesOnEffect
<1>2. call'[t] = c /\ call[t] # Idle
    BY <1>0, <1>1
<1>3. CASE \/ EnterLibrary(t) \/ DeallocCloses(t)
           \/ file_object_io_handle_read(t) \/ file_object_read_buffer(t)
    <2>1. EnterLibrary(t) => call'[t].at = "library"
        BY <1>0 DEF EnterLibrary, CallRecord
    <2>2. DeallocCloses(t) => call'[t].at = "freeio"
        BY <1>0 DEF DeallocCloses, CallRecord
    <2>3. file_object_io_handle_read(t) => call'[t].at = "reading" /\ call[t].at = "read"
        BY <1>0 DEF file_object_io_handle_read, CallRecord
    <2>4. file_object_read_buffer(t) => call'[t].at = "library"
        BY <1>0 DEF file_object_read_buffer, CallRecord
    <2> QED BY <1>0, <1>2, <1>3, <2>1, <2>2, <2>3, <2>4
<1>4. CASE SignalAbort(t)
    <2>1. call'[t].gives = "abort" /\ call'[t].at = "return"
        BY <1>0, <1>1, <1>2, <1>4 DEF SignalAbort, CallRecord
    <2> QED BY <1>0, <1>2, <2>1 DEF MakesObject, Kinds, SequenceKinds
<1>5. CASE file_object_io_handle_seek_offset(t)
    <2>1. call'[t].at = "read" /\ ReadsFileObject
        BY <1>0, <1>5 DEF file_object_io_handle_seek_offset, CallRecord
    <2> QED BY <1>0, <1>2, <2>1
<1>6. CASE ReturnForSecondCall(t)
    <2>1. call'[t].at = "enter"
        BY <1>0, <1>6 DEF ReturnForSecondCall, CallRecord
    <2> QED BY <1>0, <1>2, <2>1
<1>7. CASE file_object_io_handle_free(t)
    <2>1. /\ call[t].at = "freeio"
          /\ call'[t].at = IF call[t].gives = "none" THEN "free" ELSE "return"
        BY <1>0, <1>7 DEF file_object_io_handle_free, CallRecord
    <2>2. call[t].gives \in {"none", "closed"}
        BY <1>0, <2>1 DEF GoodCall, MethodCall, DeallocCall
    <2> QED BY <1>0, <1>1, <1>2, <2>1, <2>2 DEF MakesObject, Kinds, SequenceKinds
<1>8. CASE container_close_returns(t) /\ call[t].ok /\ ioHandle
    <2>1. call'[t].at = "freeio"
        BY <1>0, <1>8 DEF container_close_returns, CallRecord
    <2> QED BY <1>0, <1>2, <2>1
<1>9. ASSUME NEW ok \in BOOLEAN, LeaveLibrary(t, ok)
      PROVE  /\ call'[t].at = "return"
             /\ call'[t].ok => LeaveLibrary(t, TRUE)
    <2>1. call'[t].at = "return" /\ call'[t].ok = ok
        <3> DEFINE b == [call[t] EXCEPT !.at = "return", !.ok = ok]
        <3>1. b \in CallRecord /\ b.at = "return" /\ b.ok = ok
            BY <1>0 DEF CallRecord, Phases
        <3>2. call'[t] = [b EXCEPT !.reads = 0]
            BY <1>0, <1>9 DEF LeaveLibrary
        <3> HIDE DEF b
        <3> QED BY <3>1, <3>2 DEF CallRecord
    <2>2. ok => ok = TRUE
        OBVIOUS
    <2> QED BY <1>9, <2>1, <2>2
<1> QED BY <1>0, <1>2, <1>3, <1>4, <1>5, <1>6, <1>7, <1>8, <1>9 DEF GoesOn

\* What the end of an open does to objects and calls.
LEMMA OpenReturnsEffect ==
    ASSUME RefInv, NEW t \in Threads, container_open_returns(t)
    PROVE  /\ \A u \in Threads \ {t} : call'[u] = call[u]
           /\ call'[t].gives = "none" /\ call'[t].at \in {"idle", "close", "free"}
           /\ \A p \in Objects : object'[p].kind = object[p].kind
<1> DEFINE o == call[t].self
<1>0. /\ Typed(object, app, handle, call) /\ Idle \in CallRecord
      /\ Idle.at = "idle" /\ Idle.gives = "none"
    BY DEF RefInv, Good, Idle, CallRecord, Phases, AllGives, Refs
<1>1. call[t].gives \in {"opened", "container"}
    BY DEF container_open_returns, Opens
<1>2. o \in Objects /\ object[o].kind = "container"
    <2>1. MethodCall(object, call[t])
        BY <1>1, TargetIsKept
    <2> QED BY <1>1, <2>1 DEF MethodCall
<1>3. /\ \A u \in Threads \ {t} : call'[u] = call[u]
      /\ call'[t].gives = "none" /\ call'[t].at \in {"idle", "close", "free"}
    <2>1. ASSUME NEW at PROVE Dealloc(o, at).gives = "none" /\ Dealloc(o, at).at = at
        BY <1>0 DEF Dealloc, CallRecord
    <2> QED BY <1>0, <2>1 DEF container_open_returns, Typed
<1>4. \A p \in Objects : object'[p].kind = object[p].kind
    <2>1. CASE call[t].gives = "container" /\ call[t].ok
        BY <2>1 DEF container_open_returns
    <2>2. CASE ~(call[t].gives = "container" /\ call[t].ok)
        <3>1. ~IsLastOfSequence(object, o)
            BY <1>2 DEF IsLastOfSequence, SequenceKinds
        <3>2. object' = DecRef(object, o)
            BY <2>2 DEF container_open_returns
        <3>3. object' = [object EXCEPT ![o].refs = @ - 1]
            BY <3>1, <3>2 DEF DecRef
        <3>4. object[o].refs >= 1
            <4>1. t \in Calling(call, o)
                BY <1>1 DEF Calling
            <4> QED BY <1>2, <4>1, KeptObjects DEF RefInv
        <3>5. OnlyRefs(object', object, o, object[o].refs - 1)
            BY <1>0, <1>2, <3>3, <3>4, LessRefEffect DEF Typed
        <3> QED BY <3>5 DEF OnlyRefs
    <2> QED BY <2>1, <2>2
<1> QED BY <1>3, <1>4

LEMMA ThreadKeepsOpen ==
    ASSUME RefInv, OpenInv, RefInv', NEW t \in Threads, Waits(t) \/ Works(t)
    PROVE  OpenInv'
<1>0. /\ Typed(object, app, handle, call) /\ NoObject \notin Objects
      /\ GoodCall(object, call[t])
      /\ Idle.at = "idle" /\ Idle.gives = "none" /\ Idle.item = -1
    BY NamesAssumption DEF RefInv, Good, Idle
<1>1. CASE GoesOn(t)
    <2>1. PICK c \in CallRecord :
             /\ call' = [call EXCEPT ![t] = c]
             /\ c.self = call[t].self /\ c.target = call[t].target
             /\ c.gives = call[t].gives /\ UNCHANGED <<object, app, handle>>
        BY <1>1, GoesOnEffect
    <2>2. /\ \A u \in Threads \ {t} : call'[u] = call[u]
          /\ call'[t].gives = call[t].gives /\ call'[t].self = call[t].self
          /\ \A p \in Objects : object'[p].kind = object[p].kind
          /\ IsExclusive(call'[t]) => IsExclusive(call[t])
        BY <1>0, <2>1 DEF Typed, IsExclusive
    <2>3. /\ call'[t].at = "return" /\ call'[t].ok /\ MakesObject(call'[t].gives) =>
                 LeaveLibrary(t, TRUE)
          /\ call'[t].at \in {"read", "reading"} => ReadsFileObject
          /\ call[t] # Idle
        BY <1>1, GoesOnTo DEF OpenInv, ReadsHaveHandle
    <2>4. ASSUME DeallocCall(object, call[t]), object[call[t].self].kind = "container"
          PROVE  AllAreContainers(object) /\ \A u \in Threads \ {t} : call[u] = Idle
        BY <2>4, LonelyContainer DEF RefInv, OpenInv
    <2>5. NewIsNotHeld'
        BY <2>1, <2>2 DEF OpenInv, NewIsNotHeld
    <2>6. ClosedIsEmpty' /\ MadeWhileOpen' /\ ReadsHaveHandle'
        <3>1. CASE \E ok \in BOOLEAN : LeaveLibrary(t, ok)
            <4>1. PICK ok \in BOOLEAN : LeaveLibrary(t, ok)
                BY <3>1
            <4>2. /\ call[t].at = "library" /\ ioHandle' = ioHandle
                  /\ opened' \in {opened, "object", "file", "no"}
                  /\ opened' = opened \/ IsExclusive(call[t])
                  /\ opened' = "no" => opened = "no" \/ call[t].gives = "closed"
                BY <4>1 DEF LeaveLibrary, IsExclusive, Opens
            <4>3. opened' = "no" => AllAreContainers(object)
                BY <4>2 DEF OpenInv, ClosedIsEmpty, ExclusiveIsAlone, IsExclusive
            <4>4. ClosedIsEmpty'
                BY <2>1, <4>3 DEF ClosedIsEmpty
            <4>5. ReadsHaveHandle'
                <5>1. CASE opened' = opened
                    BY <2>2, <2>3, <4>2, <5>1 DEF OpenInv, ReadsHaveHandle, ReadsFileObject
                <5>2. CASE IsExclusive(call[t])
                    <6>1. \A u \in Threads \ {t} : call'[u] = Idle
                        BY <2>2, <5>2 DEF OpenInv, ExclusiveIsAlone
                    <6>2. call'[t].at = "return"
                        <7>1. call[t] \in CallRecord /\ call \in [Threads -> CallRecord]
                            BY <1>0 DEF Typed
                        <7> QED BY <4>1, <7>1 DEF LeaveLibrary, CallRecord
                    <6> QED BY <1>0, <6>1, <6>2 DEF ReadsHaveHandle
                <5> QED BY <4>2, <5>1, <5>2
            <4>6. ASSUME NEW u \in Threads, call'[u].at = "return", call'[u].ok,
                         MakesObject(call'[u].gives)
                  PROVE  opened' # "no"
                <5>1. CASE u # t
                    <6>1. call'[u] = call[u] /\ call[u] # Idle
                        BY <1>0, <2>2, <4>6, <5>1
                    <6>2. call[t].gives # "closed"
                        BY <5>1, <6>1 DEF OpenInv, ExclusiveIsAlone, IsExclusive
                    <6> QED BY <4>2, <4>6, <6>1, <6>2 DEF OpenInv, MadeWhileOpen
                <5>2. CASE u = t
                    <6>1. LeaveLibrary(t, TRUE) /\ MakesObject(call[t].gives)
                        BY <2>2, <2>3, <4>6, <5>2
                    <6>2. ~Opens(call[t].gives) /\ call[t].gives # "closed"
                          /\ call[t].gives # "none"
                        BY <6>1 DEF MakesObject, Opens, Kinds, SequenceKinds
                    <6>3. opened' = opened
                          /\ (object[call[t].target].kind = "container" => opened # "no")
                        BY <6>1, <6>2 DEF LeaveLibrary
                    <6>4. MethodCall(object, call[t])
                        BY <6>2, TargetIsKept
                    <6>5. /\ call[t].target \in Objects
                          /\ object[call[t].target].kind # "none"
                        BY <6>4 DEF MethodCall
                    <6> QED BY <6>3, <6>5 DEF OpenInv, ClosedIsEmpty, AllAreContainers
                <5> QED BY <5>1, <5>2
            <4> QED BY <4>4, <4>5, <4>6 DEF MadeWhileOpen
        <3>2. CASE DeallocCloses(t)
            <4>1. call[t].at = "close" /\ ioHandle' = ioHandle
                BY <3>2 DEF DeallocCloses
            <4>2. DeallocCall(object, call[t]) /\ object[call[t].self].kind = "container"
                BY <1>0, <4>1 DEF GoodCall, MethodCall, DeallocCall
            <4>3. call'[t].at = "freeio"
                BY <1>0, <3>2 DEF DeallocCloses, Typed, CallRecord
            <4>4. AllAreContainers(object) /\ \A u \in Threads \ {t} : call'[u] = Idle
                BY <2>2, <2>4, <4>2
            <4> QED BY <1>0, <2>1, <4>3, <4>4
                    DEF ClosedIsEmpty, MadeWhileOpen, ReadsHaveHandle
        <3>3. CASE file_object_io_handle_free(t)
            <4>1. call[t].at = "freeio" /\ opened' = opened
                BY <3>3 DEF file_object_io_handle_free
            <4>2. \A u \in Threads \ {t} : call'[u] = Idle
                <5>1. CASE call[t].gives = "none"
                    <6>1. DeallocCall(object, call[t])
                          /\ object[call[t].self].kind = "container"
                        BY <1>0, <4>1, <5>1 DEF GoodCall, MethodCall, DeallocCall
                    <6> QED BY <2>2, <2>4, <6>1
                <5>2. CASE call[t].gives # "none"
                    <6>1. IsExclusive(call[t])
                        BY <1>0, <4>1, <5>2
                            DEF GoodCall, MethodCall, DeallocCall, IsExclusive
                    <6> QED BY <2>2, <6>1 DEF OpenInv, ExclusiveIsAlone
                <5> QED BY <5>1, <5>2
            <4>3. call'[t].at \in {"free", "return"}
                BY <1>0, <3>3 DEF file_object_io_handle_free, Typed, CallRecord
            <4>4. ~(/\ call'[t].at = "return" /\ call'[t].ok
                    /\ MakesObject(call'[t].gives))
                BY <2>3, <4>1 DEF LeaveLibrary
            <4> QED BY <1>0, <2>1, <4>1, <4>2, <4>3, <4>4
                    DEF ClosedIsEmpty, MadeWhileOpen, ReadsHaveHandle, OpenInv
        <3>4. CASE /\ ~(\E ok \in BOOLEAN : LeaveLibrary(t, ok))
                   /\ UNCHANGED <<opened, ioHandle>>
            <4>1. ~LeaveLibrary(t, TRUE)
                BY <3>4
            <4> QED BY <2>1, <2>2, <2>3, <3>4, <4>1
                    DEF ClosedIsEmpty, MadeWhileOpen, ReadsHaveHandle, ReadsFileObject, OpenInv
        <3>5. \/ UNCHANGED <<opened, ioHandle>>
              \/ DeallocCloses(t) \/ file_object_io_handle_free(t)
              \/ \E ok \in BOOLEAN : LeaveLibrary(t, ok)
            BY <1>1 DEF GoesOn, EnterLibrary, SignalAbort, file_object_io_handle_read,
                file_object_read_buffer, file_object_io_handle_seek_offset,
                ReturnForSecondCall, container_close_returns
        <3> QED BY <3>1, <3>2, <3>3, <3>4, <3>5
    <2> QED BY <2>2, <2>3, <2>5, <2>6, StepKeepsOpen
<1>2. CASE ReturnObject(t)
    <2> DEFINE n == NewObject
               gives == call[t].gives
               moved == MoveOn(object_new(object, gives, ParentOf(gives, call[t].target)), t)
    <2>1. /\ MakesObject(gives) /\ Free # {} /\ gives # "none" /\ gives # "container"
          /\ call[t] # Idle /\ Drop(t, moved, call[t].self)
          /\ app' = [app EXCEPT ![n] = 1] /\ UNCHANGED <<opened, ioHandle>>
        BY <1>0, <1>2 DEF ReturnObject, MakesObject, Kinds, SequenceKinds
    <2>2. opened # "no"
        BY <1>2 DEF ReturnObject, OpenInv, MadeWhileOpen
    <2>3. \A u \in Threads : ~IsExclusive(call[u])
        <3>1. ~IsExclusive(call[t])
            BY <2>1 DEF IsExclusive, MakesObject, Kinds, SequenceKinds
        <3> QED BY <2>1, <3>1 DEF OpenInv, ExclusiveIsAlone
    <2>4. /\ Good(moved, app', handle', call, NoObject)
          /\ n \in Objects /\ object[n].kind = "none" /\ moved[n].kind = gives
          /\ \A p \in Objects \ {n} : moved[p].kind = object[p].kind
        BY <1>2, <2>1, MadeKeeps DEF ReturnObject
    <2>5. call[t].self \in Objects /\ object[call[t].self].kind # "none"
        BY <2>1, BusyThreads DEF RefInv
    <2>6. moved[call[t].self].kind # "none" /\ call \in [Threads -> CallRecord]
        BY <1>0, <2>4, <2>5 DEF Typed
    <2> HIDE DEF moved
    <2>7. /\ \A p \in Objects : object'[p].kind \in {moved[p].kind, "none"}
          /\ \A u \in Threads \ {t} : call'[u] = call[u]
          /\ call'[t].gives = "none" /\ call'[t].at \in {"idle", "close", "free"}
        BY <2>1, <2>4, <2>5, <2>6, EndEffect
    <2>8. AtMostOneContainer(object')
        BY <2>1, <2>4, <2>7 DEF OpenInv, AtMostOneContainer
    <2>9. \A u \in Threads : ~IsExclusive(call'[u])
        BY <2>3, <2>7 DEF IsExclusive
    <2>10. NewIsNotHeld' /\ ExclusiveIsAlone' /\ ClosedIsEmpty'
        BY <2>1, <2>2, <2>9 DEF NewIsNotHeld, ExclusiveIsAlone, ClosedIsEmpty, IsExclusive
    <2>11. MadeWhileOpen' /\ ReadsHaveHandle'
        BY <2>1, <2>2, <2>7 DEF MadeWhileOpen, ReadsHaveHandle, ReadsFileObject, OpenInv
    <2> QED BY <2>8, <2>10, <2>11 DEF OpenInv
<1>3. ASSUME call[t] # Idle, Drop(t, object, call[t].self),
             UNCHANGED <<app, opened, ioHandle>>
      PROVE  OpenInv'
    <2>1. call[t].self \in Objects /\ object[call[t].self].kind # "none"
        BY <1>3, BusyThreads DEF RefInv
    <2>2. /\ \A p \in Objects : object'[p].kind \in {object[p].kind, "none"}
          /\ \A u \in Threads \ {t} : call'[u] = call[u]
          /\ call'[t].gives = "none" /\ call'[t].at \in {"idle", "close", "free"}
        BY <1>0, <1>3, <2>1, EndEffect DEF RefInv, Typed
    <2> QED BY <1>3, <2>2, EndKeepsOpen
<1>4. CASE ReturnValue(t)
    BY <1>0, <1>3, <1>4 DEF ReturnValue
<1>5. CASE container_close_returns(t) /\ ~(call[t].ok /\ ioHandle)
    <2>1. /\ call[t] # Idle /\ Drop(t, object, call[t].self)
          /\ UNCHANGED <<app, opened, ioHandle>>
        BY <1>0, <1>5 DEF container_close_returns
    <2> QED BY <1>3, <2>1
<1>6. CASE container_open_returns(t)
    <2> DEFINE o == call[t].self
    <2>1. call[t].gives \in {"opened", "container"} /\ opened' = opened
        BY <1>6 DEF container_open_returns, Opens
    <2>2. IsExclusive(call[t]) /\ call[t] # Idle
        BY <1>0, <2>1 DEF IsExclusive
    <2>3. AllAreContainers(object) /\ \A u \in Threads \ {t} : call[u] = Idle
        BY <2>2 DEF OpenInv, ExclusiveIsAlone
    <2>4. o \in Objects /\ object[o].kind # "none"
        BY <2>2, BusyThreads DEF RefInv
    <2>5. /\ \A u \in Threads \ {t} : call'[u] = call[u]
          /\ call'[t].gives = "none" /\ call'[t].at \in {"idle", "close", "free"}
          /\ \A p \in Objects : object'[p].kind = object[p].kind
        BY <1>6, OpenReturnsEffect
    <2>6. \A p \in Objects : object'[p].kind = object[p].kind
        BY <2>5
    <2>7. AllAreContainers(object')
        BY <2>3, <2>6 DEF AllAreContainers
    <2>8. NewIsNotHeld' /\ ClosedIsEmpty'
        BY <1>0, <2>3, <2>5, <2>7 DEF NewIsNotHeld, ClosedIsEmpty
    <2>9. MadeWhileOpen' /\ ReadsHaveHandle'
        BY <1>0, <2>3, <2>5 DEF MadeWhileOpen, ReadsHaveHandle
    <2>10. ~IsExclusive(call'[t])
        BY <2>5 DEF IsExclusive
    <2> QED BY <2>5, <2>6, <2>8, <2>9, <2>10, StepKeepsOpen
<1>7. CASE DeallocFrees(t)
    <2>1. call[t].at = "free" /\ UNCHANGED <<object, app, ioHandle>>
        BY <1>7 DEF DeallocFrees
    <2>2. DeallocCall(object, call[t])
        BY <1>0, <2>1 DEF GoodCall, MethodCall
    <2>3. /\ \A u \in Threads \ {t} : call'[u] = call[u]
          /\ call'[t].gives = "none" /\ call'[t].at = "freed"
        BY <1>0, <1>7, <2>2 DEF DeallocFrees, DeallocCall, Typed, CallRecord
    <2>4. CASE object[call[t].self].kind # "container"
        <3>1. opened' = opened
            BY <1>7, <2>4 DEF DeallocFrees
        <3> QED BY <2>1, <2>3, <3>1, EndKeepsOpen
    <2>5. CASE object[call[t].self].kind = "container"
        <3>1. AllAreContainers(object) /\ \A u \in Threads \ {t} : call[u] = Idle
            BY <2>2, <2>5, LonelyContainer DEF RefInv, OpenInv
        <3>2. NewIsNotHeld' /\ ClosedIsEmpty'
            BY <1>0, <2>1, <2>3, <3>1 DEF NewIsNotHeld, ClosedIsEmpty
        <3>3. MadeWhileOpen' /\ ReadsHaveHandle'
            BY <1>0, <2>3, <3>1 DEF MadeWhileOpen, ReadsHaveHandle
        <3>4. ~IsExclusive(call'[t])
            BY <2>3 DEF IsExclusive
        <3> QED BY <2>1, <2>3, <3>2, <3>3, <3>4, StepKeepsOpen
    <2> QED BY <2>4, <2>5
<1>8. CASE DeallocDropsParent(t)
    <2> DEFINE o == call[t].self
               q == object[o].parent
               gone == [object EXCEPT ![o] = NotThere]
    <2>1. call[t] # Idle /\ UNCHANGED <<app, opened, ioHandle>>
        BY <1>0, <1>8 DEF DeallocDropsParent
    <2>2. o \in Objects /\ object[o].kind # "none"
        BY <2>1, BusyThreads DEF RefInv
    <2>3. /\ \A p \in Objects : gone[p].kind \in {object[p].kind, "none"}
          /\ \A p \in Objects \ {o} : gone[p] = object[p]
        BY <1>0, <2>2 DEF Typed, NotThere
    <2>4. CASE q = NoObject
        <3>1. object' = gone /\ call' = [call EXCEPT ![t] = Idle]
            BY <1>8, <2>4 DEF DeallocDropsParent
        <3>2. /\ \A u \in Threads \ {t} : call'[u] = call[u]
              /\ call'[t].gives = "none" /\ call'[t].at = "idle"
            BY <1>0, <3>1 DEF Typed
        <3> QED BY <2>1, <2>3, <3>1, <3>2, EndKeepsOpen
    <2>5. CASE q # NoObject
        <3>1. Drop(t, gone, q)
            BY <1>8, <2>5 DEF DeallocDropsParent
        <3>2. Good(gone, app, handle, [call EXCEPT ![t] = Idle], q)
              /\ q \in Objects /\ gone[q].kind # "none"
            BY <1>8, <2>5, DeallocatedGoes
        <3> HIDE DEF gone, q
        <3>3. /\ \A p \in Objects : object'[p].kind \in {gone[p].kind, "none"}
              /\ \A u \in Threads \ {t} : call'[u] = call[u]
              /\ call'[t].gives = "none" /\ call'[t].at \in {"idle", "close", "free"}
            BY <1>0, <3>1, <3>2, EndEffect DEF Typed
        <3>4. \A p \in Objects : object'[p].kind \in {object[p].kind, "none"}
            BY <2>3, <3>3
        <3> QED BY <2>1, <3>3, <3>4, EndKeepsOpen
    <2> QED BY <2>4, <2>5
<1> QED BY <1>1, <1>2, <1>4, <1>5, <1>6, <1>7, <1>8 DEF Waits, Works, GoesOn

-----------------------------------------------------------------------------
(***************************************************************************)
(* The file IO handle.  It is freed by a failed open, by close and by the  *)
(* deallocation of the container: in each of them the library has the      *)
(* container closed by then.                                               *)
(***************************************************************************)

\* The thread is where the library has not opened the container yet, or has
\* closed or freed it.
FindsClosed(t) ==
    \/ Opens(call[t].gives) /\ ~(call[t].at = "return" /\ call[t].ok)
    \/ call[t].at = "freeio"
    \/ call[t].gives = "closed" /\ call[t].at = "return" /\ call[t].ok
    \/ call[t].at = "freed" /\ object[call[t].self].kind = "container"

HandleInv ==
    /\ opened = "object" => ioHandle
    /\ \A t \in Threads : FindsClosed(t) => opened = "no"
    /\ opened # "no" => \E o \in Objects : object[o].kind = "container"

\* open and open_file_object make one library call.
OpensInOneCall == \A t \in Threads : Opens(call[t].gives) => call[t].calls = 1

LEMMA OneCallNext ==
    ASSUME RefInv, OpensInOneCall, NEW t \in Threads,
           Application(t) \/ Waits(t) \/ Works(t)
    PROVE  OpensInOneCall'
<1>0. /\ call \in [Threads -> CallRecord] /\ call[t] \in CallRecord
      /\ Idle \in CallRecord /\ ~Opens(Idle.gives) /\ ~Opens("none")
    BY DEF RefInv, Good, Typed, Idle, CallRecord, Phases, AllGives, Refs, Opens
<1>1. ASSUME NEW c, call' = [call EXCEPT ![t] = c], Opens(c.gives) => c.calls = 1
      PROVE  OpensInOneCall'
    BY <1>0, <1>1 DEF OpensInOneCall
<1>2. ASSUME NEW o, NEW target, NEW m, NEW item,
             call' = [call EXCEPT ![t] = Start(o, target, m, item)],
             Opens(m.gives) => m.calls = 1
      PROVE  OpensInOneCall'
    <2> DEFINE c == Start(o, target, m, item)
    <2>1. c.gives = m.gives /\ c.calls = m.calls
        BY DEF Start
    <2> HIDE DEF c
    <2> QED BY <1>1, <1>2, <2>1 DEF c
<1>3. CASE Application(t)
    <2>1. CASE container_init(t)
        BY <2>1 DEF container_init, OpensInOneCall
    <2>2. CASE open_new_container_with_file_object(t)
        <3> DEFINE m == [container_open_file_object EXCEPT !.gives = "container"]
                   n == NewObject
        <3>1. m.calls = 1
            BY DEF container_open_file_object, Getter, Method
        <3>2. call' = [call EXCEPT ![t] = Start(n, n, m, -1)]
            BY <2>2 DEF open_new_container_with_file_object
        <3> HIDE DEF m, n
        <3> QED BY <1>2, <3>1, <3>2
    <2>3. ASSUME NEW o \in Objects, NEW m \in HandleMethods \cup {container_signal_abort},
                 CallMethod(t, o, m)
          PROVE  OpensInOneCall'
        <3>1. ~Opens(m.gives)
            BY MethodFacts DEF SharedMethod, Kinds, SequenceKinds, Opens
        <3>2. call' = [call EXCEPT ![t] = Start(o, o, m, -1)]
            BY <2>3 DEF CallMethod
        <3> QED BY <1>2, <3>1, <3>2
    <2>4. ASSUME NEW o \in Objects,
                 NEW m \in {container_open, container_open_file_object, container_close},
                 CallExclusive(t, o, m)
          PROVE  OpensInOneCall'
        <3>1. m.calls = 1
            BY DEF container_open, container_open_file_object, container_close, Getter, Method
        <3>2. call' = [call EXCEPT ![t] = Start(o, o, m, -1)]
            BY <2>4 DEF CallExclusive
        <3> QED BY <1>2, <3>1, <3>2
    <2>5. ASSUME NEW o \in Objects, sequence_iter(t, o) \/ container_open_file_object_refused(t, o)
          PROVE  OpensInOneCall'
        BY <2>5 DEF sequence_iter, container_open_file_object_refused, OpensInOneCall
    <2>6. ASSUME NEW o \in Objects, NEW i, NEW moves, CallItem(t, o, i, moves)
          PROVE  OpensInOneCall'
        <3>1. ~Opens(ItemMethod(o).gives)
            BY <2>6, ItemFacts DEF CallItem, SharedMethod, Kinds, SequenceKinds, Opens
        <3> DEFINE item == IF moves THEN i ELSE -1
                   m == ItemMethod(o)
                   q == object[o].parent
        <3>2. call' = [call EXCEPT ![t] = Start(o, q, m, item)]
            BY <2>6 DEF CallItem
        <3> HIDE DEF item, q
        <3> QED BY <1>2, <3>1, <3>2
    <2>7. ASSUME NEW o \in Objects, sequence_getitem(t, o) \/ sequence_iternext(t, o)
          PROVE  OpensInOneCall'
        BY <2>6, <2>7 DEF sequence_getitem, sequence_iternext
    <2>8. ASSUME NEW o \in Objects, ReleaseReference(t, o)
          PROVE  OpensInOneCall'
        BY <1>0, <2>8, HeldObjects, EndEffect
            DEF ReleaseReference, CanCall, RefInv, OpensInOneCall
    <2> QED BY <1>3, <2>1, <2>2, <2>3, <2>4, <2>5, <2>7, <2>8 DEF Application
<1>4. CASE GoesOn(t)
    <2>1. PICK c \in CallRecord : call' = [call EXCEPT ![t] = c] /\ c.gives = call[t].gives
        BY <1>4, GoesOnEffect
    <2>2. c = call'[t]
        BY <1>0, <2>1
    <2>3. CASE ~ReturnForSecondCall(t)
        <3>1. c.calls = call[t].calls
            <4>1. EnterLibrary(t) => call'[t].calls = call[t].calls
                BY <1>0 DEF EnterLibrary, CallRecord
            <4>2. SignalAbort(t) => call'[t].calls = call[t].calls
                BY <1>0 DEF SignalAbort, CallRecord
            <4>3. DeallocCloses(t) => call'[t].calls = call[t].calls
                BY <1>0 DEF DeallocCloses, CallRecord
            <4>4. file_object_io_handle_seek_offset(t) => call'[t].calls = call[t].calls
                BY <1>0 DEF file_object_io_handle_seek_offset, CallRecord
            <4>5. file_object_io_handle_read(t) => call'[t].calls = call[t].calls
                BY <1>0 DEF file_object_io_handle_read, CallRecord
            <4>6. file_object_read_buffer(t) => call'[t].calls = call[t].calls
                BY <1>0 DEF file_object_read_buffer, CallRecord
            <4>7. file_object_io_handle_free(t) => call'[t].calls = call[t].calls
                BY <1>0 DEF file_object_io_handle_free, CallRecord
            <4>8. container_close_returns(t) /\ call[t].ok /\ ioHandle =>
                     call'[t].calls = call[t].calls
                BY <1>0 DEF container_close_returns, CallRecord
            <4>9. \A ok \in BOOLEAN : LeaveLibrary(t, ok) => call'[t].calls = call[t].calls
                BY <1>0 DEF LeaveLibrary, CallRecord
            <4> QED BY <1>4, <2>2, <2>3, <4>1, <4>2, <4>3, <4>4, <4>5, <4>6, <4>7, <4>8, <4>9
                    DEF GoesOn
        <3> QED BY <1>1, <2>1, <3>1 DEF OpensInOneCall
    <2>4. CASE ReturnForSecondCall(t)
        <3>1. call[t].calls > 1 /\ call[t].calls \in Int
            BY <1>0, <2>4 DEF ReturnForSecondCall, CallRecord
        <3>2. ~Opens(call[t].gives)
            BY <3>1 DEF OpensInOneCall
        <3> QED BY <1>1, <2>1, <3>2
    <2> QED BY <2>3, <2>4
<1>5. ASSUME \A u \in Threads \ {t} : call'[u] = call[u], call'[t].gives = "none"
      PROVE  OpensInOneCall'
    BY <1>0, <1>5 DEF OpensInOneCall
<1>6. CASE ReturnObject(t)
    <2> DEFINE gives == call[t].gives
               moved == MoveOn(object_new(object, gives, ParentOf(gives, call[t].target)), t)
    <2>1. /\ MakesObject(gives) /\ Free # {} /\ call[t] # Idle
          /\ Drop(t, moved, call[t].self)
        BY <1>6 DEF ReturnObject, Idle
    <2>2. /\ Good(moved, app', handle', call, NoObject)
          /\ object[NewObject].kind = "none"
          /\ \A p \in Objects \ {NewObject} : moved[p].kind = object[p].kind
        BY <1>6, <2>1, MadeKeeps DEF ReturnObject
    <2>3. call[t].self \in Objects /\ object[call[t].self].kind # "none"
        BY <2>1, BusyThreads DEF RefInv
    <2>4. moved[call[t].self].kind # "none"
        BY <2>2, <2>3
    <2> HIDE DEF moved
    <2>5. /\ \A u \in Threads \ {t} : call'[u] = call[u]
          /\ call'[t].gives = "none"
        BY <1>0, <2>1, <2>2, <2>3, <2>4, EndEffect
    <2> QED BY <1>5, <2>5
<1>7. CASE \/ ReturnValue(t)
           \/ container_close_returns(t) /\ ~(call[t].ok /\ ioHandle)
    <2>1. Drop(t, object, call[t].self) /\ call[t] # Idle
        BY <1>7 DEF ReturnValue, container_close_returns, Idle
    <2>2. call[t].self \in Objects /\ object[call[t].self].kind # "none"
        BY <2>1, BusyThreads DEF RefInv
    <2>3. /\ \A u \in Threads \ {t} : call'[u] = call[u]
          /\ call'[t].gives = "none"
        BY <1>0, <2>1, <2>2, EndEffect DEF RefInv
    <2> QED BY <1>5, <2>3
<1>8. CASE container_open_returns(t)
    BY <1>5, <1>8, OpenReturnsEffect
<1>9. CASE DeallocFrees(t)
    <2>1. call[t].gives = "none"
        BY <1>9 DEF DeallocFrees, RefInv, Good, GoodCall, MethodCall, DeallocCall, Idle
    <2>2. /\ \A u \in Threads \ {t} : call'[u] = call[u]
          /\ call'[t].gives = "none"
        BY <1>0, <1>9, <2>1 DEF DeallocFrees, CallRecord
    <2> QED BY <1>5, <2>2
<1>10. CASE DeallocDropsParent(t)
    <2> DEFINE o == call[t].self
               q == object[o].parent
               gone == [object EXCEPT ![o] = NotThere]
    <2>1. CASE q = NoObject
        <3>1. call' = [call EXCEPT ![t] = Idle]
            BY <1>10, <2>1 DEF DeallocDropsParent
        <3> QED BY <1>0, <1>1, <3>1
    <2>2. CASE q # NoObject
        <3>1. Drop(t, gone, q)
            BY <1>10, <2>2 DEF DeallocDropsParent
        <3>2. Good(gone, app, handle, [call EXCEPT ![t] = Idle], q)
              /\ q \in Objects /\ gone[q].kind # "none"
            BY <1>10, <2>2, DeallocatedGoes
        <3> HIDE DEF gone, q
        <3>3. /\ \A u \in Threads \ {t} : call'[u] = call[u]
              /\ call'[t].gives = "none"
            BY <1>0, <3>1, <3>2, EndEffect
        <3> QED BY <1>5, <3>3
    <2> QED BY <2>1, <2>2
<1> QED BY <1>3, <1>4, <1>6, <1>7, <1>8, <1>9, <1>10 DEF Waits, Works, GoesOn

\* A step of a thread that leaves the container as it is.
LEMMA HandleKeeps ==
    ASSUME RefInv, HandleInv, NEW t \in Threads,
           \A u \in Threads \ {t} : call'[u] = call[u],
           \A p \in Objects : (object'[p].kind = "container") = (object[p].kind = "container"),
           opened' = opened, opened = "object" /\ ioHandle => ioHandle',
           FindsClosed(t)' => opened = "no"
    PROVE  HandleInv'
<1>1. ASSUME NEW u \in Threads \ {t}, FindsClosed(u)'
      PROVE  opened' = "no"
    <2>1. GoodCall(object, call[u]) /\ call'[u] = call[u]
        BY DEF RefInv, Good
    <2>2. call[u].at = "freed" => call[u].self \in Objects
        BY <2>1 DEF GoodCall, MethodCall, DeallocCall, Idle
    <2>3. FindsClosed(u)
        BY <1>1, <2>1, <2>2 DEF FindsClosed
    <2> QED BY <2>3 DEF HandleInv
<1> QED BY <1>1 DEF HandleInv

\* A step after which the container is closed.
LEMMA HandleOfClosed ==
    ASSUME opened' = "no"
    PROVE  HandleInv'
BY DEF HandleInv

\* A step by which a call begins beside others.
LEMMA SharedKeepsHandle ==
    ASSUME RefInv, HandleInv, NEW t \in Threads, NEW o \in Objects,
           NEW target, NEW m, NEW item, m.gives \notin {"opened", "container"},
           object' = IncRef(object, o),
           call' = [call EXCEPT ![t] = Start(o, target, m, item)],
           opened' = opened, ioHandle => ioHandle'
    PROVE  HandleInv'
<1>0. object \in [Objects -> Object] /\ call \in [Threads -> CallRecord]
    BY DEF RefInv, Good, Typed
<1>1. \A p \in Objects : object'[p].kind = object[p].kind
    <2>1. OnlyRefs(object', object, o, object[o].refs + 1)
        BY <1>0, IncRefEffect
    <2> QED BY <2>1 DEF OnlyRefs
<1>2. /\ \A u \in Threads \ {t} : call'[u] = call[u]
      /\ call'[t].at = "enter" /\ call'[t].gives = m.gives
    BY <1>0 DEF Start
<1>3. ~FindsClosed(t)'
    BY <1>2 DEF FindsClosed, Opens
<1> QED BY <1>1, <1>2, <1>3, HandleKeeps

\* A step by which a call ends.
LEMMA EndKeepsHandle ==
    ASSUME RefInv, HandleInv, NEW t \in Threads,
           \A u \in Threads \ {t} : call'[u] = call[u],
           \A p \in Objects : (object'[p].kind = "container") = (object[p].kind = "container"),
           call'[t].gives = "none", call'[t].at \in {"idle", "close", "free"},
           opened' = opened, ioHandle => ioHandle'
    PROVE  HandleInv'
<1>1. ~FindsClosed(t)'
    BY DEF FindsClosed, Opens
<1> QED BY <1>1, HandleKeeps

LEMMA ApplicationKeepsHandle ==
    ASSUME RefInv, OpenInv, HandleInv, NEW t \in Threads, Application(t)
    PROVE  HandleInv'
<1>0. Typed(object, app, handle, call)
    BY DEF RefInv, Good
<1>1. CASE container_init(t) \/ open_new_container_with_file_object(t)
    <2>1. opened' = "no"
        BY <1>1 DEF container_init, open_new_container_with_file_object, HandleInv
    <2> QED BY <2>1, HandleOfClosed
<1>2. ASSUME NEW o \in Objects, NEW m \in HandleMethods \cup {container_signal_abort},
             CallMethod(t, o, m)
      PROVE  HandleInv'
    <2>1. m.gives \notin {"opened", "container"}
        BY MethodFacts DEF SharedMethod, Kinds, SequenceKinds
    <2> DEFINE item == -1
    <2>2. /\ object' = IncRef(object, o) /\ UNCHANGED <<opened, ioHandle>>
          /\ call' = [call EXCEPT ![t] = Start(o, o, m, item)]
        BY <1>2 DEF CallMethod
    <2> HIDE DEF item
    <2> QED BY <2>1, <2>2, SharedKeepsHandle
<1>3. ASSUME NEW o \in Objects,
             NEW m \in {container_open, container_open_file_object, container_close},
             CallExclusive(t, o, m)
      PROVE  HandleInv'
    <2>1. m.gives \in {"opened", "closed"}
        BY ExclusiveFacts
    <2>2. CASE m.gives = "opened"
        <3>1. opened' = "no"
            BY <1>3, <2>2 DEF CallExclusive
        <3> QED BY <3>1, HandleOfClosed
    <2>3. CASE m.gives = "closed"
        <3> DEFINE item == -1
        <3>1. /\ object' = IncRef(object, o) /\ opened' = opened /\ (ioHandle => ioHandle')
              /\ call' = [call EXCEPT ![t] = Start(o, o, m, item)]
            BY <1>3 DEF CallExclusive
        <3> HIDE DEF item
        <3> QED BY <2>3, <3>1, SharedKeepsHandle
    <2> QED BY <2>1, <2>2, <2>3
<1>4. ASSUME NEW o \in Objects, container_open_file_object_refused(t, o)
      PROVE  HandleInv'
    <2>1. /\ opened' = (IF opened = "no" THEN "no" ELSE "dangling")
          /\ UNCHANGED <<object, call>>
        BY <1>4 DEF container_open_file_object_refused
    <2> QED BY <2>1 DEF HandleInv, FindsClosed
<1>5. ASSUME NEW o \in Objects, sequence_iter(t, o)
      PROVE  HandleInv'
    <2>1. /\ \A p \in Objects : object'[p].kind = object[p].kind
          /\ call' = call /\ UNCHANGED <<opened, ioHandle>>
        <3>1. OnlyRefs(object', object, o, object[o].refs + 1)
            BY <1>0, <1>5, IncRefEffect DEF sequence_iter, Typed
        <3> QED BY <1>5, <3>1 DEF OnlyRefs, sequence_iter
    <2>2. call'[t].at = "idle" /\ call'[t].gives = "none"
        BY <1>5, <2>1, IdleThreads DEF sequence_iter, CanCall, Idle
    <2> QED BY <2>1, <2>2, EndKeepsHandle
<1>6. ASSUME NEW o \in Objects, NEW i, NEW moves, CallItem(t, o, i, moves)
      PROVE  HandleInv'
    <2>1. ItemMethod(o).gives \notin {"opened", "container"}
        BY <1>6, ItemFacts DEF CallItem, SharedMethod, Kinds, SequenceKinds
    <2> DEFINE item == IF moves THEN i ELSE -1
               m == ItemMethod(o)
               q == object[o].parent
    <2>2. /\ object' = IncRef(object, o) /\ UNCHANGED <<opened, ioHandle>>
          /\ call' = [call EXCEPT ![t] = Start(o, q, m, item)]
        BY <1>6 DEF CallItem
    <2> HIDE DEF item, q
    <2> QED BY <2>1, <2>2, SharedKeepsHandle
<1>7. ASSUME NEW o \in Objects, sequence_getitem(t, o) \/ sequence_iternext(t, o)
      PROVE  HandleInv'
    BY <1>6, <1>7 DEF sequence_getitem, sequence_iternext
<1>8. ASSUME NEW o \in Objects, ReleaseReference(t, o)
      PROVE  HandleInv'
    <2>1. /\ Drop(t, object, o) /\ object[o].kind # "none"
          /\ UNCHANGED <<opened, ioHandle>>
        BY <1>8, HeldObjects DEF ReleaseReference, CanCall
    <2>2. /\ \A p \in Objects :
                (object'[p].kind = "container") = (object[p].kind = "container")
          /\ \A u \in Threads \ {t} : call'[u] = call[u]
          /\ call'[t].gives = "none" /\ call'[t].at \in {"idle", "close", "free"}
        BY <1>0, <2>1, EndEffect DEF RefInv, Typed
    <2> QED BY <2>1, <2>2, EndKeepsHandle
<1> QED BY <1>1, <1>2, <1>3, <1>4, <1>5, <1>7, <1>8 DEF Application

LEMMA ThreadKeepsHandle ==
    ASSUME RefInv, OpenInv, OpensInOneCall, HandleInv, NEW t \in Threads,
           Waits(t) \/ Works(t)
    PROVE  HandleInv'
<1>0. /\ Typed(object, app, handle, call) /\ GoodCall(object, call[t])
      /\ Idle.at = "idle" /\ Idle.gives = "none"
    BY DEF RefInv, Good, Idle
<1>1. CASE GoesOn(t)
    <2>1. PICK c \in CallRecord :
             /\ call' = [call EXCEPT ![t] = c] /\ c.self = call[t].self
             /\ c.gives = call[t].gives /\ UNCHANGED object
        BY <1>1, GoesOnEffect
    <2>2. /\ \A u \in Threads \ {t} : call'[u] = call[u]
          /\ call'[t].gives = call[t].gives
          /\ call[t] \in CallRecord /\ call \in [Threads -> CallRecord]
        BY <1>0, <2>1 DEF Typed
    <2>3. ASSUME opened' = opened, ioHandle' = ioHandle,
                 ~FindsClosed(t)' \/ FindsClosed(t)
          PROVE  HandleInv'
        <3>1. FindsClosed(t)' => opened = "no"
            BY <2>3 DEF HandleInv
        <3> QED BY <2>1, <2>2, <2>3, <3>1, HandleKeeps
    <2>4. CASE EnterLibrary(t) \/ file_object_io_handle_seek_offset(t)
               \/ file_object_io_handle_read(t) \/ file_object_read_buffer(t)
               \/ ReturnForSecondCall(t)
        <3>1. /\ UNCHANGED <<opened, ioHandle>>
              /\ call'[t].at \in {"library", "read", "reading", "enter"}
            <4>1. EnterLibrary(t) => call'[t].at = "library" /\ UNCHANGED <<opened, ioHandle>>
                BY <2>2 DEF EnterLibrary, CallRecord
            <4>2. file_object_io_handle_seek_offset(t) =>
                     call'[t].at = "read" /\ UNCHANGED <<opened, ioHandle>>
                BY <2>2 DEF file_object_io_handle_seek_offset, CallRecord
            <4>3. file_object_io_handle_read(t) =>
                     call'[t].at = "reading" /\ UNCHANGED <<opened, ioHandle>>
                BY <2>2 DEF file_object_io_handle_read, CallRecord
            <4>4. file_object_read_buffer(t) =>
                     call'[t].at = "library" /\ UNCHANGED <<opened, ioHandle>>
                BY <2>2 DEF file_object_read_buffer, CallRecord
            <4>5. ReturnForSecondCall(t) =>
                     call'[t].at = "enter" /\ UNCHANGED <<opened, ioHandle>>
                BY <2>2 DEF ReturnForSecondCall, CallRecord
            <4> QED BY <2>4, <4>1, <4>2, <4>3, <4>4, <4>5
        <3>2. CASE ~ReturnForSecondCall(t)
            <4>1. call[t].at # "return"
                BY <2>4, <3>2 DEF EnterLibrary, file_object_io_handle_seek_offset,
                    file_object_io_handle_read, file_object_read_buffer
            <4>2. ~FindsClosed(t)' \/ FindsClosed(t)
                BY <2>2, <3>1, <4>1 DEF FindsClosed
            <4> QED BY <2>3, <3>1, <4>2
        <3>3. CASE ReturnForSecondCall(t)
            <4>1. call[t].calls > 1
                BY <3>3 DEF ReturnForSecondCall
            <4>2. ~Opens(call[t].gives)
                BY <2>2, <4>1 DEF OpensInOneCall, CallRecord
            <4>3. ~FindsClosed(t)'
                BY <2>2, <3>1, <4>2 DEF FindsClosed
            <4> QED BY <2>3, <3>1, <4>3
        <3> QED BY <3>2, <3>3
    <2>5. CASE SignalAbort(t)
        <3>1. call[t].gives = "abort" /\ call'[t].at = "return" /\ UNCHANGED <<opened, ioHandle>>
            BY <2>2, <2>5 DEF SignalAbort, CallRecord
        <3>2. ~FindsClosed(t)'
            BY <2>2, <3>1 DEF FindsClosed, Opens
        <3> QED BY <2>3, <3>1, <3>2
    <2>6. CASE DeallocCloses(t)
        BY <2>6, HandleOfClosed DEF DeallocCloses
    <2>7. CASE file_object_io_handle_free(t)
        <3>1. opened' = "no"
            BY <2>7 DEF file_object_io_handle_free, HandleInv, FindsClosed
        <3> QED BY <3>1, HandleOfClosed
    <2>8. CASE container_close_returns(t) /\ call[t].ok /\ ioHandle
        <3>1. opened' = "no"
            BY <2>8 DEF container_close_returns, HandleInv, FindsClosed
        <3> QED BY <3>1, HandleOfClosed
    <2>9. ASSUME NEW ok \in BOOLEAN, LeaveLibrary(t, ok)
          PROVE  HandleInv'
        <3>1. call'[t].at = "return" /\ call'[t].ok = ok /\ ioHandle' = ioHandle
              /\ call[t].at = "library"
            <4> DEFINE b == [call[t] EXCEPT !.at = "return", !.ok = ok]
            <4>1. b \in CallRecord /\ b.at = "return" /\ b.ok = ok
                BY <2>2 DEF CallRecord, Phases
            <4>2. call'[t] = [b EXCEPT !.reads = 0]
                BY <2>2, <2>9 DEF LeaveLibrary
            <4> HIDE DEF b
            <4> QED BY <2>9, <4>1, <4>2 DEF CallRecord, LeaveLibrary
        <3>2. CASE ok /\ Opens(call[t].gives)
            <4>1. opened' = IF ioHandle THEN "object" ELSE "file"
                BY <2>9, <3>2 DEF LeaveLibrary
            <4>2. IsExclusive(call[t])
                BY <3>2 DEF IsExclusive, Opens
            <4>3. \A u \in Threads \ {t} : call'[u] = Idle
                BY <2>2, <4>2 DEF OpenInv, ExclusiveIsAlone
            <4>4. \A u \in Threads \ {t} : ~FindsClosed(u)'
                BY <1>0, <4>3 DEF FindsClosed, Opens
            <4>5. call[t].gives # "closed"
                BY <3>2 DEF Opens
            <4>6. ~FindsClosed(t)'
                BY <2>2, <3>1, <3>2, <4>5 DEF FindsClosed
            <4>7. call[t].self \in Objects /\ object'[call[t].self].kind = "container"
                BY <1>0, <2>1, <4>2
                    DEF GoodCall, MethodCall, DeallocCall, IsExclusive
            <4> QED BY <3>1, <4>1, <4>4, <4>6, <4>7 DEF HandleInv
        <3>3. CASE ok /\ call[t].gives = "closed"
            <4>1. opened' = "no"
                BY <2>9, <3>3 DEF LeaveLibrary, Opens
            <4> QED BY <4>1, HandleOfClosed
        <3>4. CASE ~(ok /\ (Opens(call[t].gives) \/ call[t].gives = "closed"))
            <4>1. opened' = opened
                BY <2>9, <3>4 DEF LeaveLibrary
            <4>2. ~FindsClosed(t)' \/ FindsClosed(t)
                BY <2>2, <3>1, <3>4 DEF FindsClosed
            <4> QED BY <2>3, <3>1, <4>1, <4>2
        <3> QED BY <3>2, <3>3, <3>4
    <2> QED BY <1>1, <2>4, <2>5, <2>6, <2>7, <2>8, <2>9 DEF GoesOn
<1>2. CASE ReturnObject(t)
    <2> DEFINE gives == call[t].gives
               moved == MoveOn(object_new(object, gives, ParentOf(gives, call[t].target)), t)
    <2>1. /\ MakesObject(gives) /\ Free # {} /\ gives # "container"
          /\ call[t] # Idle /\ Drop(t, moved, call[t].self)
          /\ UNCHANGED <<opened, ioHandle>>
        BY <1>0, <1>2 DEF ReturnObject, MakesObject, Kinds, SequenceKinds
    <2>2. /\ Good(moved, app', handle', call, NoObject)
          /\ NewObject \in Objects /\ object[NewObject].kind = "none"
          /\ moved[NewObject].kind = gives
          /\ \A p \in Objects \ {NewObject} : moved[p].kind = object[p].kind
        BY <1>2, <2>1, MadeKeeps DEF ReturnObject
    <2>3. call[t].self \in Objects /\ object[call[t].self].kind # "none"
        BY <2>1, BusyThreads DEF RefInv
    <2>4. moved[call[t].self].kind # "none" /\ call \in [Threads -> CallRecord]
        BY <1>0, <2>2, <2>3 DEF Typed
    <2> HIDE DEF moved
    <2>5. /\ \A p \in Objects :
                (object'[p].kind = "container") = (moved[p].kind = "container")
          /\ \A u \in Threads \ {t} : call'[u] = call[u]
          /\ call'[t].gives = "none" /\ call'[t].at \in {"idle", "close", "free"}
        BY <2>1, <2>2, <2>3, <2>4, EndEffect
    <2>6. \A p \in Objects : (object'[p].kind = "container") = (object[p].kind = "container")
        BY <2>1, <2>2, <2>5
    <2> QED BY <2>1, <2>5, <2>6, EndKeepsHandle
<1>3. CASE \/ ReturnValue(t)
           \/ container_close_returns(t) /\ ~(call[t].ok /\ ioHandle)
    <2>1. /\ Drop(t, object, call[t].self) /\ UNCHANGED <<opened, ioHandle>>
          /\ call[t] # Idle
        BY <1>0, <1>3 DEF ReturnValue, container_close_returns
    <2>2. call[t].self \in Objects /\ object[call[t].self].kind # "none"
        BY <2>1, BusyThreads DEF RefInv
    <2>3. /\ \A p \in Objects :
                (object'[p].kind = "container") = (object[p].kind = "container")
          /\ \A u \in Threads \ {t} : call'[u] = call[u]
          /\ call'[t].gives = "none" /\ call'[t].at \in {"idle", "close", "free"}
        BY <1>0, <2>1, <2>2, EndEffect DEF RefInv, Typed
    <2> QED BY <2>1, <2>3, EndKeepsHandle
<1>4. CASE container_open_returns(t)
    <2>1. Opens(call[t].gives) /\ opened' = opened /\ call[t].at = "return"
          /\ ioHandle' = (ioHandle /\ call[t].ok)
        BY <1>4 DEF container_open_returns
    <2>2. CASE ~call[t].ok
        <3>1. opened' = "no"
            BY <2>1, <2>2 DEF HandleInv, FindsClosed
        <3> QED BY <3>1, HandleOfClosed
    <2>3. CASE call[t].ok
        <3>1. /\ \A u \in Threads \ {t} : call'[u] = call[u]
              /\ call'[t].gives = "none" /\ call'[t].at \in {"idle", "close", "free"}
              /\ \A p \in Objects :
                    (object'[p].kind = "container") = (object[p].kind = "container")
            BY <1>4, OpenReturnsEffect
        <3> QED BY <2>1, <2>3, <3>1, EndKeepsHandle
    <2> QED BY <2>2, <2>3
<1>5. CASE DeallocFrees(t)
    <2>1. call[t].at = "free" /\ UNCHANGED <<object, ioHandle>>
          /\ opened' = IF object[call[t].self].kind = "container" THEN "no" ELSE opened
        BY <1>5 DEF DeallocFrees
    <2>2. CASE object[call[t].self].kind = "container"
        BY <2>1, <2>2, HandleOfClosed
    <2>3. CASE object[call[t].self].kind # "container"
        <3>1. call[t].gives = "none"
            BY <1>0, <2>1 DEF GoodCall, MethodCall, DeallocCall
        <3>2. /\ \A u \in Threads \ {t} : call'[u] = call[u]
              /\ call'[t].gives = "none" /\ call'[t].at = "freed"
              /\ call'[t].self = call[t].self
            BY <1>0, <1>5, <3>1 DEF DeallocFrees, Typed, CallRecord
        <3>3. ~FindsClosed(t)'
            BY <2>1, <2>3, <3>2 DEF FindsClosed, Opens
        <3> QED BY <2>1, <2>3, <3>2, <3>3, HandleKeeps
    <2> QED BY <2>2, <2>3
<1>6. CASE DeallocDropsParent(t)
    <2> DEFINE o == call[t].self
               q == object[o].parent
               gone == [object EXCEPT ![o] = NotThere]
    <2>1. call[t] # Idle /\ UNCHANGED <<opened, ioHandle>> /\ call[t].at = "freed"
        BY <1>0, <1>6 DEF DeallocDropsParent
    <2>2. o \in Objects /\ object[o].kind # "none"
        BY <2>1, BusyThreads DEF RefInv
    <2>3. CASE object[o].kind = "container"
        <3>1. opened' = "no"
            BY <2>1, <2>3 DEF HandleInv, FindsClosed
        <3> QED BY <3>1, HandleOfClosed
    <2>4. CASE object[o].kind # "container"
        <3>1. \A p \in Objects : (gone[p].kind = "container") = (object[p].kind = "container")
            BY <1>0, <2>2, <2>4 DEF Typed, NotThere
        <3>2. q # NoObject
            <4>1. object[o].kind \in Kinds \ {"container"}
                BY <1>0, <2>2, <2>4 DEF Typed, Object
            <4>2. ParentIsThere(object, o)
                BY <2>2 DEF RefInv, Good, GoodObject
            <4> QED BY <4>1, <4>2, NamesAssumption DEF ParentIsThere
        <3>3. Drop(t, gone, q)
            BY <1>6, <3>2 DEF DeallocDropsParent
        <3>4. Good(gone, app, handle, [call EXCEPT ![t] = Idle], q)
              /\ q \in Objects /\ gone[q].kind # "none"
            BY <1>6, <3>2, DeallocatedGoes
        <3> HIDE DEF gone, q
        <3>5. /\ \A p \in Objects :
                    (object'[p].kind = "container") = (gone[p].kind = "container")
              /\ \A u \in Threads \ {t} : call'[u] = call[u]
              /\ call'[t].gives = "none" /\ call'[t].at \in {"idle", "close", "free"}
            BY <1>0, <3>3, <3>4, EndEffect DEF Typed
        <3>6. \A p \in Objects :
                 (object'[p].kind = "container") = (object[p].kind = "container")
            BY <3>1, <3>5
        <3> QED BY <2>1, <3>5, <3>6, EndKeepsHandle
    <2> QED BY <2>3, <2>4
<1> QED BY <1>1, <1>2, <1>3, <1>4, <1>5, <1>6 DEF Waits, Works, GoesOn

\* Every step of the specification keeps the handle of the open container.
LEMMA HandleNext ==
    ASSUME RefInv, OpenInv, OpensInOneCall, HandleInv, [Next]_vars
    PROVE  OpensInOneCall' /\ HandleInv'
<1>1. CASE UNCHANGED vars
    BY <1>1 DEF vars, HandleInv, FindsClosed, OpensInOneCall
<1>2. ASSUME NEW t \in Threads, Application(t) \/ Waits(t) \/ Works(t)
      PROVE  OpensInOneCall' /\ HandleInv'
    BY <1>2, OneCallNext, ApplicationKeepsHandle, ThreadKeepsHandle
<1> QED BY <1>1, <1>2 DEF Next

-----------------------------------------------------------------------------
(***************************************************************************)
(* The counts are right, and what is used is there.                        *)
(***************************************************************************)

LEMMA CountsNext ==
    ASSUME RefInv, OpenInv, [Next]_vars
    PROVE  RefInv' /\ OpenInv'
<1>1. CASE UNCHANGED vars
    <2>1. RefInv'
        BY <1>1 DEF vars, RefInv
    <2>2. /\ AtMostOneContainer(object') /\ NewIsNotHeld' /\ ExclusiveIsAlone'
          /\ ClosedIsEmpty' /\ MadeWhileOpen' /\ ReadsHaveHandle'
        BY <1>1 DEF vars, OpenInv, NewIsNotHeld, ExclusiveIsAlone, ClosedIsEmpty,
            MadeWhileOpen, ReadsHaveHandle, ReadsFileObject
    <2> QED BY <2>1, <2>2 DEF OpenInv
<1>2. ASSUME NEW t \in Threads, Application(t)
      PROVE  RefInv' /\ OpenInv'
    <2>1. RefInv'
        BY <1>2, ApplicationKeepsCounts
    <2> QED BY <1>2, <2>1, ApplicationKeepsOpen
<1>3. ASSUME NEW t \in Threads, Waits(t) \/ Works(t)
      PROVE  RefInv' /\ OpenInv'
    <2>1. NewIsNotHeld
        BY DEF OpenInv
    <2>2. RefInv'
        BY <1>3, <2>1, ThreadKeepsCounts
    <2> QED BY <1>3, <2>2, ThreadKeepsOpen
<1> QED BY <1>1, <1>2, <1>3 DEF Next

\* The invariant says of each object what ReferencesAreCounted does.
LEMMA CountsAreCounted ==
    ASSUME RefInv
    PROVE  ReferencesAreCounted
<1> SUFFICES ASSUME NEW o \in Objects
             PROVE  LET freeing == Freeing(call, o)
                        isFreed == \E t \in freeing : call[t].at = "freed"
                    IN  IF object[o].kind = "none" THEN app[o] = 0 /\ ~handle[o].held
                        ELSE /\ object[o].refs = Count(object, app, call, o)
                             /\ (object[o].refs = 0) = (Cardinality(freeing) = 1)
                             /\ handle[o].held = (/\ object[o].kind \notin SequenceKinds
                                                  /\ ~isFreed)
    BY DEF ReferencesAreCounted, Count, Children, Calling, Freeing
<1>1. CASE object[o].kind = "none"
    <2>1. GoneObject(object, app, handle, o)
        BY <1>1 DEF RefInv, Good
    <2>2. app[o] = 0 /\ handle[o] = NoHandle /\ ~NoHandle.held
        BY <2>1 DEF GoneObject, NoHandle
    <2> QED BY <1>1, <2>2
<1>2. CASE object[o].kind # "none"
    <2>1. GoodObject(object, app, handle, call, o, NoObject)
        BY <1>2 DEF RefInv, Good
    <2>2. o # NoObject /\ app \in [Objects -> Nat]
        BY NamesAssumption DEF RefInv, Good, Typed
    <2>3. object[o].refs = Count(object, app, call, o)
        <3>1. Count(object, app, call, o) \in Nat
            BY <2>2, CountsAreFinite
        <3> QED BY <2>1, <2>2, <3>1 DEF GoodObject
    <2>4. (object[o].refs = 0) <=> (Cardinality(Freeing(call, o)) = 1)
        <3>1. CASE Freeing(call, o) = {}
            <4>1. Cardinality(Freeing(call, o)) = 0
                BY <3>1, FS_EmptySet
            <4> QED BY <2>1, <3>1, <4>1 DEF GoodObject
        <3>2. CASE Freeing(call, o) # {}
            <4>1. PICK t : t \in Freeing(call, o)
                BY <3>2
            <4>2. Freeing(call, o) = {t}
                BY <2>1, <4>1 DEF GoodObject
            <4>3. Cardinality(Freeing(call, o)) = 1
                BY <4>2, FS_Singleton
            <4> QED BY <2>1, <3>2, <4>3 DEF GoodObject
        <3> QED BY <3>1, <3>2
    <2> DEFINE isFreed == \E t \in Freeing(call, o) : call[t].at = "freed"
    <2>5. handle[o].held = (object[o].kind \notin SequenceKinds /\ ~isFreed)
        <3>1. handle[o] = IF object[o].kind \in SequenceKinds \/ isFreed THEN NoHandle
                          ELSE Borrower(object[o].parent)
            BY <2>1 DEF GoodObject, HandleOf
        <3> HIDE DEF isFreed
        <3>2. NoHandle.held = FALSE /\ Borrower(object[o].parent).held = TRUE
            BY DEF NoHandle, Borrower
        <3>3. CASE object[o].kind \in SequenceKinds \/ isFreed
            BY <3>1, <3>2, <3>3
        <3>4. CASE ~(object[o].kind \in SequenceKinds \/ isFreed)
            BY <3>1, <3>2, <3>4
        <3> QED BY <3>3, <3>4
    <2> QED BY <1>2, <2>3, <2>4, <2>5
<1> QED BY <1>1, <1>2

\* An object whose library object is there and is not a sequence's.
IsLive(o) == /\ o \in Objects /\ object[o].kind \notin SequenceKinds \cup {"none"}
             /\ handle[o] = Borrower(object[o].parent)

\* What a library object borrows from is there as well.
LEMMA LendersLive ==
    ASSUME RefInv, NEW o, IsLive(o)
    PROVE  handle[o].held /\ (Up(o) = NoObject \/ IsLive(Up(o)))
<1>1. o \in Objects /\ o # NoObject /\ object[o].kind # "none"
    BY NamesAssumption DEF IsLive
<1>2. handle[o].held /\ Up(o) = object[o].parent
    BY <1>1 DEF IsLive, Borrower, Up
<1>3. ASSUME object[o].parent # NoObject PROVE IsLive(object[o].parent)
    <2> DEFINE q == object[o].parent
    <2>1. ParentIsThere(object, o) /\ object[o].kind \in Kinds
        BY <1>1 DEF RefInv, Good, GoodObject, Typed, Object
    <2>2. object[o].kind # "container"
        BY <1>3, <2>1 DEF ParentIsThere
    <2>3. q \in Objects /\ object[q].kind \notin SequenceKinds \cup {"none"}
        BY <1>1, <2>1, <2>2, ParentsAreNoSequences
    <2>4. o \in Children(object, q)
        BY <1>1 DEF Children
    <2>5. Freeing(call, q) = {}
        BY <2>3, <2>4, KeptObjects DEF RefInv
    <2>6. handle[q] = HandleOf(object, call, q)
        BY <2>3 DEF RefInv, Good, GoodObject
    <2>7. handle[q] = Borrower(object[q].parent)
        BY <2>3, <2>5, <2>6 DEF HandleOf
    <2> QED BY <2>3, <2>7 DEF IsLive
<1> QED BY <1>2, <1>3

LEMMA CallsUseWhatIsThere ==
    ASSUME RefInv, OpenInv
    PROVE  \A t \in Threads : InLibrary(t) => LendersAreHeld(t)
<1> SUFFICES ASSUME NEW t \in Threads, InLibrary(t)
             PROVE  \A o \in Lenders(call[t].target) : handle[o].held
    BY DEF LendersAreHeld
<1> DEFINE g == call[t].target
<1>1. GoodCall(object, call[t])
    BY DEF RefInv, Good
<1>2. IsLive(g)
    <2>1. CASE MethodCall(object, call[t])
        <3>1. call[t].gives # "none"
            BY <2>1 DEF MethodCall
        <3>2. Freeing(call, g) = {} /\ g \in Objects /\ object[g].kind # "none"
            BY <2>1, <3>1, TargetIsKept DEF MethodCall
        <3>3. object[g].kind \notin SequenceKinds
            <4>1. CASE object[call[t].self].kind \in SequenceKinds
                <5>1. ParentIsThere(object, call[t].self) /\ call[t].self \in Objects
                    BY <2>1 DEF RefInv, Good, GoodObject, MethodCall
                <5>2. object[call[t].self].kind \in Kinds \ {"container"}
                    BY <4>1 DEF Kinds, SequenceKinds
                <5>3. g = object[call[t].self].parent
                    BY <2>1, <4>1 DEF MethodCall
                <5> QED BY <5>1, <5>2, <5>3, ParentsAreNoSequences
            <4>2. CASE object[call[t].self].kind \notin SequenceKinds
                BY <2>1, <4>2 DEF MethodCall
            <4> QED BY <4>1, <4>2
        <3>4. handle[g] = HandleOf(object, call, g)
            BY <3>2 DEF RefInv, Good, GoodObject
        <3> QED BY <3>2, <3>3, <3>4 DEF HandleOf, IsLive
    <2>2. CASE DeallocCall(object, call[t])
        <3>1. /\ g \in Objects /\ object[g].kind \notin SequenceKinds \cup {"none"}
              /\ t \in Freeing(call, g) /\ call[t].at # "freed"
            BY <2>2 DEF DeallocCall, Freeing, InLibrary
        <3>2. GoodObject(object, app, handle, call, g, NoObject)
            BY <3>1 DEF RefInv, Good
        <3>3. \A u \in Freeing(call, g) : u = t
            BY <3>1, <3>2 DEF GoodObject
        <3>4. handle[g] = Borrower(object[g].parent)
            BY <3>1, <3>2, <3>3 DEF GoodObject, HandleOf
        <3> QED BY <3>1, <3>4 DEF IsLive
    <2> QED BY <1>1, <2>1, <2>2 DEF GoodCall, InLibrary, Idle
<1>3. Up(NoObject) = NoObject
    BY DEF Up
<1>4. handle[g].held /\ (Up(g) = NoObject \/ IsLive(Up(g)))
    BY <1>2, LendersLive
<1>5. /\ Up(g) # NoObject => handle[Up(g)].held
      /\ Up(Up(g)) = NoObject \/ IsLive(Up(Up(g)))
    BY <1>3, <1>4, LendersLive
<1>6. /\ Up(Up(g)) # NoObject => handle[Up(Up(g))].held
      /\ Up(Up(Up(g))) = NoObject \/ IsLive(Up(Up(Up(g))))
    BY <1>3, <1>5, LendersLive
<1>7. Up(Up(Up(g))) # NoObject => handle[Up(Up(Up(g)))].held
    BY <1>6, LendersLive
<1>8. \A o \in Lenders(g) : handle[o].held
    BY <1>4, <1>5, <1>6, <1>7 DEF Lenders
<1> QED BY <1>8

\* The reference counts are right in every state: an object is kept as long as
\* the application, an object made from it or a call needs it, and when nobody
\* does one thread, and only one, frees it (pyfsapfs_*_new, *_free and the
\* Py_IncRef and Py_DecRef of the sequence objects).
THEOREM CountsAreRight == Spec => []ReferencesAreCounted
<1>1. Init => RefInv /\ OpenInv
    BY RefInvInit, OpenInvInit
<1>2. RefInv /\ OpenInv /\ [Next]_vars => RefInv' /\ OpenInv'
    BY CountsNext
<1>3. RefInv => ReferencesAreCounted
    BY CountsAreCounted
<1> QED BY <1>1, <1>2, <1>3, PTL DEF Spec

\* No thread is in the library on behalf of a library object that was freed, nor
\* of one that borrows from a freed one, whatever the other threads let go of
\* while the interpreter is given up; nor does one read through, close or free a
\* file IO handle that a failed open, a close or a deallocation freed: only a
\* second open_file_object( ) frees it under the library.
THEOREM OnlyReopeningFrees == Spec => []OnlyReopeningFreesWhatIsUsed
<1>1. Init => RefInv /\ OpenInv /\ OpensInOneCall /\ HandleInv
    <2>1. Init => OpensInOneCall /\ HandleInv
        BY DEF Init, OpensInOneCall, HandleInv, FindsClosed, Idle, Opens
    <2> QED BY <2>1, RefInvInit, OpenInvInit
<1>2. RefInv /\ OpenInv /\ OpensInOneCall /\ HandleInv /\ [Next]_vars
         => RefInv' /\ OpenInv' /\ OpensInOneCall' /\ HandleInv'
    BY CountsNext, HandleNext
<1>3. RefInv /\ OpenInv /\ HandleInv => OnlyReopeningFreesWhatIsUsed
    <2> SUFFICES ASSUME RefInv, OpenInv, HandleInv, NEW t \in Threads
                 PROVE  /\ InLibrary(t) => LendersAreHeld(t)
                        /\ UsesIoHandle(t) => ioHandle \/ opened = "dangling"
        BY DEF OnlyReopeningFreesWhatIsUsed
    <2>1. InLibrary(t) => LendersAreHeld(t)
        BY CallsUseWhatIsThere
    <2>2. call[t].at \in {"read", "reading"} => ioHandle \/ opened = "dangling"
        BY DEF OpenInv, ReadsHaveHandle, ReadsFileObject
    <2>3. opened \in {"object", "dangling"} => ioHandle \/ opened = "dangling"
        BY DEF HandleInv
    <2> QED BY <2>1, <2>2, <2>3 DEF UsesIoHandle
<1> QED BY <1>1, <1>2, <1>3, PTL DEF Spec

-----------------------------------------------------------------------------
(***************************************************************************)
(* Reading and iterating.                                                  *)
(***************************************************************************)

\* The iterations are where they were, or their sequences are gone.
IterationsStay ==
    \A p \in Objects :
        \/ SameButRefs(object'[p], NotThere)
        \/ /\ object'[p].current_index = object[p].current_index
           /\ object'[p].given = object[p].given

\* What a step of a thread does to its call, to the reads and to the iterations.
LEMMA StepEffect ==
    ASSUME RefInv, NEW t \in Threads, Application(t) \/ Waits(t) \/ Works(t)
    PROVE  /\ \A u \in Threads \ {t} : call'[u] = call[u]
           /\ \/ file_object_io_handle_seek_offset(t) \/ file_object_io_handle_read(t)
              \/ file_object_read_buffer(t)
              \/ UNCHANGED <<ioLock, position>> /\ call'[t].at \notin {"read", "reading"}
           /\ \/ ReturnObject(t)
              \/ \E s \in Objects : sequence_iternext(t, s)
              \/ /\ IterationsStay
                 /\ \/ call'[t].item = -1
                    \/ call'[t].item = call[t].item /\ call'[t].self = call[t].self
<1>0. /\ Typed(object, app, handle, call)
      /\ Idle \in CallRecord
      /\ Idle.at = "idle" /\ Idle.gives = "none" /\ Idle.item = -1
    BY DEF RefInv, Good, Idle, CallRecord, Phases, AllGives, Refs
<1>1. CASE container_init(t) \/ open_new_container_with_file_object(t)
    <2> DEFINE n == NewObject
               new == [NotThere EXCEPT !.kind = "container", !.refs = 1]
    <2>1. n \in Objects /\ object[n] = NotThere
        BY <1>1, NewObjectIsFree DEF container_init, open_new_container_with_file_object,
            RefInv, Good, GoneObject
    <2>2. object' = [object EXCEPT ![n] = new]
        BY <1>1 DEF container_init, open_new_container_with_file_object
    <2>3. new.current_index = NotThere.current_index /\ new.given = NotThere.given
        BY DEF NotThere
    <2> HIDE DEF n, new
    <2>4. IterationsStay
        BY <1>0, <2>1, <2>2, <2>3 DEF IterationsStay, Typed
    <2>5. /\ \A u \in Threads \ {t} : call'[u] = call[u]
          /\ UNCHANGED <<ioLock, position>>
        BY <1>0, <1>1 DEF container_init, open_new_container_with_file_object, Typed
    <2>6. call[t] = Idle
        BY <1>1, IdleThreads DEF container_init, open_new_container_with_file_object
    <2>7. call'[t].at \in {"idle", "enter"} /\ call'[t].item = -1
        BY <1>0, <1>1, <2>6
            DEF container_init, open_new_container_with_file_object, Start, Typed
    <2> QED BY <2>4, <2>5, <2>7
<1>2. ASSUME NEW o \in Objects, object' = IncRef(object, o)
      PROVE  IterationsStay
    <2>1. OnlyRefs(object', object, o, object[o].refs + 1)
        BY <1>0, <1>2, IncRefEffect DEF Typed
    <2> QED BY <2>1 DEF OnlyRefs, IterationsStay
<1>3. ASSUME NEW o \in Objects, \/ \E m : CallMethod(t, o, m)
                                \/ \E m : CallExclusive(t, o, m)
                                \/ sequence_getitem(t, o)
      PROVE  /\ \A u \in Threads \ {t} : call'[u] = call[u]
             /\ UNCHANGED <<ioLock, position>> /\ IterationsStay
             /\ call'[t].at = "enter" /\ call'[t].item = -1
    <2>1. object' = IncRef(object, o) /\ UNCHANGED <<ioLock, position>>
        BY <1>3 DEF CallMethod, CallExclusive, sequence_getitem, CallItem
    <2>2. \E target, m : call' = [call EXCEPT ![t] = Start(o, target, m, -1)]
        BY <1>3 DEF CallMethod, CallExclusive, sequence_getitem, CallItem
    <2>3. /\ \A u \in Threads \ {t} : call'[u] = call[u]
          /\ call'[t].at = "enter" /\ call'[t].item = -1
        BY <1>0, <2>2 DEF Start, Typed
    <2> QED BY <1>2, <2>1, <2>3
<1>4. ASSUME NEW o \in Objects, sequence_iter(t, o)
      PROVE  /\ call' = call /\ call[t] = Idle
             /\ UNCHANGED <<ioLock, position>> /\ IterationsStay
    BY <1>2, <1>4, IdleThreads DEF sequence_iter, CanCall
<1>5. ASSUME NEW o \in Objects, sequence_iternext(t, o)
      PROVE  /\ \A u \in Threads \ {t} : call'[u] = call[u]
             /\ UNCHANGED <<ioLock, position>> /\ call'[t].at = "enter"
    BY <1>0, <1>5 DEF sequence_iternext, CallItem, Start, Typed
<1>6. ASSUME NEW objects, NEW apps, NEW handles, NEW calls, NEW extra,
             Good(objects, apps, handles, calls, extra),
             NEW o \in Objects, objects[o].kind # "none", Drop(t, objects, o),
             \A p \in Objects : \/ SameButRefs(objects[p], NotThere)
                                \/ objects[p] = object[p]
      PROVE  /\ \A u \in Threads \ {t} : call'[u] = call[u]
             /\ IterationsStay
             /\ call'[t].at \notin {"read", "reading"} /\ call'[t].item = -1
    <2>1. /\ \A p \in Objects : \/ SameButRefs(object'[p], NotThere)
                                \/ SameButRefs(object'[p], objects[p])
          /\ \A u \in Threads \ {t} : call'[u] = call[u]
          /\ call'[t].item = -1 /\ call'[t].at \in {"idle", "close", "free"}
        BY <1>0, <1>6, EndEffect DEF Typed
    <2>2. IterationsStay
        BY <1>6, <2>1 DEF IterationsStay, SameButRefs
    <2> QED BY <2>1, <2>2
<1>7. ASSUME NEW o \in Objects, ReleaseReference(t, o)
      PROVE  /\ \A u \in Threads \ {t} : call'[u] = call[u]
             /\ IterationsStay
             /\ UNCHANGED <<ioLock, position>>
             /\ call'[t].at \notin {"read", "reading"} /\ call'[t].item = -1
    <2>1. /\ Drop(t, object, o) /\ object[o].kind # "none"
          /\ UNCHANGED <<ioLock, position>>
        BY <1>7, HeldObjects DEF ReleaseReference, CanCall
    <2> QED BY <1>6, <2>1 DEF RefInv
<1>8. CASE GoesOn(t)
    <2>1. PICK c \in CallRecord :
             /\ call' = [call EXCEPT ![t] = c] /\ c.self = call[t].self
             /\ c.item = call[t].item /\ object' = object
        BY <1>8, GoesOnEffect
    <2>2. /\ \A u \in Threads \ {t} : call'[u] = call[u]
          /\ call'[t] = c
          /\ call'[t].self = call[t].self /\ call'[t].item = call[t].item
        BY <1>0, <2>1 DEF Typed
    <2>3. IterationsStay
        BY <2>1 DEF IterationsStay
    <2>4. \/ file_object_io_handle_seek_offset(t) \/ file_object_io_handle_read(t)
          \/ file_object_read_buffer(t)
          \/ UNCHANGED <<ioLock, position>> /\ call'[t].at \notin {"read", "reading"}
        <3>0. call[t] \in CallRecord /\ call \in [Threads -> CallRecord]
            BY <1>0 DEF Typed
        <3>1. EnterLibrary(t) => call'[t].at = "library" /\ UNCHANGED <<ioLock, position>>
            BY <3>0 DEF EnterLibrary, CallRecord
        <3>2. SignalAbort(t) => call'[t].at = "return" /\ UNCHANGED <<ioLock, position>>
            BY <3>0 DEF SignalAbort, CallRecord
        <3>3. DeallocCloses(t) => call'[t].at = "freeio" /\ UNCHANGED <<ioLock, position>>
            BY <3>0 DEF DeallocCloses, CallRecord
        <3>4. ReturnForSecondCall(t) =>
                 call'[t].at = "enter" /\ UNCHANGED <<ioLock, position>>
            BY <3>0 DEF ReturnForSecondCall, CallRecord
        <3>5. file_object_io_handle_free(t) =>
                 call'[t].at \in {"free", "return"} /\ UNCHANGED <<ioLock, position>>
            BY <3>0 DEF file_object_io_handle_free, CallRecord
        <3>6. container_close_returns(t) /\ call[t].ok /\ ioHandle =>
                 call'[t].at = "freeio" /\ UNCHANGED <<ioLock, position>>
            BY <3>0 DEF container_close_returns, CallRecord
        <3>7. \A ok \in BOOLEAN : LeaveLibrary(t, ok) =>
                 call'[t].at = "return" /\ UNCHANGED <<ioLock, position>>
            BY <3>0 DEF LeaveLibrary, CallRecord
        <3> QED BY <1>8, <3>1, <3>2, <3>3, <3>4, <3>5, <3>6, <3>7 DEF GoesOn
    <2> QED BY <2>2, <2>3, <2>4
<1>9. CASE ReturnObject(t)
    <2> DEFINE gives == call[t].gives
               moved == MoveOn(object_new(object, gives, ParentOf(gives, call[t].target)), t)
    <2>1. /\ MakesObject(gives) /\ Free # {} /\ call[t] # Idle
          /\ Drop(t, moved, call[t].self) /\ UNCHANGED <<ioLock, position>>
        BY <1>0, <1>9 DEF ReturnObject
    <2>2. /\ Good(moved, app', handle', call, NoObject)
          /\ object[NewObject].kind = "none"
          /\ \A p \in Objects \ {NewObject} : moved[p].kind = object[p].kind
        BY <1>9, <2>1, MadeKeeps DEF ReturnObject
    <2>3. call[t].self \in Objects /\ object[call[t].self].kind # "none"
        BY <2>1, BusyThreads DEF RefInv
    <2>4. moved[call[t].self].kind # "none"
        BY <2>2, <2>3
    <2> HIDE DEF moved
    <2>5. /\ \A u \in Threads \ {t} : call'[u] = call[u]
          /\ call'[t].at \in {"idle", "close", "free"}
        BY <1>0, <2>1, <2>2, <2>3, <2>4, EndEffect DEF Typed
    <2> QED BY <1>9, <2>1, <2>5
<1>10. CASE \/ ReturnValue(t)
            \/ container_close_returns(t) /\ ~(call[t].ok /\ ioHandle)
    <2>1. /\ Drop(t, object, call[t].self) /\ UNCHANGED <<ioLock, position>>
          /\ call[t] # Idle
        BY <1>0, <1>10 DEF ReturnValue, container_close_returns
    <2>2. call[t].self \in Objects /\ object[call[t].self].kind # "none"
        BY <2>1, BusyThreads DEF RefInv
    <2>3. /\ \A u \in Threads \ {t} : call'[u] = call[u]
          /\ IterationsStay
          /\ call'[t].at \notin {"read", "reading"} /\ call'[t].item = -1
        BY <1>6, <2>1, <2>2 DEF RefInv
    <2> QED BY <2>1, <2>3
<1>11. CASE container_open_returns(t)
    <2> DEFINE o == call[t].self
    <2>1. call[t].gives \in {"opened", "container"} /\ UNCHANGED <<ioLock, position>>
        BY <1>11 DEF container_open_returns, Opens
    <2>2. call[t] # Idle
        BY <1>0, <2>1
    <2>3. MethodCall(object, call[t])
        BY <2>1, TargetIsKept
    <2>4. o \in Objects /\ object[o].kind = "container"
        BY <2>1, <2>3 DEF MethodCall
    <2>5. /\ \A u \in Threads \ {t} : call'[u] = call[u]
          /\ call'[t].item = -1 /\ call'[t].at \in {"idle", "close", "free"}
        <3>1. ASSUME NEW at PROVE Dealloc(o, at).item = -1 /\ Dealloc(o, at).at = at
            BY <1>0 DEF Dealloc, CallRecord
        <3> QED BY <1>0, <1>11, <3>1 DEF container_open_returns, Typed
    <2>6. IterationsStay
        <3>1. CASE call[t].gives = "container" /\ call[t].ok
            BY <1>11, <3>1 DEF container_open_returns, IterationsStay
        <3>2. CASE ~(call[t].gives = "container" /\ call[t].ok)
            <4>1. ~IsLastOfSequence(object, o)
                BY <2>4 DEF IsLastOfSequence, SequenceKinds
            <4>2. object' = DecRef(object, o)
                BY <1>11, <3>2 DEF container_open_returns
            <4>3. object' = [object EXCEPT ![o].refs = @ - 1]
                BY <4>1, <4>2 DEF DecRef
            <4>4. object[o].refs >= 1
                <5>1. t \in Calling(call, o)
                    BY <2>1 DEF Calling
                <5> QED BY <2>4, <5>1, KeptObjects DEF RefInv
            <4>5. OnlyRefs(object', object, o, object[o].refs - 1)
                BY <1>0, <2>4, <4>3, <4>4, LessRefEffect DEF Typed
            <4> QED BY <4>5 DEF OnlyRefs, IterationsStay
        <3> QED BY <3>1, <3>2
    <2> QED BY <2>1, <2>5, <2>6
<1>12. CASE DeallocFrees(t)
    <2>1. object' = object /\ UNCHANGED <<ioLock, position>>
        BY <1>12 DEF DeallocFrees
    <2>2. /\ \A u \in Threads \ {t} : call'[u] = call[u]
          /\ call'[t].at = "freed"
          /\ call'[t].item = call[t].item /\ call'[t].self = call[t].self
        BY <1>0, <1>12 DEF DeallocFrees, Typed, CallRecord
    <2>3. IterationsStay
        BY <2>1 DEF IterationsStay
    <2> QED BY <2>1, <2>2, <2>3
<1>13. CASE DeallocDropsParent(t)
    <2> DEFINE o == call[t].self
               q == object[o].parent
               gone == [object EXCEPT ![o] = NotThere]
    <2>1. call[t] # Idle /\ UNCHANGED <<ioLock, position>>
        BY <1>0, <1>13 DEF DeallocDropsParent
    <2>2. o \in Objects
        BY <2>1, BusyThreads DEF RefInv
    <2>3. \A p \in Objects : \/ SameButRefs(gone[p], NotThere)
                             \/ gone[p] = object[p]
        BY <1>0, <2>2 DEF Typed, SameButRefs
    <2>4. CASE q = NoObject
        <3>1. object' = gone /\ call' = [call EXCEPT ![t] = Idle]
            BY <1>13, <2>4 DEF DeallocDropsParent
        <3>2. /\ \A u \in Threads \ {t} : call'[u] = call[u]
              /\ call'[t].item = -1 /\ call'[t].at = "idle"
            BY <1>0, <3>1 DEF Typed
        <3> HIDE DEF gone
        <3>3. IterationsStay
            BY <2>3, <3>1 DEF IterationsStay
        <3> QED BY <2>1, <3>2, <3>3
    <2>5. CASE q # NoObject
        <3>1. Drop(t, gone, q)
            BY <1>13, <2>5 DEF DeallocDropsParent
        <3>2. Good(gone, app, handle, [call EXCEPT ![t] = Idle], q)
              /\ q \in Objects /\ gone[q].kind # "none"
            BY <1>13, <2>5, DeallocatedGoes
        <3> HIDE DEF gone, q
        <3>3. /\ \A u \in Threads \ {t} : call'[u] = call[u]
              /\ IterationsStay
              /\ call'[t].at \notin {"read", "reading"} /\ call'[t].item = -1
            BY <1>6, <2>3, <3>1, <3>2
        <3> QED BY <2>1, <3>3
    <2> QED BY <2>4, <2>5
<1>14. CASE Application(t)
    <2>1. CASE container_init(t) \/ open_new_container_with_file_object(t)
        BY <1>1, <2>1
    <2>2. CASE \E o \in Objects : \/ \E m : CallMethod(t, o, m)
                                \/ \E m : CallExclusive(t, o, m)
                                \/ sequence_getitem(t, o)
        BY <1>3, <2>2
    <2>3. CASE \E o \in Objects : sequence_iter(t, o)
        BY <1>0, <1>4, <2>3
    <2>4. CASE \E o \in Objects : sequence_iternext(t, o)
        BY <1>5, <2>4
    <2>5. CASE \E o \in Objects : ReleaseReference(t, o)
        BY <1>7, <2>5
    <2>6. CASE \E o \in Objects : container_open_file_object_refused(t, o)
        <3>1. UNCHANGED <<object, call, ioLock, position>> /\ call[t] = Idle
            BY <2>6, IdleThreads DEF container_open_file_object_refused, CanCall
        <3> QED BY <1>0, <3>1 DEF IterationsStay
    <2> QED BY <1>14, <2>1, <2>2, <2>3, <2>4, <2>5, <2>6 DEF Application
<1> QED BY <1>8, <1>9, <1>10, <1>11, <1>12, <1>13, <1>14 DEF Waits, Works, GoesOn

\* A thread that reads has the lock of the file IO handle, and the file-like
\* object is where the thread left it.
ReadInv ==
    \A t \in Threads : call[t].at \in {"read", "reading"} =>
        ioLock = t /\ position = call[t].target

\* A thread that iterates is the only one that iterates over its sequence, and
\* gets the item that comes next.
IterInv ==
    /\ IterationIsExact
    /\ \A t \in Threads : call[t].item # -1 =>
          call[t].item = object[call[t].self].current_index
    /\ \A t, u \in Threads :
          /\ call[t].item # -1 /\ call[u].item # -1
          /\ call[t].self = call[u].self
          => t = u

\* Every step of the specification keeps reads where they were asked.
LEMMA ReadsNext ==
    ASSUME RefInv, ReadInv, [Next]_vars
    PROVE  ReadInv'
<1>1. CASE UNCHANGED vars
    BY <1>1 DEF vars, ReadInv
<1>2. ASSUME NEW t \in Threads, Application(t) \/ Waits(t) \/ Works(t)
      PROVE  ReadInv'
    <2>0. /\ \A u \in Threads \ {t} : call'[u] = call[u]
          /\ \/ file_object_io_handle_seek_offset(t) \/ file_object_io_handle_read(t)
             \/ file_object_read_buffer(t)
             \/ UNCHANGED <<ioLock, position>> /\ call'[t].at \notin {"read", "reading"}
          /\ call \in [Threads -> CallRecord] /\ call[t] \in CallRecord
        BY <1>2, StepEffect DEF RefInv, Good, Typed
    <2>1. CASE file_object_io_handle_seek_offset(t)
        <3>1. /\ ioLock = NoThread /\ ioLock' = t /\ position' = call[t].target
              /\ call'[t].target = call[t].target
            BY <2>0, <2>1 DEF file_object_io_handle_seek_offset, CallRecord
        <3>2. \A u \in Threads \ {t} : call'[u].at \notin {"read", "reading"}
            BY <2>0, <3>1, NamesAssumption DEF ReadInv
        <3> QED BY <3>1, <3>2 DEF ReadInv
    <2>2. CASE file_object_io_handle_read(t)
        <3>1. /\ call[t].at = "read" /\ UNCHANGED <<ioLock, position>>
              /\ call'[t].target = call[t].target
            BY <2>0, <2>2 DEF file_object_io_handle_read, CallRecord
        <3> QED BY <2>0, <3>1 DEF ReadInv
    <2>3. CASE file_object_read_buffer(t)
        <3>1. call[t].at = "reading" /\ call'[t].at = "library"
            BY <2>0, <2>3 DEF file_object_read_buffer, CallRecord
        <3>2. \A u \in Threads \ {t} : call'[u].at \notin {"read", "reading"}
            BY <2>0, <3>1 DEF ReadInv
        <3> QED BY <3>1, <3>2 DEF ReadInv
    <2>4. CASE UNCHANGED <<ioLock, position>> /\ call'[t].at \notin {"read", "reading"}
        BY <2>0, <2>4 DEF ReadInv
    <2> QED BY <2>0, <2>1, <2>2, <2>3, <2>4
<1> QED BY <1>1, <1>2 DEF Next

\* A sequence that is not iterated over yet, or that moves on by an item.
LEMMA ItemsInOrder ==
    /\ <<>> = [i \in 1 .. 0 |-> i - 1]
    /\ \A n \in Nat : Append([i \in 1 .. n |-> i - 1], n) = [i \in 1 .. n + 1 |-> i - 1]
<1>1. <<>> = [i \in 1 .. 0 |-> i - 1]
    OBVIOUS
<1>2. ASSUME NEW n \in Nat
      PROVE  Append([i \in 1 .. n |-> i - 1], n) = [i \in 1 .. n + 1 |-> i - 1]
    <2> DEFINE s == [i \in 1 .. n |-> i - 1]
    <2>1. s \in Seq(Int) /\ Len(s) = n
        OBVIOUS
    <2>2. /\ Len(Append(s, n)) = n + 1 /\ Append(s, n) \in Seq(Int)
          /\ \A i \in 1 .. n : Append(s, n)[i] = s[i]
          /\ Append(s, n)[n + 1] = n
        <3> HIDE DEF s
        <3> QED BY <2>1
    <2>3. \A i \in 1 .. n + 1 : Append(s, n)[i] = i - 1
        BY <2>2
    <2>4. DOMAIN Append(s, n) = 1 .. n + 1
        BY <2>2
    <2> QED BY <2>2, <2>3, <2>4
<1> QED BY <1>1, <1>2

\* Every step of the specification keeps iterations exact.
LEMMA IterationsNext ==
    ASSUME RefInv, IterInv, RefInv', [Next]_vars
    PROVE  IterInv'
<1>0. /\ object \in [Objects -> Object] /\ call \in [Threads -> CallRecord]
      /\ \A u \in Threads : call[u].item # -1 =>
            call[u].self \in Objects /\ object[call[u].self].kind # "none"
      /\ \A u \in Threads : call'[u].item # -1 =>
            call'[u].self \in Objects /\ object'[call'[u].self].kind # "none"
    <2>1. Idle.item = -1
        BY DEF Idle
    <2>2. \A u \in Threads : call[u].item # -1 =>
             call[u].self \in Objects /\ object[call[u].self].kind # "none"
        BY <2>1, BusyThreads DEF RefInv
    <2>3. \A u \in Threads : call'[u].item # -1 =>
             call'[u].self \in Objects /\ object'[call'[u].self].kind # "none"
        BY <2>1, BusyThreads DEF RefInv
    <2> QED BY <2>2, <2>3 DEF RefInv, Good, Typed
<1>1. CASE UNCHANGED vars
    BY <1>1 DEF vars, IterInv, IterationIsExact
<1>2. ASSUME NEW t \in Threads, Application(t) \/ Waits(t) \/ Works(t)
      PROVE  IterInv'
    <2>1. /\ \A u \in Threads \ {t} : call'[u] = call[u]
          /\ \/ ReturnObject(t)
             \/ \E s \in Objects : sequence_iternext(t, s)
             \/ /\ IterationsStay
                /\ \/ call'[t].item = -1
                   \/ call'[t].item = call[t].item /\ call'[t].self = call[t].self
        BY <1>2, StepEffect
    <2>2. CASE /\ IterationsStay
               /\ \/ call'[t].item = -1
                  \/ call'[t].item = call[t].item /\ call'[t].self = call[t].self
        <3>1. IterationIsExact'
            BY <2>2, ItemsInOrder
                DEF IterationsStay, SameButRefs, NotThere, IterInv, IterationIsExact
        <3>2. \A u \in Threads : call'[u].item # -1 =>
                 call'[u].item = call[u].item /\ call'[u].self = call[u].self
            BY <2>1, <2>2
        <3>3. ASSUME NEW u \in Threads, call'[u].item # -1
              PROVE  call'[u].item = object'[call'[u].self].current_index
            <4> DEFINE p == call'[u].self
            <4>1. p \in Objects /\ object'[p].kind # "none"
                BY <1>0, <3>3
            <4>2. object'[p].current_index = object[p].current_index
                BY <2>2, <4>1 DEF IterationsStay, SameButRefs, NotThere
            <4> QED BY <3>2, <3>3, <4>2 DEF IterInv
        <3> QED BY <3>1, <3>2, <3>3 DEF IterInv
    <2>3. CASE \E s \in Objects : sequence_iternext(t, s)
        <3>1. PICK s \in Objects : sequence_iternext(t, s)
            BY <2>3
        <3>2. /\ object' = IncRef(object, s)
              /\ call'[t].item = object[s].current_index /\ call'[t].self = s
            BY <1>0, <3>1 DEF sequence_iternext, CallItem, Start
        <3>3. OnlyRefs(object', object, s, object[s].refs + 1)
            BY <1>0, <3>2, IncRefEffect
        <3>4. \A p \in Objects : /\ object'[p].current_index = object[p].current_index
                                 /\ object'[p].given = object[p].given
            BY <3>3 DEF OnlyRefs
        <3>5. \A u \in Threads \ {t} : call'[u].self = s => call'[u].item = -1
            BY <2>1, <3>1 DEF sequence_iternext, CallsOn
        <3>6. IterationIsExact'
            BY <3>4 DEF IterInv, IterationIsExact
        <3>7. ASSUME NEW u \in Threads, call'[u].item # -1
              PROVE  call'[u].item = object'[call'[u].self].current_index
            <4>1. CASE u = t
                BY <3>2, <3>4, <4>1
            <4>2. CASE u # t
                BY <1>0, <2>1, <3>4, <3>7, <4>2 DEF IterInv
            <4> QED BY <4>1, <4>2
        <3>8. ASSUME NEW u \in Threads, NEW v \in Threads, call'[u].item # -1,
                     call'[v].item # -1, call'[u].self = call'[v].self
              PROVE  u = v
            <4>1. CASE u = t \/ v = t
                BY <3>2, <3>5, <3>8, <4>1
            <4>2. CASE u # t /\ v # t
                BY <2>1, <3>8, <4>2 DEF IterInv
            <4> QED BY <4>1, <4>2
        <3> QED BY <3>6, <3>7, <3>8 DEF IterInv
    <2>4. CASE ReturnObject(t)
        <3> DEFINE n == NewObject
                   self == call[t].self
                   moved == MoveOn(object_new(object, call[t].gives,
                                       ParentOf(call[t].gives, call[t].target)), t)
        <3>1. MakesObject(call[t].gives) /\ Free # {} /\ Drop(t, moved, self)
            BY <2>4 DEF ReturnObject
        <3>2. /\ Good(moved, app', handle', call, NoObject)
              /\ n \in Objects /\ object[n].kind = "none"
              /\ moved[n].current_index = 0 /\ moved[n].given = <<>>
              /\ \A p \in Objects \ {n} :
                    /\ moved[p].kind = object[p].kind
                    /\ call[t].item = -1 \/ p # self =>
                          /\ moved[p].current_index = object[p].current_index
                          /\ moved[p].given = object[p].given
              /\ call[t].item # -1 =>
                    /\ moved[self].current_index = object[self].current_index + 1
                    /\ moved[self].given = Append(object[self].given, call[t].item)
            BY <2>4, <3>1, MadeKeeps DEF ReturnObject
        <3>3. self \in Objects /\ object[self].kind # "none"
            <4>1. call[t] # Idle
                BY <2>4 DEF ReturnObject, Idle
            <4> QED BY <4>1, BusyThreads DEF RefInv
        <3>4. moved[self].kind # "none"
            BY <3>2, <3>3
        <3> HIDE DEF moved, n
        <3>5. /\ \A p \in Objects : \/ SameButRefs(object'[p], NotThere)
                                    \/ SameButRefs(object'[p], moved[p])
              /\ call'[t].item = -1
            BY <1>0, <3>1, <3>2, <3>3, <3>4, EndEffect
        <3>6. ASSUME NEW p \in Objects
              PROVE  moved[p].given = [i \in 1 .. moved[p].current_index |-> i - 1]
            <4>0. /\ object[p].current_index \in Nat
                  /\ object[p].given = [i \in 1 .. object[p].current_index |-> i - 1]
                BY <1>0 DEF Object, IterInv, IterationIsExact
            <4>1. CASE p = n
                BY <3>2, <4>1, ItemsInOrder
            <4>2. CASE p # n /\ (call[t].item = -1 \/ p # self)
                BY <3>2, <4>0, <4>2
            <4>3. CASE p = self /\ call[t].item # -1
                <5>1. call[t].item = object[p].current_index
                    BY <4>3 DEF IterInv
                <5> QED BY <3>2, <4>0, <4>3, <5>1, ItemsInOrder
            <4> QED BY <4>1, <4>2, <4>3
        <3>7. IterationIsExact'
            BY <3>5, <3>6, ItemsInOrder DEF IterationIsExact, SameButRefs, NotThere
        <3>8. ASSUME NEW u \in Threads, call'[u].item # -1
              PROVE  call'[u].item = object'[call'[u].self].current_index
            <4> DEFINE p == call'[u].self
            <4>1. u # t /\ call'[u] = call[u]
                BY <2>1, <3>5, <3>8
            <4>2. p \in Objects /\ object[p].kind # "none" /\ object'[p].kind # "none"
                BY <1>0, <3>8, <4>1
            <4>3. call[t].item = -1 \/ p # self
                BY <3>8, <4>1 DEF IterInv
            <4>4. moved[p].current_index = object[p].current_index
                BY <3>2, <4>2, <4>3
            <4>5. SameButRefs(object'[p], moved[p])
                BY <3>5, <4>2 DEF SameButRefs, NotThere
            <4>6. call[u].item = object[p].current_index
                BY <3>8, <4>1 DEF IterInv
            <4> QED BY <4>1, <4>4, <4>5, <4>6 DEF SameButRefs
        <3>9. ASSUME NEW u \in Threads, NEW v \in Threads, call'[u].item # -1,
                     call'[v].item # -1, call'[u].self = call'[v].self
              PROVE  u = v
            BY <2>1, <3>5, <3>9 DEF IterInv
        <3> QED BY <3>7, <3>8, <3>9 DEF IterInv
    <2> QED BY <2>1, <2>2, <2>3, <2>4
<1> QED BY <1>1, <1>2 DEF Next

\* Whatever other threads read between the seek and the read, the file-like object
\* is read at the offset the library asked for
\* (pyfsapfs_file_object_io_handle_seek_offset, pyfsapfs_file_object_io_handle_read).
THEOREM ReadsStayWhereAsked == Spec => []ReadsAreWhereAsked
<1>1. Init => RefInv /\ OpenInv /\ ReadInv
    <2>1. Init => ReadInv
        BY DEF Init, ReadInv, Idle
    <2> QED BY <2>1, RefInvInit, OpenInvInit
<1>2. RefInv /\ OpenInv /\ ReadInv /\ [Next]_vars => RefInv' /\ OpenInv' /\ ReadInv'
    BY CountsNext, ReadsNext
<1>3. ReadInv => ReadsAreWhereAsked
    BY DEF ReadInv, ReadsAreWhereAsked
<1> QED BY <1>1, <1>2, <1>3, PTL DEF Spec

\* Whatever fails and whatever other threads do meanwhile, an iteration gives every
\* item once and in order (pyfsapfs_volumes_iternext, pyfsapfs_file_entries_iternext,
\* pyfsapfs_extended_attributes_iternext).
THEOREM IterationsAreExact == Spec => []IterationIsExact
<1>1. Init => RefInv /\ OpenInv /\ IterInv
    <2>1. Init => IterInv
        BY ItemsInOrder DEF Init, IterInv, IterationIsExact, Idle, NotThere
    <2> QED BY <2>1, RefInvInit, OpenInvInit
<1>2. RefInv /\ OpenInv /\ IterInv /\ [Next]_vars => RefInv' /\ OpenInv' /\ IterInv'
    BY CountsNext, IterationsNext
<1>3. IterInv => IterationIsExact
    BY DEF IterInv
<1> QED BY <1>1, <1>2, <1>3, PTL DEF Spec
=============================================================================
