---------------------------- MODULE MountProofs ----------------------------
(***************************************************************************)
(* Proofs about Mount, for every container, every set of handles, paths,   *)
(* names and sizes: however the calls of the library fail, a callback of   *)
(* FUSE frees each file entry that it got exactly once, and what it answers*)
(* is about the file entry at the path and complete.                       *)
(***************************************************************************)
EXTENDS Mount, FiniteSetTheorems, WellFoundedInduction, SequenceTheorems, TLAPS

\* The file entries that a callback may hold.
Flags == {"file_entry", "parent", "sub"}

\* What a callback keeps.
Fields ==
    Flags \cup {"op", "path", "lookup", "handle", "name", "size", "pc", "index", "total", "found",
                "list_offset", "attribute", "out"}

\* What NewCall makes: a callback that holds nothing.
Fresh(new) ==
    /\ new # NoCall
    /\ DOMAIN new = Fields
    /\ \A f \in Flags : new[f] = FALSE
    /\ new.lookup.result = 1 => new.lookup.id # 0

\* The handles that are open.
Opened == {h \in Handles : fh[h] # 0}

\* The callbacks that begin with a path.
PathOps == {"open", "opendir", "getattr", "readlink", "getxattr", "listxattr"}

\* The callback that runs is one that NewCall made.  While it looks up its path
\* it holds nothing, and the handle that it opens stays free.
CallOK ==
    call # NoCall =>
        /\ Fields = DOMAIN call
        /\ call.pc = "path" => /\ call.op \in PathOps
                               /\ \A f \in Flags : call[f] = FALSE
                               /\ call.lookup.result = 1 => call.lookup.id # 0
        /\ call.op \in {"open", "opendir"} =>
               call.pc = "path" /\ call.handle \in Handles /\ fh[call.handle] = 0

Shape == DOMAIN fh = Handles /\ CallOK

Inv == Shape /\ EntriesAreHeld

----------------------------------------------------------------------------
(* Counting.                                                               *)

LEMMA FlagsFinite == \A c : IsFiniteSet({f \in Flags : c[f]})
<1>1. IsFiniteSet({}) BY FS_EmptySet
<1>2. IsFiniteSet({} \cup {"file_entry"}) BY <1>1, FS_AddElement
<1>3. IsFiniteSet(({} \cup {"file_entry"}) \cup {"parent"}) BY <1>2, FS_AddElement
<1>4. IsFiniteSet((({} \cup {"file_entry"}) \cup {"parent"}) \cup {"sub"}) BY <1>3, FS_AddElement
<1>5. Flags = (({} \cup {"file_entry"}) \cup {"parent"}) \cup {"sub"} BY DEF Flags
<1>6. IsFiniteSet(Flags) BY <1>4, <1>5
<1> QED BY <1>6, FS_Subset

LEMMA OwnedIsNat == \A c : Owned(c) \in Nat
<1> SUFFICES ASSUME NEW c PROVE Owned(c) \in Nat OBVIOUS
<1>1. Owned(c) = Cardinality({f \in Flags : c[f]}) BY Zenon DEF Owned, Flags
<1> QED BY <1>1, FlagsFinite, FS_CardinalityType

\* A callback that gets one more file entry owns one more.
LEMMA OwnsOneMore ==
    ASSUME NEW c, NEW d, NEW g \in Flags, ~c[g], d[g], \A f \in Flags \ {g} : d[f] = c[f]
    PROVE  Owned(d) = Owned(c) + 1
<1>1. {f \in Flags : d[f]} = {f \in Flags : c[f]} \cup {g} BY Zenon
<1>2. g \notin {f \in Flags : c[f]} BY Zenon
<1>3. Cardinality({f \in Flags : c[f]} \cup {g}) = Cardinality({f \in Flags : c[f]}) + 1
  BY <1>2, FlagsFinite, FS_AddElement
<1>4. Owned(c) = Cardinality({f \in Flags : c[f]}) BY Zenon DEF Owned, Flags
<1>5. Owned(d) = Cardinality({f \in Flags : d[f]}) BY Zenon DEF Owned, Flags
<1> QED BY <1>1, <1>3, <1>4, <1>5

LEMMA OwnsAsMany ==
    ASSUME NEW c, NEW d, \A f \in Flags : d[f] = c[f]
    PROVE  Owned(d) = Owned(c)
<1>1. {f \in Flags : d[f]} = {f \in Flags : c[f]} BY Zenon
<1> QED BY <1>1, Zenon DEF Owned, Flags

LEMMA OwnsNothing ==
    ASSUME NEW c, \A f \in Flags : c[f] = FALSE
    PROVE  Owned(c) = 0
<1>1. {f \in Flags : c[f]} = {} BY Zenon
<1>2. Owned(c) = Cardinality({}) BY <1>1, Zenon DEF Owned, Flags
<1> QED BY <1>2, FS_EmptySet

LEMMA OpenedFinite == IsFiniteSet(Opened) /\ Cardinality(Opened) \in Nat
BY HandlesAssumption, FS_Subset, FS_CardinalityType DEF Opened

\* What EntriesAreHeld counts.
LEMMA Held ==
    EntriesAreHeld <=> entries = Cardinality(Opened) + (IF call = NoCall THEN 0 ELSE Owned(call))
BY DEF EntriesAreHeld, Opened

----------------------------------------------------------------------------
(* Steps of a callback.                                                    *)

\* A callback that begins has no file entry yet.
LEMMA BeginInv ==
    ASSUME Inv, NEW new, Begin(new), Fresh(new),
           new.pc = "path" => new.op \in PathOps,
           new.op \in {"open", "opendir"} =>
               new.pc = "path" /\ new.handle \in Handles /\ fh[new.handle] = 0
    PROVE  Inv'
<1>1. call = NoCall /\ call' = new /\ fh' = fh /\ entries' = entries BY DEF Begin, Idle
<1>2. Owned(new) = 0 BY OwnsNothing DEF Fresh
<1>3. EntriesAreHeld' BY <1>1, <1>2, OpenedFinite DEF Inv, EntriesAreHeld, Opened, Fresh
<1>4. Shape' BY <1>1 DEF Inv, Shape, CallOK, Fresh
<1> QED BY <1>3, <1>4 DEF Inv

LEMMA NewCallFacts ==
    ASSUME NEW op, NEW path, NEW handle, NEW name, NEW size
    PROVE  /\ Fresh(NewCall(op, path, handle, name, size))
           /\ NewCall(op, path, handle, name, size).op = op
           /\ NewCall(op, path, handle, name, size).handle = handle
           /\ NewCall(op, path, handle, name, size).pc = "path"
<1> DEFINE new == NewCall(op, path, handle, name, size)
<1>1. new.lookup = mount_handle_get_file_entry_by_path(path) BY DEF NewCall
<1>2. new.lookup.result = 1 => new.lookup.id # 0
  BY <1>1 DEF mount_handle_get_file_entry_by_path
<1>3. DOMAIN new = Fields BY DEF NewCall, Fields, Flags
<1>4. new # NoCall
  <2>1. DOMAIN NoCall = {"op"} BY DEF NoCall
  <2>2. "pc" \in DOMAIN new BY <1>3 DEF Fields
  <2> QED BY <2>1, <2>2
<1>5. \A f \in Flags : new[f] = FALSE BY DEF NewCall, Flags
<1>6. new.op = op /\ new.handle = handle /\ new.pc = "path" BY DEF NewCall
<1> QED BY <1>2, <1>3, <1>4, <1>5, <1>6 DEF Fresh

\* A callback that answers frees all that it owns.
LEMMA AnswersInv ==
    ASSUME Inv, call # NoCall, call' = NoCall, entries' = entries - Owned(call), fh' = fh
    PROVE  Inv'
<1>1. EntriesAreHeld' BY OpenedFinite, OwnedIsNat DEF Inv, EntriesAreHeld, Opened
<1>2. Shape' BY DEF Inv, Shape, CallOK
<1> QED BY <1>1, <1>2 DEF Inv

LEMMA FailsInv ==
    ASSUME Inv, call # NoCall, NEW errno, NEW failed, Fails(errno, failed)
    PROVE  Inv'
BY AnswersInv DEF Fails, Finish, OnErrorFrees

LEMMA SucceedsInv ==
    ASSUME Inv, call # NoCall, NEW errno, NEW count, NEW value, Succeeds(errno, count, value)
    PROVE  Inv'
BY AnswersInv DEF Succeeds, Finish

\* A callback that goes on counts what it gets and what it frees.
LEMMA AdvanceInv ==
    ASSUME Inv, call # NoCall, NEW new, Advance(new),
           DOMAIN new = DOMAIN call, new.pc # "path", new.op = call.op,
           call.op \notin {"open", "opendir"},
           entries' - entries = Owned(new) - Owned(call), entries' \in Int
    PROVE  Inv'
<1>1. call' = new /\ fh' = fh BY DEF Advance
<1>2. new # NoCall
  <2>1. DOMAIN NoCall = {"op"} BY DEF NoCall
  <2>2. "pc" \in DOMAIN new BY DEF Inv, Shape, CallOK, Fields
  <2> QED BY <2>1, <2>2
<1>3. EntriesAreHeld' BY <1>1, <1>2, OpenedFinite, OwnedIsNat DEF Inv, EntriesAreHeld, Opened
<1>4. Shape' BY <1>1, <1>2 DEF Inv, Shape, CallOK
<1> QED BY <1>3, <1>4 DEF Inv

LEMMA LookUpInv ==
    ASSUME Inv, LookUp
    PROVE  Inv'
<1>0. call # NoCall /\ call.pc = "path" /\ Owned(call) = 0
  BY OwnsNothing DEF LookUp, Inv, Shape, CallOK
<1>1. entries = Cardinality(Opened) /\ entries \in Int
  BY <1>0, OpenedFinite DEF Inv, EntriesAreHeld, Opened
<1>2. CASE call.lookup.result # 1
  <2>1. call' = NoCall /\ entries' = entries - Owned(call) /\ fh' = fh
    BY <1>0, <1>1, <1>2 DEF LookUp, Finish
  <2> QED BY <1>0, <2>1, AnswersInv
<1>3. CASE call.lookup.result = 1 /\ call.op \in {"open", "opendir"}
  <2> DEFINE h == call.handle
  <2>1. /\ entries' = entries + 1 /\ call' = NoCall
        /\ fh' = [fh EXCEPT ![h] = call.lookup.id]
    BY <1>3 DEF LookUp
  <2>2. h \in Handles /\ fh[h] = 0 /\ call.lookup.id # 0 /\ DOMAIN fh = Handles
    BY <1>0, <1>3 DEF Inv, Shape, CallOK
  <2>3. Opened' = Opened \cup {h} /\ h \notin Opened
    BY <2>1, <2>2 DEF Opened
  <2>4. Cardinality(Opened') = Cardinality(Opened) + 1
    BY <2>3, OpenedFinite, FS_AddElement
  <2>5. EntriesAreHeld' BY <2>1, <2>4, <1>1, OpenedFinite DEF EntriesAreHeld, Opened
  <2>6. Shape' BY <2>1, <2>2 DEF Shape, CallOK
  <2> QED BY <2>5, <2>6 DEF Inv
<1>4. CASE call.lookup.result = 1 /\ call.op \notin {"open", "opendir"}
  <2> DEFINE new == [call EXCEPT !.pc = After(call.op), !.found = call.lookup.id,
                                 !.file_entry = TRUE]
  <2>1. entries' = entries + 1 /\ call' = new /\ UNCHANGED <<image, options, phase, mount, fh, answer>>
    BY <1>4 DEF LookUp
  <2>2. Flags \cup {"op", "pc", "found"} \subseteq DOMAIN call
    BY <1>0 DEF Inv, Shape, CallOK, Fields
  <2>3. Owned(new) = Owned(call) + 1
    <3>1. ~call["file_entry"] BY <1>0 DEF Inv, Shape, CallOK, Flags
    <3>2. new["file_entry"] BY <2>2 DEF Flags
    <3>3. \A f \in Flags \ {"file_entry"} : new[f] = call[f]
      <4>1. new["parent"] = call["parent"] /\ new["sub"] = call["sub"] BY <2>2 DEF Flags
      <4> QED BY <4>1 DEF Flags
    <3>4. "file_entry" \in Flags BY DEF Flags
    <3> HIDE DEF new
    <3> QED BY <3>1, <3>2, <3>3, <3>4, OwnsOneMore
  <2>4. new.pc # "path" /\ new.op = call.op /\ DOMAIN new = DOMAIN call
    <3>1. call.op \in PathOps \ {"open", "opendir"} BY <1>0, <1>4 DEF Inv, Shape, CallOK
    <3>2. After(call.op) # "path" BY <3>1 DEF After, PathOps
    <3> QED BY <2>2, <3>2
  <2> HIDE DEF new
  <2>5. Advance(new) BY <2>1 DEF Advance
  <2>6. entries' - entries = Owned(new) - Owned(call) /\ entries' \in Int
    BY <1>0, <1>1, <2>1, <2>3
  <2> QED BY <1>0, <1>4, <2>4, <2>5, <2>6, AdvanceInv
<1> QED BY <1>2, <1>3, <1>4

\* A step after the path was looked up that gets or frees nothing.
LEMMA QuietInv ==
    ASSUME Inv, call # NoCall, call.pc # "path", UNCHANGED entries, NEW new, Advance(new),
           DOMAIN new = DOMAIN call, new.pc # "path", new.op = call.op,
           \A f \in Flags : new[f] = call[f]
    PROVE  Inv'
<1>1. Owned(new) = Owned(call) BY OwnsAsMany
<1>2. entries \in Int BY OpenedFinite, OwnedIsNat DEF Inv, EntriesAreHeld, Opened
<1>3. call.op \notin {"open", "opendir"} BY DEF Inv, Shape, CallOK
<1>4. entries' - entries = Owned(new) - Owned(call) /\ entries' \in Int
  BY <1>1, <1>2, OwnedIsNat
<1> QED BY <1>3, <1>4, AdvanceInv

\* A step that gets the file entry of a flag, and one that frees it.
LEMMA GetInv ==
    ASSUME Inv, call # NoCall, call.pc # "path", NEW new, Advance(new),
           DOMAIN new = DOMAIN call, new.pc # "path", new.op = call.op,
           NEW g \in Flags, \A f \in Flags \ {g} : new[f] = call[f],
           \/ entries' = entries + 1 /\ ~call[g] /\ new[g]
           \/ entries' = entries - 1 /\ call[g] /\ ~new[g]
    PROVE  Inv'
<1>2. entries \in Int BY OpenedFinite, OwnedIsNat DEF Inv, EntriesAreHeld, Opened
<1>3. call.op \notin {"open", "opendir"} BY DEF Inv, Shape, CallOK
<1>4. CASE entries' = entries + 1 /\ ~call[g] /\ new[g]
  <2>1. Owned(new) = Owned(call) + 1 BY <1>4, OwnsOneMore
  <2>2. entries' - entries = Owned(new) - Owned(call) /\ entries' \in Int
    BY <1>2, <1>4, <2>1, OwnedIsNat
  <2> QED BY <1>3, <2>2, AdvanceInv
<1>5. CASE entries' = entries - 1 /\ call[g] /\ ~new[g]
  <2>1. Owned(call) = Owned(new) + 1 BY <1>5, OwnsOneMore
  <2>2. entries' - entries = Owned(new) - Owned(call) /\ entries' \in Int
    BY <1>2, <1>5, <2>1, OwnedIsNat
  <2> QED BY <1>3, <2>2, AdvanceInv
<1> QED BY <1>4, <1>5

\* Every step of a callback after its look-up.
LEMMA StepInv ==
    ASSUME Inv, Step
    PROVE  Inv'
<1>0. call # NoCall => Flags \cup {"pc", "op", "index", "total", "list_offset", "attribute", "out"}
                       \subseteq DOMAIN call
  BY DEF Inv, Shape, CallOK, Fields
<1>1. CASE LookUp
  BY <1>1, LookUpInv
<1>2. CASE GetStat
  BY <1>2, SucceedsInv DEF GetStat
<1>3. CASE ReadLink
  BY <1>3, SucceedsInv, FailsInv DEF ReadLink
<1>4. CASE GetAttribute
  <2> DEFINE new == [call EXCEPT !.pc = "value", !.attribute = TRUE]
  <2>0. call # NoCall /\ call.pc = "attribute" BY <1>4 DEF GetAttribute
  <2>1. CASE Succeeds("ENODATA", 0, <<>>) BY <2>0, <2>1, SucceedsInv
  <2>2. CASE UNCHANGED entries /\ Advance(new)
    <3>1. /\ DOMAIN new = DOMAIN call /\ new.pc = "value" /\ new.op = call.op
          /\ \A f \in Flags : new[f] = call[f]
      BY <1>0, <2>0 DEF Flags
    <3> HIDE DEF new
    <3> QED BY <2>0, <2>2, <3>1, QuietInv
  <2> QED BY <1>4, <2>1, <2>2 DEF GetAttribute
<1>5. CASE GetAttributeValue
  BY <1>5, SucceedsInv, FailsInv DEF GetAttributeValue
<1>6. CASE CountAttributes
  <2> DEFINE new == [call EXCEPT !.pc = "next attribute", !.total = Len(Attributes)]
  <2>0. call # NoCall /\ call.pc = "count" /\ UNCHANGED entries /\ Advance(new)
    BY <1>6 DEF CountAttributes
  <2>1. /\ DOMAIN new = DOMAIN call /\ new.pc = "next attribute" /\ new.op = call.op
        /\ \A f \in Flags : new[f] = call[f]
    BY <1>0, <2>0 DEF Flags
  <2> HIDE DEF new
  <2> QED BY <2>0, <2>1, QuietInv
<1>7. CASE ListAttribute
  <2> DEFINE taken == [call EXCEPT !.index = @ + 1, !.attribute = FALSE,
                                   !.list_offset = @ + NameSize(Attributes[call.index + 1]),
                                   !.out = Append(@, call.index + 1)]
             got == [call EXCEPT !.attribute = TRUE]
  <2>0. call # NoCall /\ call.pc = "next attribute" BY <1>7 DEF ListAttribute
  <2>1. CASE Succeeds("none", call.list_offset, call.out) BY <2>0, <2>1, SucceedsInv
  <2>2. CASE Fails("EIO", FALSE) BY <2>0, <2>2, FailsInv
  <2>3. CASE UNCHANGED entries /\ Advance(taken)
    <3>1. /\ DOMAIN taken = DOMAIN call /\ taken.pc = call.pc /\ taken.op = call.op
          /\ \A f \in Flags : taken[f] = call[f]
      BY <1>0, <2>0 DEF Flags
    <3> HIDE DEF taken
    <3> QED BY <2>0, <2>3, <3>1, QuietInv
  <2>4. CASE UNCHANGED entries /\ Advance(got)
    <3>1. /\ DOMAIN got = DOMAIN call /\ got.pc = call.pc /\ got.op = call.op
          /\ \A f \in Flags : got[f] = call[f]
      BY <1>0, <2>0 DEF Flags
    <3> HIDE DEF got
    <3> QED BY <2>0, <2>4, <3>1, QuietInv
  <2> QED BY <1>7, <2>1, <2>2, <2>3, <2>4, Zenon DEF ListAttribute
<1>8. CASE FillSelf
  <2> DEFINE new == [call EXCEPT !.pc = "parent"]
  <2>0. call # NoCall /\ call.pc = "self" /\ UNCHANGED entries /\ Advance(new)
    BY <1>8 DEF FillSelf
  <2>1. /\ DOMAIN new = DOMAIN call /\ new.pc = "parent" /\ new.op = call.op
        /\ \A f \in Flags : new[f] = call[f]
    BY <1>0, <2>0 DEF Flags
  <2> HIDE DEF new
  <2> QED BY <2>0, <2>1, QuietInv
<1>9. CASE FillParent
  <2> DEFINE freed == [call EXCEPT !.pc = "count", !.parent = FALSE]
             none == [call EXCEPT !.pc = "count"]
             got == [call EXCEPT !.parent = TRUE]
  <2>0. call # NoCall /\ call.pc = "parent" /\ "parent" \in Flags
    BY <1>9 DEF FillParent, Flags
  <2>1. CASE call.parent /\ entries' = entries - 1 /\ Advance(freed)
    <3>1. /\ DOMAIN freed = DOMAIN call /\ freed.pc = "count" /\ freed.op = call.op
          /\ ~freed["parent"] /\ \A f \in Flags \ {"parent"} : freed[f] = call[f]
      BY <1>0, <2>0 DEF Flags
    <3> HIDE DEF freed
    <3> QED BY <2>0, <2>1, <3>1, GetInv
  <2>2. CASE UNCHANGED entries /\ Advance(none)
    <3>1. /\ DOMAIN none = DOMAIN call /\ none.pc = "count" /\ none.op = call.op
          /\ \A f \in Flags : none[f] = call[f]
      BY <1>0, <2>0 DEF Flags
    <3> HIDE DEF none
    <3> QED BY <2>0, <2>2, <3>1, QuietInv
  <2>3. CASE ~call.parent /\ entries' = entries + 1 /\ Advance(got)
    <3>1. /\ DOMAIN got = DOMAIN call /\ got.pc = call.pc /\ got.op = call.op
          /\ got["parent"] /\ \A f \in Flags \ {"parent"} : got[f] = call[f]
      BY <1>0, <2>0 DEF Flags
    <3> HIDE DEF got
    <3> QED BY <2>0, <2>3, <3>1, GetInv
  <2> QED BY <1>9, <2>1, <2>2, <2>3, Zenon DEF FillParent
<1>10. CASE CountSubEntries
  <2> DEFINE new == [call EXCEPT !.pc = "next entry",
                                 !.total = Cardinality(SubEntries(call.found))]
  <2>0. call # NoCall /\ call.pc = "count" /\ UNCHANGED entries /\ Advance(new)
    BY <1>10 DEF CountSubEntries
  <2>1. /\ DOMAIN new = DOMAIN call /\ new.pc = "next entry" /\ new.op = call.op
        /\ \A f \in Flags : new[f] = call[f]
    BY <1>0, <2>0 DEF Flags
  <2> HIDE DEF new
  <2> QED BY <2>0, <2>1, QuietInv
<1>11. CASE FillSubEntry
  <2> DEFINE id == SubEntry(call.found, call.index)
             freed == [call EXCEPT !.index = @ + 1, !.sub = FALSE,
                                   !.out = Append(@, mount_fuse_filldir(id))]
             got == [call EXCEPT !.sub = TRUE]
  <2>0. call # NoCall /\ call.pc = "next entry" /\ "sub" \in Flags
    BY <1>11 DEF FillSubEntry, Flags
  <2>1. CASE Succeeds("none", call.total, call.out) BY <2>0, <2>1, SucceedsInv
  <2>2. CASE call.sub /\ entries' = entries - 1 /\ Advance(freed)
    <3>1. /\ DOMAIN freed = DOMAIN call /\ freed.pc = call.pc /\ freed.op = call.op
          /\ ~freed["sub"] /\ \A f \in Flags \ {"sub"} : freed[f] = call[f]
      BY <1>0, <2>0 DEF Flags
    <3> HIDE DEF freed
    <3> QED BY <2>0, <2>2, <3>1, GetInv
  <2>3. CASE ~call.sub /\ entries' = entries + 1 /\ Advance(got)
    <3>1. /\ DOMAIN got = DOMAIN call /\ got.pc = call.pc /\ got.op = call.op
          /\ got["sub"] /\ \A f \in Flags \ {"sub"} : got[f] = call[f]
      BY <1>0, <2>0 DEF Flags
    <3> HIDE DEF got
    <3> QED BY <2>0, <2>3, <3>1, GetInv
  <2> QED BY <1>11, <2>1, <2>2, <2>3, Zenon DEF FillSubEntry
<1> QED BY <1>1, <1>2, <1>3, <1>4, <1>5, <1>6, <1>7, <1>8, <1>9, <1>10, <1>11 DEF Step

----------------------------------------------------------------------------
(* The other steps.                                                        *)

\* A callback that begins with a path.
LEMMA OpensInv ==
    ASSUME Inv, NEW op \in PathOps, NEW path, NEW h, NEW name, NEW size,
           Begin(NewCall(op, path, h, name, size)),
           op \in {"open", "opendir"} => h \in Handles /\ fh[h] = 0
    PROVE  Inv'
<1> DEFINE new == NewCall(op, path, h, name, size)
<1>1. Fresh(new) /\ new.op = op /\ new.handle = h /\ new.pc = "path"
  BY NewCallFacts
<1>2. Begin(new) OBVIOUS
<1> HIDE DEF new
<1> QED BY <1>1, <1>2, BeginInv

LEMMA ReadDirInv ==
    ASSUME Inv, mount_fuse_readdir
    PROVE  Inv'
<1>1. PICK h \in Handles :
        Begin([NewCall("readdir", <<>>, h, "", 0) EXCEPT !.pc = "self", !.found = fh[h]])
  BY DEF mount_fuse_readdir
<1> DEFINE base == NewCall("readdir", <<>>, h, "", 0)
           new == [base EXCEPT !.pc = "self", !.found = fh[h]]
<1>2. Fresh(base) /\ base.op = "readdir"
  <2>1. \A op, path, name, size : /\ Fresh(NewCall(op, path, h, name, size))
                                  /\ NewCall(op, path, h, name, size).op = op
    BY NewCallFacts
  <2> QED BY <2>1, Zenon
<1> HIDE DEF base
<1>3. /\ DOMAIN new = Fields /\ new.op = "readdir" /\ new.pc = "self"
      /\ new.lookup = base.lookup /\ \A f \in Flags : new[f] = base[f]
  BY <1>2 DEF Fresh, Fields, Flags
<1>4. Fresh(new)
  <2>1. DOMAIN NoCall = {"op"} BY DEF NoCall
  <2>2. "pc" \in DOMAIN new BY <1>3 DEF Fields
  <2>3. new # NoCall BY <2>1, <2>2
  <2> QED BY <1>2, <1>3, <2>3 DEF Fresh
<1>5. Begin(new) BY <1>1 DEF base
<1> HIDE DEF new
<1> QED BY <1>3, <1>4, <1>5, BeginInv

\* Releasing a handle frees its file entry.
LEMMA ReleaseInv ==
    ASSUME Inv, NEW op, Release(op)
    PROVE  Inv'
<1>1. PICK h \in Handles : fh[h] # 0 /\ fh' = [fh EXCEPT ![h] = 0] /\ entries' = entries - 1
  BY DEF Release
<1>2. call = NoCall /\ call' = call /\ DOMAIN fh = Handles
  BY DEF Release, Idle, Inv, Shape
<1>3. Opened' = Opened \ {h} /\ h \in Opened
  BY <1>1, <1>2 DEF Opened
<1>4. Cardinality(Opened') = Cardinality(Opened) - 1
  BY <1>3, OpenedFinite, FS_RemoveElement
<1>5. EntriesAreHeld'
  BY <1>1, <1>2, <1>4, OpenedFinite DEF Inv, EntriesAreHeld, Opened
<1>6. Shape'
  BY <1>1, <1>2 DEF Shape, CallOK
<1> QED BY <1>5, <1>6 DEF Inv

\* A step that leaves the handles, the callback and the file entries alone.
LEMMA IdleInv ==
    ASSUME Inv, UNCHANGED <<fh, call, entries>>
    PROVE  Inv'
<1>1. Shape' BY DEF Inv, Shape, CallOK
<1>2. EntriesAreHeld' BY DEF Inv, EntriesAreHeld
<1> QED BY <1>1, <1>2 DEF Inv

LEMMA InitInv == Init => Inv
<1> SUFFICES ASSUME Init PROVE Inv OBVIOUS
<1>1. Opened = {} BY DEF Init, Opened
<1>2. Cardinality(Opened) = 0 BY <1>1, FS_EmptySet
<1>3. EntriesAreHeld BY <1>2 DEF Init, EntriesAreHeld, Opened
<1>4. Shape BY DEF Init, Shape, CallOK
<1> QED BY <1>3, <1>4 DEF Inv

LEMMA NextInv ==
    ASSUME Inv, [Next]_vars
    PROVE  Inv'
<1>1. CASE Step
  BY <1>1, StepInv
<1>2. CASE LibraryFails
  BY <1>2, FailsInv DEF LibraryFails
<1>3. CASE mount_fuse_open \/ mount_fuse_opendir
  BY <1>3, OpensInv DEF mount_fuse_open, mount_fuse_opendir, OpenWith, PathOps
<1>4. CASE mount_fuse_getattr
  BY <1>4, OpensInv DEF mount_fuse_getattr, OpenWith, PathOps
<1>5. CASE mount_fuse_readlink
  BY <1>5, OpensInv DEF mount_fuse_readlink, PathOps
<1>6. CASE mount_fuse_getxattr
  BY <1>6, OpensInv DEF mount_fuse_getxattr, PathOps
<1>7. CASE mount_fuse_listxattr
  BY <1>7, OpensInv DEF mount_fuse_listxattr, PathOps
<1>8. CASE mount_fuse_readdir
  BY <1>8, ReadDirInv
<1>9. CASE mount_fuse_release \/ mount_fuse_releasedir
  BY <1>9, ReleaseInv DEF mount_fuse_release, mount_fuse_releasedir
<1>10. CASE \/ mount_handle_open \/ mount_handle_open_fails \/ fuse_mount \/ fuse_mount_fails
            \/ mount_fuse_destroy \/ mount_fuse_read \/ mount_fuse_open_for_writing
            \/ Return \/ UNCHANGED vars
  BY <1>10, IdleInv DEF mount_handle_open, mount_handle_open_fails, fuse_mount,
     fuse_mount_fails, mount_fuse_destroy, mount_fuse_read, mount_fuse_open_for_writing,
     Return, vars
<1> QED
  BY <1>1, <1>2, <1>3, <1>4, <1>5, <1>6, <1>7, <1>8, <1>9, <1>10 DEF Next

\* Every file entry of the library is held by an open handle or by the callback
\* that runs, whichever calls of the library fail: none is left behind and none
\* is freed twice (the on_error paths of mount_fuse.c).
THEOREM EntriesHeld == Spec => []EntriesAreHeld
<1>1. Init => Inv
  BY InitInv
<1>2. Inv /\ [Next]_vars => Inv'
  BY NextInv
<1>3. Inv => EntriesAreHeld
  BY DEF Inv
<1> QED BY <1>1, <1>2, <1>3, PTL DEF Spec
----------------------------------------------------------------------------
(***************************************************************************)
(* Going through a sequence, one element at a time.                        *)
(***************************************************************************)

\* Induction, for a set.
LEMMA Induct ==
    ASSUME NEW n \in Nat, NEW I, 0 \in I, \A i \in 1 .. n : i - 1 \in I => i \in I
    PROVE  \A i \in 0 .. n : i \in I
<1> SUFFICES ASSUME NEW k \in 0 .. n, k \notin I PROVE FALSE
  OBVIOUS
<1> DEFINE R == OpToRel(<, Nat)
           B == {i \in 0 .. n : i \notin I}
<1>1. IsWellFoundedOn(R, Nat)
  BY NatLessThanWellFounded
<1>2. B \subseteq Nat /\ B # {}
  OBVIOUS
<1> HIDE DEF R
<1>3. PICK b \in B : \A j \in B : ~(<<j, b>> \in R)
  BY <1>1, <1>2, WFMin
<1>4. b \in 1 .. n /\ b - 1 \in 0 .. n /\ b \in Nat /\ b - 1 \in Nat
  BY <1>3
<1>5. <<b - 1, b>> \in R
  BY <1>4 DEF R, OpToRel
<1>6. b - 1 \in I
  BY <1>3, <1>4, <1>5
<1> QED BY <1>3, <1>4, <1>6

\* The states that a start and steps lead to exist.
IsRun(f, S, n, start, g) ==
    /\ f \in [0 .. n -> S] /\ f[0] = start
    /\ \A i \in 1 .. n : f[i] = g[i][f[i - 1]]

LEMMA RunExists ==
    ASSUME NEW S, NEW start \in S, NEW n \in Nat, NEW g \in [1 .. n -> [S -> S]]
    PROVE  \E f : IsRun(f, S, n, start, g)
<1> DEFINE I == {k \in 0 .. n : \E f : IsRun(f, S, k, start, g)}
<1>1. 0 \in I
  <2>1. IsRun([i \in 0 .. 0 |-> start], S, 0, start, g)
    BY DEF IsRun
  <2> QED BY <2>1
<1>2. ASSUME NEW k \in 1 .. n, k - 1 \in I PROVE k \in I
  <2>1. PICK f : IsRun(f, S, k - 1, start, g)
    BY <1>2
  <2> DEFINE h == [i \in 0 .. k |-> IF i = k THEN g[k][f[k - 1]] ELSE f[i]]
  <2>2. /\ f \in [0 .. k - 1 -> S] /\ f[0] = start
        /\ \A i \in 1 .. k - 1 : f[i] = g[i][f[i - 1]]
    BY <2>1 DEF IsRun
  <2>3. f[k - 1] \in S /\ g[k] \in [S -> S]
    BY <2>2
  <2>4. g[k][f[k - 1]] \in S
    BY <2>3
  <2>5. \A i \in 0 .. k : i = k \/ i \in 0 .. k - 1
    OBVIOUS
  <2>6. h \in [0 .. k -> S] /\ h[0] = start
    BY <2>2, <2>4, <2>5
  <2>7. ASSUME NEW i \in 1 .. k PROVE h[i] = g[i][h[i - 1]]
    <3>1. h[i - 1] = f[i - 1]
      OBVIOUS
    <3>2. CASE i = k
      BY <3>1, <3>2
    <3>3. CASE i # k
      <4>1. i \in 1 .. k - 1 /\ h[i] = f[i]
        BY <3>3
      <4> QED BY <4>1, <3>1, <2>2
    <3> QED BY <3>2, <3>3
  <2> HIDE DEF h
  <2>8. IsRun(h, S, k, start, g)
    BY <2>6, <2>7 DEF IsRun
  <2> QED BY <2>8
<1> HIDE DEF I
<1>3. \A i \in 0 .. n : i \in I
  BY <1>1, <1>2, Induct
<1> QED BY <1>3 DEF I

\* Induction over sequences, for a set of them.
LEMMA SeqInduct ==
    ASSUME NEW S, NEW P, <<>> \in P, \A t \in Seq(S), c \in S : t \in P => Append(t, c) \in P
    PROVE  \A s \in Seq(S) : s \in P
<1> SUFFICES ASSUME NEW s \in Seq(S) PROVE s \in P
  OBVIOUS
<1> DEFINE n == Len(s)
           I == {i \in 0 .. n : SubSeq(s, 1, i) \in P}
<1>0. n \in Nat
  OBVIOUS
<1>1. 0 \in I
  <2>1. SubSeq(s, 1, 0) = <<>>
    OBVIOUS
  <2>2. 0 \in 0 .. n
    BY <1>0
  <2>3. SubSeq(s, 1, 0) \in P
    BY <2>1, Zenon
  <2> QED BY <2>2, <2>3
<1>2. ASSUME NEW i \in 1 .. n, i - 1 \in I PROVE i \in I
  <2> DEFINE t == SubSeq(s, 1, i - 1)
             u == SubSeq(s, 1, i)
  <2>1. s[i] \in S /\ i \in 0 .. n /\ i \in Nat /\ i - 1 \in Nat
    BY <1>0
  <2>2. t \in Seq(S) /\ Len(t) = i - 1 /\ \A j \in 1 .. i - 1 : t[j] = s[j]
    BY <2>1
  <2>3. u \in Seq(S) /\ Len(u) = i /\ \A j \in 1 .. i : u[j] = s[j]
    BY <2>1
  <2>4. t \in P
    BY <1>2
  <2> HIDE DEF t, u
  <2>5. Append(t, s[i]) \in Seq(S) /\ Len(Append(t, s[i])) = i
    BY <2>1, <2>2
  <2>6. ASSUME NEW j \in 1 .. i PROVE Append(t, s[i])[j] = u[j]
    BY <2>1, <2>2, <2>3
  <2>7. u = Append(t, s[i])
    BY <2>3, <2>5, <2>6, SeqEqual
  <2>8. u \in P
    BY <2>1, <2>2, <2>4, <2>7
  <2> QED BY <2>1, <2>8 DEF u
<1> HIDE DEF I
<1>3. \A i \in 0 .. n : i \in I
  BY <1>0, <1>1, <1>2, Induct
<1>4. SubSeq(s, 1, n) \in P
  BY <1>0, <1>3 DEF I
<1>5. SubSeq(s, 1, n) = s
  OBVIOUS
<1> QED BY <1>4, <1>5

\* Appending to the second of two sequences.
LEMMA AppendToSecond ==
    ASSUME NEW S, NEW s \in Seq(S), NEW t \in Seq(S), NEW c \in S
    PROVE  s \o Append(t, c) = Append(s \o t, c)
<1> DEFINE a == s \o Append(t, c)
           b == Append(s \o t, c)
<1>0. Len(s) \in Nat /\ Len(t) \in Nat
  OBVIOUS
<1>1. /\ Append(t, c) \in Seq(S) /\ Len(Append(t, c)) = Len(t) + 1
      /\ \A i \in 1 .. Len(t) : Append(t, c)[i] = t[i]
      /\ Append(t, c)[Len(t) + 1] = c
  OBVIOUS
<1>2. /\ s \o t \in Seq(S) /\ Len(s \o t) = Len(s) + Len(t)
      /\ \A i \in 1 .. Len(s) : (s \o t)[i] = s[i]
      /\ \A i \in 1 .. Len(s) + Len(t) : i > Len(s) => (s \o t)[i] = t[i - Len(s)]
  OBVIOUS
<1>3. /\ b \in Seq(S) /\ Len(b) = Len(s) + Len(t) + 1
      /\ \A i \in 1 .. Len(s) + Len(t) : b[i] = (s \o t)[i]
      /\ b[Len(s) + Len(t) + 1] = c
  BY <1>2
<1> DEFINE u == Append(t, c)
<1>4. /\ a \in Seq(S) /\ Len(a) = Len(s) + Len(u)
      /\ \A i \in 1 .. Len(s) : a[i] = s[i]
      /\ \A i \in 1 .. Len(s) + Len(u) : i > Len(s) => a[i] = u[i - Len(s)]
  <2> HIDE DEF u
  <2>1. u \in Seq(S)
    BY <1>1 DEF u
  <2>2. a = s \o u
    BY DEF u
  <2> HIDE DEF a
  <2> QED BY <2>1, <2>2
<1> HIDE DEF a, b, u
<1>5. Len(a) = Len(b)
  BY <1>0, <1>1, <1>3, <1>4 DEF u
<1>6. ASSUME NEW i \in 1 .. Len(a) PROVE a[i] = b[i]
  <2>1. CASE i <= Len(s)
    BY <2>1, <1>0, <1>2, <1>3, <1>4
  <2>2. CASE i > Len(s) /\ i <= Len(s) + Len(t)
    <3>1. a[i] = u[i - Len(s)] /\ i - Len(s) \in 1 .. Len(t) /\ i \in 1 .. Len(s) + Len(t)
      BY <2>2, <1>0, <1>1, <1>4 DEF u
    <3>2. u[i - Len(s)] = t[i - Len(s)]
      BY <3>1, <1>1 DEF u
    <3> QED BY <2>2, <3>1, <3>2, <1>2, <1>3
  <2>3. CASE i = Len(s) + Len(t) + 1
    <3>1. a[i] = u[i - Len(s)] /\ i - Len(s) = Len(t) + 1
      BY <2>3, <1>0, <1>1, <1>4 DEF u
    <3>2. u[Len(t) + 1] = c
      BY <1>1 DEF u
    <3> QED BY <2>3, <3>1, <3>2, <1>3
  <2>4. i <= Len(s) \/ (i > Len(s) /\ i <= Len(s) + Len(t)) \/ i = Len(s) + Len(t) + 1
    BY <1>0, <1>3, <1>5
  <2> QED BY <2>1, <2>2, <2>3, <2>4
<1>7. a = b
  BY <1>3, <1>4, <1>5, <1>6, SeqEqual
<1> QED BY <1>7 DEF a, b

----------------------------------------------------------------------------
(* Copying a path.                                                         *)

Copies == [ok : BOOLEAN, path : Seq(Characters), escape : Characters \cup {""}]

LEMMA CopyCharacterType ==
    ASSUME NEW copy \in Copies, NEW char \in Characters
    PROVE  CopyCharacter(copy, char) \in Copies
<1> DEFINE escaped == mount_path_string_copy_hexadecimal_to_integer_32_bit(copy.escape, char)
<1>1. escaped \in Characters \cup {"none"}
  BY DEF mount_path_string_copy_hexadecimal_to_integer_32_bit, Characters
<1>2. /\ copy.path \in Seq(Characters)
      /\ copy = [ok |-> copy.ok, path |-> copy.path, escape |-> copy.escape]
      /\ copy.ok \in BOOLEAN
      /\ copy.escape \in Characters \cup {""}
  BY DEF Copies
<1> HIDE DEF escaped
<1>3. \A c \in Characters : Append(copy.path, c) \in Seq(Characters)
  <2> DEFINE path == copy.path
  <2>1. path \in Seq(Characters)
    BY <1>2
  <2> HIDE DEF path
  <2>2. \A c \in Characters : Append(path, c) \in Seq(Characters)
    BY <2>1, AppendProperties
  <2> QED BY <2>2 DEF path
<1>4. /\ [copy EXCEPT !.escape = char] \in Copies
      /\ [copy EXCEPT !.path = Append(@, char)] \in Copies
      /\ [copy EXCEPT !.path = Append(@, char), !.escape = ""] \in Copies
      /\ escaped # "none" => [copy EXCEPT !.path = Append(@, escaped), !.escape = ""] \in Copies
      /\ [copy EXCEPT !.ok = FALSE] \in Copies
  BY <1>1, <1>2, <1>3 DEF Copies
<1> QED BY <1>4 DEF CopyCharacter, escaped

\* The states of copying a path.
IsCopying(f, start, path) ==
    f = [i \in 0 .. Len(path) |-> IF i = 0 THEN start ELSE CopyCharacter(f[i - 1], path[i])]

LEMMA CopyRuns ==
    ASSUME NEW start \in Copies, NEW path \in Seq(Characters)
    PROVE  \E f : IsCopying(f, start, path) /\ CopyFrom(start, path) = f[Len(path)]
<1> DEFINE n == Len(path)
           g == [i \in 1 .. n |-> [s \in Copies |-> CopyCharacter(s, path[i])]]
<1>1. n \in Nat /\ \A i \in 1 .. n : path[i] \in Characters
  OBVIOUS
<1>2. g \in [1 .. n -> [Copies -> Copies]]
  BY <1>1, CopyCharacterType
<1>3. PICK f : IsRun(f, Copies, n, start, g)
  <2> HIDE DEF g, n
  <2> QED BY <1>1, <1>2, RunExists
<1>4. ASSUME NEW i \in 0 .. n PROVE f[i] = IF i = 0 THEN start ELSE CopyCharacter(f[i - 1], path[i])
  <2>1. CASE i = 0
    BY <1>3, <2>1 DEF IsRun
  <2>2. CASE i # 0
    <3>1. i \in 1 .. n /\ i - 1 \in 0 .. n
      BY <1>1, <2>2
    <3>2. f[i - 1] \in Copies /\ f[i] = g[i][f[i - 1]]
      BY <1>3, <3>1 DEF IsRun
    <3>3. g[i][f[i - 1]] = CopyCharacter(f[i - 1], path[i])
      BY <3>1, <3>2
    <3> QED BY <2>2, <3>2, <3>3
  <2> QED BY <2>1, <2>2
<1>5. f = [i \in 0 .. n |-> f[i]]
  BY <1>3 DEF IsRun
<1>6. IsCopying(f, start, path)
  BY <1>4, <1>5 DEF IsCopying
<1> DEFINE h == CHOOSE h : IsCopying(h, start, path)
<1>7. IsCopying(h, start, path)
  BY <1>6
<1>8. CopyFrom(start, path) = h[n]
  BY DEF CopyFrom, IsCopying
<1> QED BY <1>7, <1>8

LEMMA CopyFacts ==
    ASSUME NEW start \in Copies, NEW path \in Seq(Characters), NEW f, IsCopying(f, start, path)
    PROVE  /\ f[0] = start
           /\ \A i \in 1 .. Len(path) : f[i] = CopyCharacter(f[i - 1], path[i])
           /\ \A i \in 0 .. Len(path) : f[i] \in Copies
<1> DEFINE n == Len(path)
<1>0. n \in Nat
  OBVIOUS
<1>1. \A i \in 0 .. n : f[i] = IF i = 0 THEN start ELSE CopyCharacter(f[i - 1], path[i])
  BY <1>0 DEF IsCopying
<1>2. f[0] = start
  BY <1>0, <1>1
<1>3. \A i \in 1 .. n : f[i] = CopyCharacter(f[i - 1], path[i])
  BY <1>0, <1>1
<1> DEFINE I == {i \in 0 .. n : f[i] \in Copies}
<1>4. 0 \in I
  BY <1>0, <1>2
<1>5. ASSUME NEW i \in 1 .. n, i - 1 \in I PROVE i \in I
  <2>1. f[i - 1] \in Copies /\ path[i] \in Characters /\ i \in 0 .. n
    BY <1>5
  <2> QED BY <2>1, <1>3, CopyCharacterType
<1> HIDE DEF I
<1>6. \A i \in 0 .. n : i \in I
  BY <1>0, <1>4, <1>5, Induct
<1> QED BY <1>2, <1>3, <1>6 DEF I

\* A path is copied from the left to the right.
LEMMA CopyOfNothing ==
    ASSUME NEW start \in Copies
    PROVE  CopyFrom(start, <<>>) = start
<1>1. <<>> \in Seq(Characters) /\ Len(<<>>) = 0
  OBVIOUS
<1>2. PICK f : IsCopying(f, start, <<>>) /\ CopyFrom(start, <<>>) = f[Len(<<>>)]
  BY <1>1, CopyRuns
<1> QED BY <1>1, <1>2, CopyFacts

LEMMA CopyOfMore ==
    ASSUME NEW start \in Copies, NEW path \in Seq(Characters), NEW char \in Characters
    PROVE  CopyFrom(start, Append(path, char)) = CopyCharacter(CopyFrom(start, path), char)
<1> DEFINE n == Len(path)
           longer == Append(path, char)
<1>0. /\ n \in Nat /\ longer \in Seq(Characters) /\ Len(longer) = n + 1
      /\ \A i \in 1 .. n : longer[i] = path[i]
      /\ longer[n + 1] = char
  OBVIOUS
<1> HIDE DEF longer
<1>1. PICK f : IsCopying(f, start, path) /\ CopyFrom(start, path) = f[n]
  BY CopyRuns
<1>2. PICK g : IsCopying(g, start, longer) /\ CopyFrom(start, longer) = g[n + 1]
  BY <1>0, CopyRuns
<1>3. f[0] = start /\ \A i \in 1 .. n : f[i] = CopyCharacter(f[i - 1], path[i])
  BY <1>1, CopyFacts
<1>4. g[0] = start /\ \A i \in 1 .. n + 1 : g[i] = CopyCharacter(g[i - 1], longer[i])
  BY <1>0, <1>2, CopyFacts
<1> DEFINE I == {i \in 0 .. n : f[i] = g[i]}
<1>5. 0 \in I
  BY <1>0, <1>3, <1>4
<1>6. ASSUME NEW i \in 1 .. n, i - 1 \in I PROVE i \in I
  <2>1. f[i - 1] = g[i - 1] /\ longer[i] = path[i] /\ i \in 0 .. n /\ i \in 1 .. n + 1
    BY <1>0, <1>6
  <2> QED BY <2>1, <1>3, <1>4
<1> HIDE DEF I
<1>7. \A i \in 0 .. n : i \in I
  BY <1>0, <1>5, <1>6, Induct
<1>8. f[n] = g[n]
  BY <1>0, <1>7 DEF I
<1>9. g[n + 1] = CopyCharacter(g[n], char)
  <2>1. n + 1 \in 1 .. n + 1 /\ (n + 1) - 1 = n
    BY <1>0
  <2> QED BY <1>0, <1>4, <2>1
<1> QED BY <1>1, <1>2, <1>8, <1>9 DEF longer

LEMMA CopyType ==
    ASSUME NEW start \in Copies, NEW path \in Seq(Characters)
    PROVE  CopyFrom(start, path) \in Copies
<1>1. PICK f : IsCopying(f, start, path) /\ CopyFrom(start, path) = f[Len(path)]
  BY CopyRuns
<1>2. Len(path) \in 0 .. Len(path)
  OBVIOUS
<1> QED BY <1>1, <1>2, CopyFacts

LEMMA CopyOfTwo ==
    ASSUME NEW start \in Copies, NEW p \in Seq(Characters), NEW q \in Seq(Characters)
    PROVE  CopyFrom(start, p \o q) = CopyFrom(CopyFrom(start, p), q)
<1> DEFINE middle == CopyFrom(start, p)
           P == {t \in Seq(Characters) : CopyFrom(start, p \o t) = CopyFrom(middle, t)}
<1>0. middle \in Copies
  BY CopyType
<1> HIDE DEF middle
<1>1. <<>> \in P
  <2>1. p \o <<>> = p /\ <<>> \in Seq(Characters)
    OBVIOUS
  <2> QED BY <1>0, <2>1, CopyOfNothing DEF middle
<1>2. ASSUME NEW t \in Seq(Characters), NEW c \in Characters, t \in P
      PROVE  Append(t, c) \in P
  <2>1. p \o Append(t, c) = Append(p \o t, c)
    BY AppendToSecond
  <2>2. p \o t \in Seq(Characters) /\ Append(t, c) \in Seq(Characters)
    OBVIOUS
  <2>3. CopyFrom(start, Append(p \o t, c)) = CopyCharacter(CopyFrom(start, p \o t), c)
    BY <2>2, CopyOfMore
  <2>4. CopyFrom(middle, Append(t, c)) = CopyCharacter(CopyFrom(middle, t), c)
    BY <1>0, CopyOfMore
  <2> QED BY <1>2, <2>1, <2>2, <2>3, <2>4
<1> HIDE DEF P
<1>3. q \in P
  BY <1>1, <1>2, SeqInduct
<1> QED BY <1>3 DEF P, middle

----------------------------------------------------------------------------
(* Walking along a path.                                                   *)

Spots(volume) == [id : DOMAIN volume.entries \cup {0, Root}, name : Seq(Characters)]

LEMMA NextCharacterType ==
    ASSUME NEW volume, NEW at \in Spots(volume), NEW char \in Characters
    PROVE  NextCharacter(volume, at, char) \in Spots(volume)
<1> DEFINE name == at.name
           id == at.id
<1>1. name \in Seq(Characters) /\ id \in DOMAIN volume.entries \cup {0, Root}
  BY DEF Spots
<1>2. SubEntryNamed(volume, id, name) \in DOMAIN volume.entries \cup {0, Root}
  BY DEF SubEntryNamed
<1>3. <<>> \in Seq(Characters)
  OBVIOUS
<1>4. Append(name, char) \in Seq(Characters)
  <2> HIDE DEF name
  <2> QED BY <1>1
<1> QED BY <1>1, <1>2, <1>3, <1>4 DEF NextCharacter, Spots

\* The states of walking along a path.
IsWalking(volume, f, start, path) ==
    f = [i \in 0 .. Len(path) |-> IF i = 0 THEN start ELSE NextCharacter(volume, f[i - 1], path[i])]

LEMMA SegmentRuns ==
    ASSUME NEW volume, NEW start \in Spots(volume), NEW path \in Seq(Characters)
    PROVE  \E f : IsWalking(volume, f, start, path) /\ SegmentFrom(volume, start, path) = f[Len(path)]
<1> DEFINE n == Len(path)
           g == [i \in 1 .. n |-> [s \in Spots(volume) |-> NextCharacter(volume, s, path[i])]]
<1>1. n \in Nat /\ \A i \in 1 .. n : path[i] \in Characters
  OBVIOUS
<1>2. g \in [1 .. n -> [Spots(volume) -> Spots(volume)]]
  BY <1>1, NextCharacterType
<1>3. PICK f : IsRun(f, Spots(volume), n, start, g)
  <2> HIDE DEF g, n
  <2> QED BY <1>1, <1>2, RunExists
<1>4. ASSUME NEW i \in 0 .. n PROVE f[i] = IF i = 0 THEN start ELSE NextCharacter(volume, f[i - 1], path[i])
  <2>1. CASE i = 0
    BY <1>3, <2>1 DEF IsRun
  <2>2. CASE i # 0
    <3>1. i \in 1 .. n /\ i - 1 \in 0 .. n
      BY <1>1, <2>2
    <3>2. f[i - 1] \in Spots(volume) /\ f[i] = g[i][f[i - 1]]
      BY <1>3, <3>1 DEF IsRun
    <3>3. g[i][f[i - 1]] = NextCharacter(volume, f[i - 1], path[i])
      BY <3>1, <3>2
    <3> QED BY <2>2, <3>2, <3>3
  <2> QED BY <2>1, <2>2
<1>5. f = [i \in 0 .. n |-> f[i]]
  BY <1>3 DEF IsRun
<1>6. IsWalking(volume, f, start, path)
  BY <1>4, <1>5 DEF IsWalking
<1> DEFINE h == CHOOSE h : IsWalking(volume, h, start, path)
<1>7. IsWalking(volume, h, start, path)
  BY <1>6
<1>8. SegmentFrom(volume, start, path) = h[n]
  BY DEF SegmentFrom, IsWalking
<1> QED BY <1>7, <1>8

LEMMA SegmentFacts ==
    ASSUME NEW volume, NEW start \in Spots(volume), NEW path \in Seq(Characters), NEW f, IsWalking(volume, f, start, path)
    PROVE  /\ f[0] = start
           /\ \A i \in 1 .. Len(path) : f[i] = NextCharacter(volume, f[i - 1], path[i])
           /\ \A i \in 0 .. Len(path) : f[i] \in Spots(volume)
<1> DEFINE n == Len(path)
<1>0. n \in Nat
  OBVIOUS
<1>1. \A i \in 0 .. n : f[i] = IF i = 0 THEN start ELSE NextCharacter(volume, f[i - 1], path[i])
  BY <1>0 DEF IsWalking
<1>2. f[0] = start
  BY <1>0, <1>1
<1>3. \A i \in 1 .. n : f[i] = NextCharacter(volume, f[i - 1], path[i])
  BY <1>0, <1>1
<1> DEFINE I == {i \in 0 .. n : f[i] \in Spots(volume)}
<1>4. 0 \in I
  BY <1>0, <1>2
<1>5. ASSUME NEW i \in 1 .. n, i - 1 \in I PROVE i \in I
  <2>1. f[i - 1] \in Spots(volume) /\ path[i] \in Characters /\ i \in 0 .. n
    BY <1>5
  <2> QED BY <2>1, <1>3, NextCharacterType
<1> HIDE DEF I
<1>6. \A i \in 0 .. n : i \in I
  BY <1>0, <1>4, <1>5, Induct
<1> QED BY <1>2, <1>3, <1>6 DEF I

\* A path is walked along from the left to the right.
LEMMA SegmentOfNothing ==
    ASSUME NEW volume, NEW start \in Spots(volume)
    PROVE  SegmentFrom(volume, start, <<>>) = start
<1> DEFINE path == <<>>
<1>1. path \in Seq(Characters) /\ Len(path) = 0
  OBVIOUS
<1> HIDE DEF path
<1>2. PICK f : IsWalking(volume, f, start, path) /\ SegmentFrom(volume, start, path) = f[Len(path)]
  BY <1>1, SegmentRuns
<1>3. f[0] = start
  BY <1>1, <1>2 DEF IsWalking
<1> QED BY <1>1, <1>2, <1>3 DEF path

LEMMA SegmentOfMore ==
    ASSUME NEW volume, NEW start \in Spots(volume), NEW path \in Seq(Characters), NEW char \in Characters
    PROVE  SegmentFrom(volume, start, Append(path, char)) = NextCharacter(volume, SegmentFrom(volume, start, path), char)
<1> DEFINE n == Len(path)
           longer == Append(path, char)
<1>0. /\ n \in Nat /\ longer \in Seq(Characters) /\ Len(longer) = n + 1
      /\ \A i \in 1 .. n : longer[i] = path[i]
      /\ longer[n + 1] = char
  OBVIOUS
<1> HIDE DEF longer
<1>1. PICK f : IsWalking(volume, f, start, path) /\ SegmentFrom(volume, start, path) = f[n]
  BY SegmentRuns
<1>2. PICK g : IsWalking(volume, g, start, longer) /\ SegmentFrom(volume, start, longer) = g[n + 1]
  BY <1>0, SegmentRuns
<1>3. f[0] = start /\ \A i \in 1 .. n : f[i] = NextCharacter(volume, f[i - 1], path[i])
  BY <1>1, SegmentFacts
<1>4. g[0] = start /\ \A i \in 1 .. n + 1 : g[i] = NextCharacter(volume, g[i - 1], longer[i])
  BY <1>0, <1>2, SegmentFacts
<1> DEFINE I == {i \in 0 .. n : f[i] = g[i]}
<1>5. 0 \in I
  BY <1>0, <1>3, <1>4
<1>6. ASSUME NEW i \in 1 .. n, i - 1 \in I PROVE i \in I
  <2>1. f[i - 1] = g[i - 1] /\ longer[i] = path[i] /\ i \in 0 .. n /\ i \in 1 .. n + 1
    BY <1>0, <1>6
  <2> QED BY <2>1, <1>3, <1>4
<1> HIDE DEF I
<1>7. \A i \in 0 .. n : i \in I
  BY <1>0, <1>5, <1>6, Induct
<1>8. f[n] = g[n]
  BY <1>0, <1>7 DEF I
<1>9. g[n + 1] = NextCharacter(volume, g[n], char)
  <2>1. n + 1 \in 1 .. n + 1 /\ (n + 1) - 1 = n
    BY <1>0
  <2> QED BY <1>0, <1>4, <2>1
<1> QED BY <1>1, <1>2, <1>8, <1>9 DEF longer

LEMMA SegmentType ==
    ASSUME NEW volume, NEW start \in Spots(volume), NEW path \in Seq(Characters)
    PROVE  SegmentFrom(volume, start, path) \in Spots(volume)
<1>1. PICK f : IsWalking(volume, f, start, path) /\ SegmentFrom(volume, start, path) = f[Len(path)]
  BY SegmentRuns
<1>2. Len(path) \in 0 .. Len(path)
  OBVIOUS
<1> QED BY <1>1, <1>2, SegmentFacts

LEMMA SegmentOfTwo ==
    ASSUME NEW volume, NEW start \in Spots(volume), NEW p \in Seq(Characters), NEW q \in Seq(Characters)
    PROVE  SegmentFrom(volume, start, p \o q) = SegmentFrom(volume, SegmentFrom(volume, start, p), q)
<1> DEFINE middle == SegmentFrom(volume, start, p)
           P == {t \in Seq(Characters) : SegmentFrom(volume, start, p \o t) = SegmentFrom(volume, middle, t)}
<1>0. middle \in Spots(volume)
  BY SegmentType
<1> HIDE DEF middle
<1>1. <<>> \in P
  <2>1. p \o <<>> = p /\ <<>> \in Seq(Characters)
    OBVIOUS
  <2> QED BY <1>0, <2>1, SegmentOfNothing DEF middle
<1>2. ASSUME NEW t \in Seq(Characters), NEW c \in Characters, t \in P
      PROVE  Append(t, c) \in P
  <2>1. p \o Append(t, c) = Append(p \o t, c)
    BY AppendToSecond
  <2>2. p \o t \in Seq(Characters) /\ Append(t, c) \in Seq(Characters)
    OBVIOUS
  <2>3. SegmentFrom(volume, start, Append(p \o t, c)) = NextCharacter(volume, SegmentFrom(volume, start, p \o t), c)
    BY <2>2, SegmentOfMore
  <2>4. SegmentFrom(volume, middle, Append(t, c)) = NextCharacter(volume, SegmentFrom(volume, middle, t), c)
    BY <1>0, SegmentOfMore
  <2> QED BY <1>2, <2>1, <2>2, <2>3, <2>4
<1> HIDE DEF P
<1>3. q \in P
  BY <1>1, <1>2, SeqInduct
<1> QED BY <1>3 DEF P, middle

----------------------------------------------------------------------------
(* Escaping a name.                                                        *)

LEMMA EscapedType ==
    ASSUME NEW char \in Characters
    PROVE  EscapeCharacter(char) \in Seq(Characters)
<1>1. /\ <<"\\", "x", "01">> \in Seq(Characters) /\ <<"\\", "x", "2f">> \in Seq(Characters)
      /\ <<"\\", "U", "00002028">> \in Seq(Characters)
      /\ <<"\\", "\\">> \in Seq(Characters) /\ <<char>> \in Seq(Characters)
  BY DEF Characters
<1> QED BY <1>1 DEF EscapeCharacter

LEMMA EscapeCharacterType ==
    ASSUME NEW shown \in Seq(Characters), NEW char \in Characters
    PROVE  shown \o EscapeCharacter(char) \in Seq(Characters)
BY EscapedType, ConcatProperties

\* The states of showing a name.
IsShowing(f, path) ==
    f = [i \in 0 .. Len(path) |-> IF i = 0 THEN <<>> ELSE (f[i - 1] \o EscapeCharacter(path[i]))]

LEMMA ShowRuns ==
    ASSUME NEW path \in Seq(Characters)
    PROVE  \E f : IsShowing(f, path) /\ mount_path_string_copy_from_file_entry_path(path) = f[Len(path)]
<1> DEFINE n == Len(path)
           g == [i \in 1 .. n |-> [s \in Seq(Characters) |-> (s \o EscapeCharacter(path[i]))]]
<1>1. n \in Nat /\ \A i \in 1 .. n : path[i] \in Characters
  OBVIOUS
<1>2. g \in [1 .. n -> [Seq(Characters) -> Seq(Characters)]]
  BY <1>1, EscapeCharacterType
<1>3. PICK f : IsRun(f, Seq(Characters), n, <<>>, g)
  <2> HIDE DEF g, n
  <2>1. <<>> \in Seq(Characters)
    OBVIOUS
  <2> QED BY <1>1, <1>2, <2>1, RunExists
<1>4. ASSUME NEW i \in 0 .. n PROVE f[i] = IF i = 0 THEN <<>> ELSE (f[i - 1] \o EscapeCharacter(path[i]))
  <2>1. CASE i = 0
    BY <1>3, <2>1 DEF IsRun
  <2>2. CASE i # 0
    <3>1. i \in 1 .. n /\ i - 1 \in 0 .. n
      BY <1>1, <2>2
    <3>2. f[i - 1] \in Seq(Characters) /\ f[i] = g[i][f[i - 1]]
      BY <1>3, <3>1 DEF IsRun
    <3>3. g[i][f[i - 1]] = (f[i - 1] \o EscapeCharacter(path[i]))
      BY <3>1, <3>2
    <3> QED BY <2>2, <3>2, <3>3
  <2> QED BY <2>1, <2>2
<1>5. f = [i \in 0 .. n |-> f[i]]
  BY <1>3 DEF IsRun
<1>6. IsShowing(f, path)
  BY <1>4, <1>5 DEF IsShowing
<1> DEFINE h == CHOOSE h : IsShowing(h, path)
<1>7. IsShowing(h, path)
  BY <1>6
<1>8. mount_path_string_copy_from_file_entry_path(path) = h[n]
  BY DEF mount_path_string_copy_from_file_entry_path, IsShowing
<1> QED BY <1>7, <1>8

LEMMA ShowFacts ==
    ASSUME NEW path \in Seq(Characters), NEW f, IsShowing(f, path)
    PROVE  /\ f[0] = <<>>
           /\ \A i \in 1 .. Len(path) : f[i] = (f[i - 1] \o EscapeCharacter(path[i]))
           /\ \A i \in 0 .. Len(path) : f[i] \in Seq(Characters)
<1> DEFINE n == Len(path)
<1>0. n \in Nat
  OBVIOUS
<1>1. \A i \in 0 .. n : f[i] = IF i = 0 THEN <<>> ELSE (f[i - 1] \o EscapeCharacter(path[i]))
  BY <1>0 DEF IsShowing
<1>2. f[0] = <<>>
  BY <1>0, <1>1
<1>3. \A i \in 1 .. n : f[i] = (f[i - 1] \o EscapeCharacter(path[i]))
  <2> SUFFICES ASSUME NEW i \in 1 .. n PROVE f[i] = (f[i - 1] \o EscapeCharacter(path[i]))
    OBVIOUS
  <2>1. i \in 0 .. n /\ i # 0
    BY <1>0
  <2> QED BY <1>1, <2>1, Zenon
<1> DEFINE I == {i \in 0 .. n : f[i] \in Seq(Characters)}
<1>4. 0 \in I
  <2>1. <<>> \in Seq(Characters) /\ 0 \in 0 .. n
    BY <1>0
  <2> QED BY <1>2, <2>1
<1>5. ASSUME NEW i \in 1 .. n, i - 1 \in I PROVE i \in I
  <2>1. f[i - 1] \in Seq(Characters) /\ path[i] \in Characters /\ i \in 0 .. n
    BY <1>5
  <2> QED BY <2>1, <1>3, EscapeCharacterType
<1> HIDE DEF I
<1>6. \A i \in 0 .. n : i \in I
  BY <1>0, <1>4, <1>5, Induct
<1> QED BY <1>2, <1>3, <1>6 DEF I

\* A name is escaped from the left to the right.
LEMMA ShowOfNothing ==
    mount_path_string_copy_from_file_entry_path(<<>>) = <<>>
<1>1. <<>> \in Seq(Characters) /\ Len(<<>>) = 0
  OBVIOUS
<1>2. PICK f : IsShowing(f, <<>>) /\ mount_path_string_copy_from_file_entry_path(<<>>) = f[Len(<<>>)]
  BY <1>1, ShowRuns
<1> QED BY <1>1, <1>2, ShowFacts

LEMMA ShowOfMore ==
    ASSUME NEW path \in Seq(Characters), NEW char \in Characters
    PROVE  mount_path_string_copy_from_file_entry_path(Append(path, char)) = mount_path_string_copy_from_file_entry_path(path) \o EscapeCharacter(char)
<1> DEFINE n == Len(path)
           longer == Append(path, char)
<1>0. /\ n \in Nat /\ longer \in Seq(Characters) /\ Len(longer) = n + 1
      /\ \A i \in 1 .. n : longer[i] = path[i]
      /\ longer[n + 1] = char
  OBVIOUS
<1> HIDE DEF longer
<1>1. PICK f : IsShowing(f, path) /\ mount_path_string_copy_from_file_entry_path(path) = f[n]
  BY ShowRuns
<1>2. PICK g : IsShowing(g, longer) /\ mount_path_string_copy_from_file_entry_path(longer) = g[n + 1]
  BY <1>0, ShowRuns
<1>3. f[0] = <<>> /\ \A i \in 1 .. n : f[i] = (f[i - 1] \o EscapeCharacter(path[i]))
  BY <1>1, ShowFacts
<1>4. g[0] = <<>> /\ \A i \in 1 .. n + 1 : g[i] = (g[i - 1] \o EscapeCharacter(longer[i]))
  <2>1. longer \in Seq(Characters) /\ IsShowing(g, longer) /\ Len(longer) = n + 1
    BY <1>0, <1>2
  <2> HIDE DEF n
  <2>2. g[0] = <<>> /\ \A i \in 1 .. Len(longer) : g[i] = (g[i - 1] \o EscapeCharacter(longer[i]))
    BY <2>1, ShowFacts, Zenon
  <2> QED BY <2>1, <2>2, Zenon
<1> DEFINE I == {i \in 0 .. n : f[i] = g[i]}
<1>5. 0 \in I
  BY <1>0, <1>3, <1>4
<1>6. ASSUME NEW i \in 1 .. n, i - 1 \in I PROVE i \in I
  <2>1. f[i - 1] = g[i - 1] /\ longer[i] = path[i] /\ i \in 0 .. n /\ i \in 1 .. n + 1
    BY <1>0, <1>6
  <2> QED BY <2>1, <1>3, <1>4
<1> HIDE DEF I
<1>7. \A i \in 0 .. n : i \in I
  BY <1>0, <1>5, <1>6, Induct
<1>8. f[n] = g[n]
  BY <1>0, <1>7 DEF I
<1>9. g[n + 1] = (g[n] \o EscapeCharacter(char))
  <2>1. n + 1 \in 1 .. n + 1 /\ (n + 1) - 1 = n
    BY <1>0
  <2> QED BY <1>0, <1>4, <2>1
<1> QED BY <1>1, <1>2, <1>8, <1>9 DEF longer

LEMMA ShowType ==
    ASSUME NEW path \in Seq(Characters)
    PROVE  mount_path_string_copy_from_file_entry_path(path) \in Seq(Characters)
<1>1. PICK f : IsShowing(f, path) /\ mount_path_string_copy_from_file_entry_path(path) = f[Len(path)]
  BY ShowRuns
<1>2. Len(path) \in 0 .. Len(path)
  OBVIOUS
<1> QED BY <1>1, <1>2, ShowFacts

----------------------------------------------------------------------------
(* Sizes of names.                                                         *)

NamedAttributes == {a \in [name : STRING, size : Nat] : Len(a.name) \in Nat}

LEMMA NameSizeType ==
    ASSUME NEW size \in Nat, NEW attribute \in NamedAttributes
    PROVE  size + NameSize(attribute) \in Nat
<1>1. Len(attribute.name) \in Nat
  BY DEF NamedAttributes
<1> QED BY <1>1 DEF NameSize

\* The states of adding up sizes.
IsAdding(f, attributes) ==
    f = [i \in 0 .. Len(attributes) |-> IF i = 0 THEN 0 ELSE (f[i - 1] + NameSize(attributes[i]))]

LEMMA SizeRuns ==
    ASSUME NEW attributes \in Seq(NamedAttributes)
    PROVE  \E f : IsAdding(f, attributes) /\ ListSize(attributes) = f[Len(attributes)]
<1> DEFINE n == Len(attributes)
           g == [i \in 1 .. n |-> [s \in Nat |-> (s + NameSize(attributes[i]))]]
<1>1. n \in Nat /\ \A i \in 1 .. n : attributes[i] \in NamedAttributes
  OBVIOUS
<1>2. g \in [1 .. n -> [Nat -> Nat]]
  BY <1>1, NameSizeType
<1>3. PICK f : IsRun(f, Nat, n, 0, g)
  <2> HIDE DEF g, n
  <2> QED BY <1>1, <1>2, RunExists
<1>4. ASSUME NEW i \in 0 .. n PROVE f[i] = IF i = 0 THEN 0 ELSE (f[i - 1] + NameSize(attributes[i]))
  <2>1. CASE i = 0
    BY <1>3, <2>1 DEF IsRun
  <2>2. CASE i # 0
    <3>1. i \in 1 .. n /\ i - 1 \in 0 .. n
      BY <1>1, <2>2
    <3>2. f[i - 1] \in Nat /\ f[i] = g[i][f[i - 1]]
      BY <1>3, <3>1 DEF IsRun
    <3>3. g[i][f[i - 1]] = (f[i - 1] + NameSize(attributes[i]))
      BY <3>1, <3>2
    <3> QED BY <2>2, <3>2, <3>3
  <2> QED BY <2>1, <2>2
<1>5. f = [i \in 0 .. n |-> f[i]]
  BY <1>3 DEF IsRun
<1>6. IsAdding(f, attributes)
  BY <1>4, <1>5 DEF IsAdding
<1> DEFINE h == CHOOSE h : IsAdding(h, attributes)
<1>7. IsAdding(h, attributes)
  BY <1>6
<1>8. ListSize(attributes) = h[n]
  BY DEF ListSize, IsAdding
<1> QED BY <1>7, <1>8

LEMMA SizeFacts ==
    ASSUME NEW attributes \in Seq(NamedAttributes), NEW f, IsAdding(f, attributes)
    PROVE  /\ f[0] = 0
           /\ \A i \in 1 .. Len(attributes) : f[i] = (f[i - 1] + NameSize(attributes[i]))
           /\ \A i \in 0 .. Len(attributes) : f[i] \in Nat
<1> DEFINE n == Len(attributes)
<1>0. n \in Nat
  OBVIOUS
<1>1. \A i \in 0 .. n : f[i] = IF i = 0 THEN 0 ELSE (f[i - 1] + NameSize(attributes[i]))
  BY <1>0 DEF IsAdding
<1>2. f[0] = 0
  BY <1>0, <1>1
<1>3. \A i \in 1 .. n : f[i] = (f[i - 1] + NameSize(attributes[i]))
  BY <1>0, <1>1
<1> DEFINE I == {i \in 0 .. n : f[i] \in Nat}
<1>4. 0 \in I
  BY <1>0, <1>2
<1>5. ASSUME NEW i \in 1 .. n, i - 1 \in I PROVE i \in I
  <2>1. f[i - 1] \in Nat /\ attributes[i] \in NamedAttributes /\ i \in 0 .. n
    BY <1>5
  <2> QED BY <2>1, <1>3, NameSizeType
<1> HIDE DEF I
<1>6. \A i \in 0 .. n : i \in I
  BY <1>0, <1>4, <1>5, Induct
<1> QED BY <1>2, <1>3, <1>6 DEF I

\* Sizes are added from the left to the right.
LEMMA SizeOfNothing ==
    ListSize(<<>>) = 0
<1>1. <<>> \in Seq(NamedAttributes) /\ Len(<<>>) = 0
  OBVIOUS
<1>2. PICK f : IsAdding(f, <<>>) /\ ListSize(<<>>) = f[Len(<<>>)]
  BY <1>1, SizeRuns
<1> QED BY <1>1, <1>2, SizeFacts

LEMMA SizeOfMore ==
    ASSUME NEW attributes \in Seq(NamedAttributes), NEW attribute \in NamedAttributes
    PROVE  ListSize(Append(attributes, attribute)) = ListSize(attributes) + NameSize(attribute)
<1> DEFINE n == Len(attributes)
           longer == Append(attributes, attribute)
<1>0. /\ n \in Nat /\ longer \in Seq(NamedAttributes) /\ Len(longer) = n + 1
      /\ \A i \in 1 .. n : longer[i] = attributes[i]
      /\ longer[n + 1] = attribute
  OBVIOUS
<1> HIDE DEF longer
<1>1. PICK f : IsAdding(f, attributes) /\ ListSize(attributes) = f[n]
  BY SizeRuns
<1>2. PICK g : IsAdding(g, longer) /\ ListSize(longer) = g[n + 1]
  BY <1>0, SizeRuns
<1>3. f[0] = 0 /\ \A i \in 1 .. n : f[i] = (f[i - 1] + NameSize(attributes[i]))
  BY <1>1, SizeFacts
<1>4. g[0] = 0 /\ \A i \in 1 .. n + 1 : g[i] = (g[i - 1] + NameSize(longer[i]))
  BY <1>0, <1>2, SizeFacts
<1> DEFINE I == {i \in 0 .. n : f[i] = g[i]}
<1>5. 0 \in I
  BY <1>0, <1>3, <1>4
<1>6. ASSUME NEW i \in 1 .. n, i - 1 \in I PROVE i \in I
  <2>1. f[i - 1] = g[i - 1] /\ longer[i] = attributes[i] /\ i \in 0 .. n /\ i \in 1 .. n + 1
    BY <1>0, <1>6
  <2> QED BY <2>1, <1>3, <1>4
<1> HIDE DEF I
<1>7. \A i \in 0 .. n : i \in I
  BY <1>0, <1>5, <1>6, Induct
<1>8. f[n] = g[n]
  BY <1>0, <1>7 DEF I
<1>9. g[n + 1] = (g[n] + NameSize(attribute))
  <2>1. n + 1 \in 1 .. n + 1 /\ (n + 1) - 1 = n
    BY <1>0
  <2> QED BY <1>0, <1>4, <2>1
<1> QED BY <1>1, <1>2, <1>8, <1>9 DEF longer

LEMMA SizeType ==
    ASSUME NEW attributes \in Seq(NamedAttributes)
    PROVE  ListSize(attributes) \in Nat
<1>1. PICK f : IsAdding(f, attributes) /\ ListSize(attributes) = f[Len(attributes)]
  BY SizeRuns
<1>2. Len(attributes) \in 0 .. Len(attributes)
  OBVIOUS
<1> QED BY <1>1, <1>2, SizeFacts
----------------------------------------------------------------------------
(* What is shown is copied back.                                           *)

\* A copy that no escape is open in, with more of its path.
Extended(copy, path) == [copy EXCEPT !.path = @ \o path]
Closed == {copy \in Copies : copy.escape = ""}

LEMMA CharacterFacts ==
    /\ "none" \notin Characters
    /\ \A c \in {"\\", "/", "x", "U", "ctl", "odd", "01", "2f", "00002028"} : c \in Characters
BY OthersAssumption DEF Characters

LEMMA ExtendedFacts ==
    ASSUME NEW copy \in Closed, NEW path \in Seq(Characters)
    PROVE  /\ Extended(copy, path) \in Closed
           /\ Extended(copy, path).path = copy.path \o path
           /\ Extended(copy, path).ok = copy.ok
<1>1. /\ copy.ok \in BOOLEAN /\ copy.path \in Seq(Characters) /\ copy.escape = ""
      /\ copy = [ok |-> copy.ok, path |-> copy.path, escape |-> copy.escape]
  BY DEF Closed, Copies
<1>2. copy.path \o path \in Seq(Characters)
  BY <1>1, ConcatProperties
<1> QED BY <1>1, <1>2 DEF Extended, Closed, Copies

\* One, two and three characters.
LEMMA CopyOfOne ==
    ASSUME NEW copy \in Copies, NEW a \in Characters
    PROVE  CopyFrom(copy, <<a>>) = CopyCharacter(copy, a)
<1>1. <<a>> = Append(<<>>, a) /\ <<>> \in Seq(Characters)
  OBVIOUS
<1>2. CopyFrom(copy, Append(<<>>, a)) = CopyCharacter(CopyFrom(copy, <<>>), a)
  BY <1>1, CopyOfMore
<1> QED BY <1>1, <1>2, CopyOfNothing

LEMMA CopyOfPair ==
    ASSUME NEW copy \in Copies, NEW a \in Characters, NEW b \in Characters
    PROVE  CopyFrom(copy, <<a, b>>) = CopyCharacter(CopyCharacter(copy, a), b)
<1>1. <<a, b>> = Append(<<a>>, b) /\ <<a>> \in Seq(Characters)
  OBVIOUS
<1>2. CopyFrom(copy, Append(<<a>>, b)) = CopyCharacter(CopyFrom(copy, <<a>>), b)
  BY <1>1, CopyOfMore
<1> QED BY <1>1, <1>2, CopyOfOne

LEMMA CopyOfTriple ==
    ASSUME NEW copy \in Copies, NEW a \in Characters, NEW b \in Characters, NEW c \in Characters
    PROVE  CopyFrom(copy, <<a, b, c>>)
             = CopyCharacter(CopyCharacter(CopyCharacter(copy, a), b), c)
<1>1. <<a, b, c>> = Append(<<a, b>>, c) /\ <<a, b>> \in Seq(Characters)
  OBVIOUS
<1>2. CopyFrom(copy, Append(<<a, b>>, c)) = CopyCharacter(CopyFrom(copy, <<a, b>>), c)
  BY <1>1, CopyOfMore
<1> QED BY <1>1, <1>2, CopyOfPair

\* What the steps make of a copy that no escape is open in.
LEMMA CopyPlain ==
    ASSUME NEW copy \in Closed, NEW char \in Characters, char # "\\"
    PROVE  CopyCharacter(copy, char) = Extended(copy, <<char>>)
<1>1. copy.escape = "" /\ copy.path \in Seq(Characters)
  BY DEF Closed, Copies
<1>2. CopyCharacter(copy, char) = [copy EXCEPT !.path = Append(@, char)]
  BY <1>1 DEF CopyCharacter
<1>3. Append(copy.path, char) = copy.path \o <<char>>
  <2> DEFINE path == copy.path
  <2>1. path \in Seq(Characters)
    BY <1>1
  <2> HIDE DEF path
  <2>2. Append(path, char) = path \o <<char>>
    BY <2>1, AppendIsConcat
  <2> QED BY <2>2 DEF path
<1> QED BY <1>2, <1>3 DEF Extended

LEMMA CopyEscaped ==
    ASSUME NEW copy \in Closed, NEW letter \in {"x", "U"}, NEW digits \in Characters,
           NEW char \in Characters,
           char = mount_path_string_copy_hexadecimal_to_integer_32_bit(letter, digits)
    PROVE  CopyCharacter(CopyCharacter(CopyCharacter(copy, "\\"), letter), digits)
             = Extended(copy, <<char>>)
<1> DEFINE one == [copy EXCEPT !.escape = "\\"]
           two == [copy EXCEPT !.escape = letter]
<1>1. /\ copy.escape = "" /\ copy.path \in Seq(Characters) /\ copy.ok \in BOOLEAN
      /\ copy = [ok |-> copy.ok, path |-> copy.path, escape |-> copy.escape]
  BY DEF Closed, Copies
<1>2. CopyCharacter(copy, "\\") = one
  BY <1>1 DEF CopyCharacter
<1>3. one.escape = "\\" /\ [one EXCEPT !.escape = letter] = two
  BY <1>1
<1> HIDE DEF one
<1>4. CopyCharacter(one, letter) = two
  BY <1>3 DEF CopyCharacter
<1>5. two.escape = letter /\ two.path = copy.path /\ char # "none" /\ letter # "" /\ letter # "\\"
  BY <1>1, CharacterFacts
<1>6. [two EXCEPT !.path = Append(@, char), !.escape = ""]
        = [copy EXCEPT !.path = Append(@, char)]
  BY <1>1
<1> HIDE DEF two
<1>7. CopyCharacter(two, digits) = [two EXCEPT !.path = Append(@, char), !.escape = ""]
  BY <1>5 DEF CopyCharacter
<1>8. Append(copy.path, char) = copy.path \o <<char>>
  <2> DEFINE path == copy.path
  <2>1. path \in Seq(Characters)
    BY <1>1
  <2> HIDE DEF path
  <2>2. Append(path, char) = path \o <<char>>
    BY <2>1, AppendIsConcat
  <2> QED BY <2>2 DEF path
<1>9. [copy EXCEPT !.path = Append(@, char)] = Extended(copy, <<char>>)
  BY <1>8 DEF Extended
<1> QED BY <1>2, <1>4, <1>6, <1>7, <1>9

LEMMA CopyEscapedEscape ==
    ASSUME NEW copy \in Closed
    PROVE  CopyCharacter(CopyCharacter(copy, "\\"), "\\") = Extended(copy, <<"\\">>)
<1> DEFINE one == [copy EXCEPT !.escape = "\\"]
<1>1. /\ copy.escape = "" /\ copy.path \in Seq(Characters) /\ copy.ok \in BOOLEAN
      /\ copy = [ok |-> copy.ok, path |-> copy.path, escape |-> copy.escape]
  BY DEF Closed, Copies
<1>2. CopyCharacter(copy, "\\") = one
  BY <1>1 DEF CopyCharacter
<1>3. /\ one.escape = "\\"
      /\ [one EXCEPT !.path = Append(@, "\\"), !.escape = ""] = [copy EXCEPT !.path = Append(@, "\\")]
  BY <1>1
<1> HIDE DEF one
<1>4. CopyCharacter(one, "\\") = [one EXCEPT !.path = Append(@, "\\"), !.escape = ""]
  BY <1>3 DEF CopyCharacter
<1>5. Append(copy.path, "\\") = copy.path \o <<"\\">>
  <2> DEFINE path == copy.path
  <2>1. path \in Seq(Characters) /\ "\\" \in Characters
    BY <1>1, CharacterFacts
  <2> HIDE DEF path
  <2>2. Append(path, "\\") = path \o <<"\\">>
    BY <2>1, AppendIsConcat
  <2> QED BY <2>2 DEF path
<1> QED BY <1>2, <1>3, <1>4, <1>5 DEF Extended

\* A character that is escaped is copied back.
LEMMA CopyOfEscape ==
    ASSUME NEW copy \in Closed, NEW char \in Characters
    PROVE  CopyFrom(copy, EscapeCharacter(char)) = Extended(copy, <<char>>)
<1>0. copy \in Copies
  BY DEF Closed
<1>1. CASE char = "\\"
  <2>1. EscapeCharacter(char) = <<"\\", "\\">>
    BY <1>1 DEF EscapeCharacter
  <2> QED BY <1>0, <1>1, <2>1, CharacterFacts, CopyOfPair, CopyEscapedEscape
<1>2. ASSUME NEW letter \in {"x", "U"}, NEW digits \in {"01", "2f", "00002028"},
             EscapeCharacter(char) = <<"\\", letter, digits>>,
             char = mount_path_string_copy_hexadecimal_to_integer_32_bit(letter, digits)
      PROVE  CopyFrom(copy, EscapeCharacter(char)) = Extended(copy, <<char>>)
  <2>1. letter \in Characters /\ digits \in Characters /\ "\\" \in Characters
    BY CharacterFacts
  <2> QED BY <1>0, <1>2, <2>1, CopyOfTriple, CopyEscaped
<1>3. CASE char = "ctl"
  <2>1. /\ EscapeCharacter(char) = <<"\\", "x", "01">>
        /\ char = mount_path_string_copy_hexadecimal_to_integer_32_bit("x", "01")
    BY <1>3 DEF EscapeCharacter, mount_path_string_copy_hexadecimal_to_integer_32_bit
  <2> QED BY <1>2, <2>1
<1>4. CASE char = "/"
  <2>1. /\ EscapeCharacter(char) = <<"\\", "x", "2f">>
        /\ char = mount_path_string_copy_hexadecimal_to_integer_32_bit("x", "2f")
    BY <1>4 DEF EscapeCharacter, mount_path_string_copy_hexadecimal_to_integer_32_bit
  <2> QED BY <1>2, <2>1
<1>5. CASE char = "odd"
  <2>1. /\ EscapeCharacter(char) = <<"\\", "U", "00002028">>
        /\ char = mount_path_string_copy_hexadecimal_to_integer_32_bit("U", "00002028")
    BY <1>5 DEF EscapeCharacter, mount_path_string_copy_hexadecimal_to_integer_32_bit
  <2> QED BY <1>2, <2>1
<1>6. CASE char \notin {"\\", "ctl", "/", "odd"}
  <2>1. EscapeCharacter(char) = <<char>>
    BY <1>6 DEF EscapeCharacter
  <2> QED BY <1>0, <1>6, <2>1, CopyOfOne, CopyPlain
<1> QED BY <1>1, <1>3, <1>4, <1>5, <1>6

\* A name that is shown is copied back, after whatever is before it.
LEMMA CopyOfShown ==
    ASSUME NEW copy \in Closed, NEW name \in Seq(Characters)
    PROVE  CopyFrom(copy, mount_path_string_copy_from_file_entry_path(name)) = Extended(copy, name)
<1> DEFINE Show(t) == mount_path_string_copy_from_file_entry_path(t)
           P == {t \in Seq(Characters) : CopyFrom(copy, Show(t)) = Extended(copy, t)}
<1>0. /\ copy \in Copies /\ copy.path \in Seq(Characters)
      /\ copy = [ok |-> copy.ok, path |-> copy.path, escape |-> copy.escape]
  BY DEF Closed, Copies
<1>1. <<>> \in P
  <2>1. copy.path \o <<>> = copy.path
    BY <1>0, ConcatEmptySeq
  <2>2. Extended(copy, <<>>) = copy
    BY <1>0, <2>1 DEF Extended
  <2>3. <<>> \in Seq(Characters)
    OBVIOUS
  <2> QED BY <1>0, <2>2, <2>3, ShowOfNothing, CopyOfNothing
<1>2. ASSUME NEW t \in Seq(Characters), NEW c \in Characters, t \in P
      PROVE  Append(t, c) \in P
  <2>1. Show(Append(t, c)) = Show(t) \o EscapeCharacter(c)
    BY ShowOfMore
  <2>2. Show(t) \in Seq(Characters) /\ EscapeCharacter(c) \in Seq(Characters)
    BY ShowType, EscapedType
  <2>3. CopyFrom(copy, Show(t) \o EscapeCharacter(c))
          = CopyFrom(CopyFrom(copy, Show(t)), EscapeCharacter(c))
    BY <1>0, <2>2, CopyOfTwo
  <2>4. Extended(copy, t) \in Closed
    BY ExtendedFacts
  <2>5. CopyFrom(Extended(copy, t), EscapeCharacter(c)) = Extended(Extended(copy, t), <<c>>)
    BY <2>4, CopyOfEscape
  <2>6. Extended(Extended(copy, t), <<c>>) = Extended(copy, Append(t, c))
    <3> DEFINE p == copy.path
    <3>1. (p \o t) \o <<c>> = p \o Append(t, c)
      <4>1. p \in Seq(Characters)
        BY <1>0
      <4> HIDE DEF p
      <4>2. p \o t \in Seq(Characters)
        BY <4>1, ConcatProperties
      <4>3. p \o Append(t, c) = Append(p \o t, c)
        BY <4>1, AppendToSecond
      <4> QED BY <4>2, <4>3, AppendIsConcat
    <3> QED BY <1>0, <3>1 DEF Extended
  <2>7. Append(t, c) \in Seq(Characters)
    OBVIOUS
  <2> QED BY <1>2, <2>1, <2>3, <2>5, <2>6, <2>7
<1> HIDE DEF P
<1>3. \A t \in Seq(Characters) : t \in P
  BY <1>1, <1>2, SeqInduct
<1> QED BY <1>3 DEF P
----------------------------------------------------------------------------
(* Paths that are made of what is shown.                                   *)

\* A copy that no escape is open in any more has become longer.
Longer(next, copy) ==
    /\ Len(next.path) >= Len(copy.path)
    /\ next.ok /\ next.escape = "" => Len(next.path) > Len(copy.path)

LEMMA CopyLength ==
    ASSUME NEW copy \in Copies
    PROVE  copy.path \in Seq(Characters) /\ Len(copy.path) \in Nat
<1> DEFINE path == copy.path
<1>1. path \in Seq(Characters)
  BY DEF Copies
<1> HIDE DEF path
<1>2. Len(path) \in Nat
  BY <1>1
<1> QED BY <1>1, <1>2 DEF path

LEMMA AppendedLength ==
    ASSUME NEW copy \in Copies, NEW c \in Characters
    PROVE  Len(Append(copy.path, c)) = Len(copy.path) + 1
<1> DEFINE path == copy.path
<1>1. path \in Seq(Characters)
  BY CopyLength
<1> HIDE DEF path
<1>2. Len(Append(path, c)) = Len(path) + 1
  BY <1>1, AppendProperties
<1> QED BY <1>2 DEF path

LEMMA CopyStepGrows ==
    ASSUME NEW copy \in Copies, NEW char \in Characters
    PROVE  Longer(CopyCharacter(copy, char), copy)
<1> DEFINE escaped == mount_path_string_copy_hexadecimal_to_integer_32_bit(copy.escape, char)
<1>1. copy = [ok |-> copy.ok, path |-> copy.path, escape |-> copy.escape]
  BY DEF Copies
<1>2. escaped \in Characters \cup {"none"}
  BY DEF mount_path_string_copy_hexadecimal_to_integer_32_bit, Characters
<1> HIDE DEF escaped
<1>3. Len(copy.path) \in Nat
  BY CopyLength
<1>4. ASSUME NEW r, r.path = copy.path, ~r.ok \/ r.escape # "" PROVE Longer(r, copy)
  <2> DEFINE n == Len(copy.path)
  <2>1. Len(r.path) = n /\ n \in Nat
    BY <1>3, <1>4
  <2> HIDE DEF n
  <2>2. Len(r.path) >= n
    BY <2>1
  <2> QED BY <1>4, <2>2 DEF Longer, n
<1>5. ASSUME NEW r, NEW c \in Characters, r.path = Append(copy.path, c) PROVE Longer(r, copy)
  <2> DEFINE n == Len(copy.path)
  <2>1. Len(r.path) = n + 1 /\ n \in Nat
    BY <1>3, <1>5, AppendedLength
  <2> HIDE DEF n
  <2>2. Len(r.path) >= n /\ Len(r.path) > n
    BY <2>1
  <2> QED BY <2>2 DEF Longer, n
<1>6. char # "" => Longer([copy EXCEPT !.escape = char], copy)
  <2>1. [copy EXCEPT !.escape = char].path = copy.path /\ [copy EXCEPT !.escape = char].escape = char
    BY <1>1
  <2> QED BY <2>1, <1>4
<1>7. Longer([copy EXCEPT !.path = Append(@, char)], copy)
  <2>1. [copy EXCEPT !.path = Append(@, char)].path = Append(copy.path, char)
    BY <1>1
  <2> QED BY <2>1, <1>5
<1>8. ASSUME NEW c \in Characters
      PROVE  Longer([copy EXCEPT !.path = Append(@, c), !.escape = ""], copy)
  <2>1. [copy EXCEPT !.path = Append(@, c), !.escape = ""].path = Append(copy.path, c)
    BY <1>1
  <2> QED BY <2>1, <1>5
<1>9. Longer([copy EXCEPT !.ok = FALSE], copy)
  <2>1. [copy EXCEPT !.ok = FALSE].path = copy.path /\ ~[copy EXCEPT !.ok = FALSE].ok
    BY <1>1
  <2> QED BY <2>1, <1>4
<1>10. escaped # "none" => escaped \in Characters
  BY <1>2
<1> QED BY <1>6, <1>7, <1>8, <1>9, <1>10 DEF CopyCharacter, escaped

LEMMA LongerTwice ==
    ASSUME NEW a \in Copies, NEW b \in Copies, NEW c \in Copies,
           Len(b.path) >= Len(a.path), Longer(c, b)
    PROVE  Longer(c, a)
<1> DEFINE k == Len(a.path)
           m == Len(b.path)
           n == Len(c.path)
<1>1. k \in Nat /\ m \in Nat /\ n \in Nat
  BY CopyLength
<1>2. m >= k /\ n >= m /\ (c.ok /\ c.escape = "" => n > m)
  BY DEF Longer
<1> HIDE DEF k, m, n
<1>3. n >= k /\ (n > m => n > k)
  <2>1. m >= k /\ n >= m
    BY <1>2
  <2> QED BY <1>1, <2>1
<1> QED BY <1>2, <1>3 DEF Longer, k, n

LEMMA CopyGrows ==
    ASSUME NEW copy \in Copies, NEW path \in Seq(Characters), path # <<>>
    PROVE  Longer(CopyFrom(copy, path), copy)
<1> DEFINE P == {t \in Seq(Characters) :
                   /\ Len(CopyFrom(copy, t).path) >= Len(copy.path)
                   /\ t # <<>> => Longer(CopyFrom(copy, t), copy)}
<1>1. <<>> \in P
  <2>1. <<>> \in Seq(Characters)
    OBVIOUS
  <2>2. CopyFrom(copy, <<>>) = copy
    BY CopyOfNothing
  <2> DEFINE n == Len(copy.path)
  <2>3. n \in Nat
    BY CopyLength
  <2> HIDE DEF n
  <2>4. n >= n
    BY <2>3
  <2> QED BY <2>1, <2>2, <2>4 DEF n
<1>2. ASSUME NEW t \in Seq(Characters), NEW c \in Characters, t \in P
      PROVE  Append(t, c) \in P
  <2>1. CopyFrom(copy, Append(t, c)) = CopyCharacter(CopyFrom(copy, t), c)
    BY CopyOfMore
  <2>2. CopyFrom(copy, t) \in Copies
    BY CopyType
  <2>3. CopyCharacter(CopyFrom(copy, t), c) \in Copies
    BY <2>2, CopyCharacterType
  <2>4. Longer(CopyCharacter(CopyFrom(copy, t), c), CopyFrom(copy, t))
    BY <2>2, CopyStepGrows
  <2>5. Append(t, c) \in Seq(Characters)
    BY AppendProperties
  <2>6. Longer(CopyFrom(copy, Append(t, c)), copy)
    BY <1>2, <2>1, <2>2, <2>3, <2>4, LongerTwice
  <2> QED BY <2>5, <2>6 DEF Longer
<1> HIDE DEF P
<1>3. \A t \in Seq(Characters) : t \in P
  BY <1>1, <1>2, SeqInduct
<1> QED BY <1>3 DEF P

\* The path of what is shown in a directory.
PathIn(path, name) ==
    (IF path = <<"/">> THEN path ELSE Append(path, "/"))
        \o mount_path_string_copy_from_file_entry_path(name)

CopyOf(path) == mount_path_string_copy_to_file_entry_path(path)

NoCopy == [ok |-> TRUE, path |-> <<>>, escape |-> ""]

LEMMA NoCopyType == NoCopy \in Closed
<1>1. <<>> \in Seq(Characters)
  OBVIOUS
<1> QED BY <1>1 DEF NoCopy, Closed, Copies

LEMMA CopyOfRoot ==
    CopyFrom(NoCopy, <<"/">>) = [ok |-> TRUE, path |-> <<"/">>, escape |-> ""]
<1>1. CopyFrom(NoCopy, <<"/">>) = CopyCharacter(NoCopy, "/")
  BY NoCopyType, CharacterFacts, CopyOfOne DEF Closed
<1>2. CopyCharacter(NoCopy, "/") = Extended(NoCopy, <<"/">>)
  BY NoCopyType, CharacterFacts, CopyPlain
<1>3. <<>> \o <<"/">> = <<"/">>
  OBVIOUS
<1> QED BY <1>1, <1>2, <1>3 DEF Extended, NoCopy

LEMMA HeadAndTail ==
    ASSUME NEW S, NEW path \in Seq(S), path # <<>>
    PROVE  path = <<path[1]>> \o Tail(path) /\ Tail(path) \in Seq(S) /\ path[1] \in S
<1> DEFINE rest == Tail(path)
           head == path[1]
           one == <<head>>
           both == one \o rest
<1>1. Len(path) \in Nat /\ Len(path) # 0
  OBVIOUS
<1>2. rest \in Seq(S) /\ Len(rest) = Len(path) - 1 /\ \A i \in 1 .. Len(rest) : rest[i] = path[i + 1]
  BY <1>1
<1>3. head \in S
  BY <1>1
<1> HIDE DEF rest, head
<1>4. one \in Seq(S) /\ Len(one) = 1 /\ one[1] = head
  BY <1>3
<1> HIDE DEF one
<1>5. both \in Seq(S) /\ Len(both) = Len(one) + Len(rest)
      /\ \A i \in 1 .. Len(one) + Len(rest) :
            both[i] = IF i <= Len(one) THEN one[i] ELSE rest[i - Len(one)]
  BY <1>2, <1>4, ConcatProperties, SMTT(30)
<1> HIDE DEF both
<1>6. Len(both) = Len(path)
  BY <1>1, <1>2, <1>4, <1>5
<1>7. ASSUME NEW i \in 1 .. Len(path) PROVE both[i] = path[i]
  <2>1. i \in 1 .. Len(one) + Len(rest)
    BY <1>1, <1>2, <1>4
  <2>2. CASE i = 1
    BY <1>4, <1>5, <2>1, <2>2 DEF head
  <2>3. CASE i # 1
    <3>1. i - 1 \in 1 .. Len(rest) /\ (i - 1) + 1 = i /\ ~(i <= Len(one))
      BY <1>1, <1>2, <1>4, <2>3
    <3>2. both[i] = rest[i - 1]
      BY <1>4, <1>5, <2>1, <3>1
    <3> QED BY <1>2, <3>1, <3>2
  <2> QED BY <2>2, <2>3
<1>8. both = path
  BY <1>5, <1>6, <1>7, SeqEqual
<1> QED BY <1>2, <1>3, <1>8 DEF both, one, head, rest

LEMMA CopyFacts2 ==
    ASSUME NEW path \in Seq(Characters), CopyOf(path).ok
    PROVE  /\ CopyFrom(NoCopy, path) \in Closed /\ CopyFrom(NoCopy, path).ok
           /\ CopyOf(path).path = CopyFrom(NoCopy, path).path
           /\ CopyOf(path).path \in Seq(Characters)
           /\ path # <<>> /\ path[1] = "/"
           /\ path = <<"/">> => CopyOf(path).path = <<"/">>
           /\ path # <<"/">> => Len(CopyOf(path).path) > 1
<1> DEFINE copy == CopyFrom(NoCopy, path)
<1>1. copy \in Copies
  BY NoCopyType, CopyType DEF Closed
<1>2. path # <<>> /\ path[1] = "/" /\ copy.ok /\ copy.escape = "" /\ CopyOf(path).path = copy.path
  BY DEF CopyOf, mount_path_string_copy_to_file_entry_path, NoCopy
<1>3. copy \in Closed /\ copy.path \in Seq(Characters)
  BY <1>1, <1>2 DEF Closed, Copies
<1>4. ASSUME path = <<"/">> PROVE copy.path = <<"/">>
  <2>1. copy = CopyFrom(NoCopy, <<"/">>)
    BY <1>4
  <2> HIDE DEF copy
  <2>2. copy = [ok |-> TRUE, path |-> <<"/">>, escape |-> ""]
    BY <2>1, CopyOfRoot
  <2> QED BY <2>2
<1>5. ASSUME path # <<"/">> PROVE Len(copy.path) > 1
  <2> DEFINE rest == Tail(path)
             root == [ok |-> TRUE, path |-> <<"/">>, escape |-> ""]
  <2>1. rest \in Seq(Characters) /\ rest # <<>> /\ path = <<"/">> \o rest
    <3>1. path = <<path[1]>> \o rest /\ rest \in Seq(Characters)
      BY <1>2, HeadAndTail
    <3>2. path = <<"/">> \o rest
      BY <1>2, <3>1
    <3>3. rest # <<>>
      <4> SUFFICES ASSUME rest = <<>> PROVE FALSE OBVIOUS
      <4>1. path = <<"/">> \o <<>>
        BY <3>2
      <4>2. <<"/">> \o <<>> = <<"/">>
        OBVIOUS
      <4> HIDE DEF rest
      <4> QED BY <1>5, <4>1, <4>2
    <3> QED BY <3>1, <3>2, <3>3
  <2> HIDE DEF rest
  <2>2. copy = CopyFrom(CopyFrom(NoCopy, <<"/">>), rest)
    <3>1. <<"/">> \in Seq(Characters)
      BY CharacterFacts
    <3>2. NoCopy \in Copies
      BY NoCopyType DEF Closed
    <3> QED BY <2>1, <3>1, <3>2, CopyOfTwo
  <2>3. copy = CopyFrom(root, rest)
    BY <2>2, CopyOfRoot
  <2>4. root \in Copies /\ Len(root.path) = 1
    <3>1. <<"/">> \in Seq(Characters) /\ Len(<<"/">>) = 1 /\ "" \in Characters \cup {""}
      BY CharacterFacts
    <3> QED BY <3>1 DEF Copies
  <2> HIDE DEF root
  <2>5. Len(CopyFrom(root, rest).path) > Len(root.path)
    BY <1>2, <2>1, <2>3, <2>4, CopyGrows DEF Longer
  <2> QED BY <2>3, <2>4, <2>5
<1> QED BY <1>2, <1>3, <1>4, <1>5

\* Copied back, it is the path of the directory and the name.
LEMMA CopyOfPathIn ==
    ASSUME NEW path \in Seq(Characters), CopyOf(path).ok, NEW name \in Seq(Characters)
    PROVE  /\ CopyOf(PathIn(path, name)).ok
           /\ CopyOf(PathIn(path, name)).path
                = (IF path = <<"/">> THEN path ELSE Append(CopyOf(path).path, "/")) \o name
<1> DEFINE shown == mount_path_string_copy_from_file_entry_path(name)
           before == IF path = <<"/">> THEN path ELSE Append(path, "/")
           d == CopyOf(path).path
           copied == IF path = <<"/">> THEN path ELSE Append(d, "/")
           c == CopyFrom(NoCopy, path)
           b == CopyFrom(NoCopy, before)
<1>0. /\ c \in Closed /\ c.ok /\ d = c.path /\ d \in Seq(Characters)
      /\ path # <<>> /\ path[1] = "/"
      /\ path = <<"/">> => d = <<"/">>
  BY CopyFacts2
<1>1. shown \in Seq(Characters) /\ before \in Seq(Characters) /\ before # <<>> /\ before[1] = "/"
  <2>1. shown \in Seq(Characters)
    BY ShowType
  <2>2. /\ Append(path, "/") \in Seq(Characters) /\ Append(path, "/") # <<>>
        /\ Append(path, "/")[1] = "/"
    BY <1>0, CharacterFacts
  <2> QED BY <1>0, <2>1, <2>2
<1>2. b \in Closed /\ b.ok /\ b.path = copied
  <2>1. CASE path = <<"/">>
    BY <1>0, <2>1
  <2>2. CASE path # <<"/">>
    <3>1. b = CopyCharacter(c, "/")
      BY <2>2, NoCopyType, CharacterFacts, CopyOfMore DEF Closed
    <3>2. b = Extended(c, <<"/">>)
      BY <1>0, <3>1, CharacterFacts, CopyPlain
    <3>3. <<"/">> \in Seq(Characters)
      BY CharacterFacts
    <3> HIDE DEF c, b, d
    <3>4. b \in Closed /\ b.ok /\ b.path = c.path \o <<"/">>
      BY <1>0, <3>2, <3>3, ExtendedFacts
    <3>5. Append(d, "/") = d \o <<"/">>
      BY <1>0, CharacterFacts, AppendIsConcat
    <3> QED BY <1>0, <2>2, <3>4, <3>5
  <2> QED BY <2>1, <2>2
<1>3. CopyFrom(NoCopy, before \o shown) = CopyFrom(b, shown)
  <2> HIDE DEF before, shown
  <2> QED BY <1>1, NoCopyType, CopyOfTwo DEF Closed
<1> HIDE DEF b, copied
<1>4. CopyFrom(b, shown) = Extended(b, name)
  BY <1>2, CopyOfShown
<1>5. /\ Extended(b, name) \in Closed /\ Extended(b, name).path = copied \o name
      /\ Extended(b, name).ok
  BY <1>2, ExtendedFacts
<1>6. before \o shown # <<>> /\ (before \o shown)[1] = "/"
  <2> HIDE DEF before, shown
  <2> QED BY <1>1
<1>7. PathIn(path, name) = before \o shown
  BY DEF PathIn
<1> HIDE DEF before, shown
<1>8. CopyFrom(NoCopy, PathIn(path, name)) = Extended(b, name)
  BY <1>3, <1>4, <1>7
<1>9. Extended(b, name).escape = ""
  BY <1>5 DEF Closed
<1> QED BY <1>5, <1>6, <1>7, <1>8, <1>9 DEF copied, CopyOf, mount_path_string_copy_to_file_entry_path, NoCopy
----------------------------------------------------------------------------
(* Looking up a path that is made of what is shown.                        *)

LEMMA TailOfOne ==
    ASSUME NEW S, NEW head \in S, NEW rest \in Seq(S)
    PROVE  Tail(<<head>> \o rest) = rest
<1> DEFINE one == <<head>>
           both == one \o rest
           tail == Tail(both)
<1>1. one \in Seq(S) /\ Len(one) = 1
  OBVIOUS
<1> HIDE DEF one
<1>2. both \in Seq(S) /\ Len(both) = Len(one) + Len(rest)
      /\ \A i \in 1 .. Len(one) + Len(rest) :
            both[i] = IF i <= Len(one) THEN one[i] ELSE rest[i - Len(one)]
  BY <1>1, ConcatProperties
<1>3. Len(rest) \in Nat
  OBVIOUS
<1> HIDE DEF both
<1>4. both # <<>> /\ Len(both) = 1 + Len(rest)
  BY <1>1, <1>2, <1>3
<1>5. tail \in Seq(S) /\ Len(tail) = Len(rest) /\ \A i \in 1 .. Len(tail) : tail[i] = both[i + 1]
  BY <1>2, <1>3, <1>4
<1> HIDE DEF tail
<1>6. ASSUME NEW i \in 1 .. Len(tail) PROVE tail[i] = rest[i]
  <2>1. i + 1 \in 1 .. Len(one) + Len(rest) /\ ~(i + 1 <= Len(one)) /\ (i + 1) - Len(one) = i
    BY <1>1, <1>3, <1>5
  <2> QED BY <1>2, <1>5, <2>1
<1>7. tail = rest
  BY <1>5, <1>6, SeqEqual
<1> QED BY <1>7 DEF tail, both, one

LEMMA TailOfTwo ==
    ASSUME NEW S, NEW p \in Seq(S), NEW q \in Seq(S), p # <<>>
    PROVE  Tail(p \o q) = Tail(p) \o q
<1> DEFINE head == p[1]
           rest == Tail(p)
           one == <<head>>
           both == rest \o q
<1>1. p = one \o rest /\ rest \in Seq(S) /\ head \in S
  BY HeadAndTail
<1> HIDE DEF head, rest
<1>2. one \in Seq(S)
  BY <1>1
<1>3. p \o q = one \o both
  <2> HIDE DEF one
  <2> QED BY <1>1, <1>2, ConcatAssociative, SMTT(30)
<1>4. both \in Seq(S)
  BY <1>1, ConcatProperties
<1> HIDE DEF both
<1>5. Tail(one \o both) = both
  BY <1>1, <1>4, TailOfOne
<1> QED BY <1>3, <1>5 DEF both, rest

LEMMA MoreThanOne == \A n \in Nat : n > 1 => n # 0 /\ n # 1
OBVIOUS

\* A name is a segment.
LEMMA SegmentOfName ==
    ASSUME NEW volume, NEW id \in DOMAIN volume.entries \cup {0, Root},
           NEW name \in Seq(Characters \ {"/"})
    PROVE  SegmentFrom(volume, [id |-> id, name |-> <<>>], name) = [id |-> id, name |-> name]
<1> DEFINE start == [id |-> id, name |-> <<>>]
           P == {t \in Seq(Characters \ {"/"}) :
                   SegmentFrom(volume, start, t) = [id |-> id, name |-> t]}
<1>1. start \in Spots(volume)
  <2>1. <<>> \in Seq(Characters)
    OBVIOUS
  <2> QED BY <2>1 DEF Spots
<1>2. <<>> \in P
  <2>1. <<>> \in Seq(Characters \ {"/"})
    OBVIOUS
  <2> HIDE DEF start
  <2>2. SegmentFrom(volume, start, <<>>) = start
    BY <1>1, SegmentOfNothing
  <2> QED BY <2>1, <2>2 DEF start
<1>3. ASSUME NEW t \in Seq(Characters \ {"/"}), NEW c \in Characters \ {"/"}, t \in P
      PROVE  Append(t, c) \in P
  <2>1. Append(t, c) \in Seq(Characters \ {"/"})
    BY AppendProperties
  <2>2. t \in Seq(Characters) /\ c \in Characters /\ c # "/"
    OBVIOUS
  <2>3. SegmentFrom(volume, start, t) = [id |-> id, name |-> t]
    BY <1>3
  <2> HIDE DEF start
  <2>4. SegmentFrom(volume, start, Append(t, c))
          = NextCharacter(volume, SegmentFrom(volume, start, t), c)
    BY <1>1, <2>2, SegmentOfMore
  <2>5. NextCharacter(volume, [id |-> id, name |-> t], c) = [id |-> id, name |-> Append(t, c)]
    BY <2>2 DEF NextCharacter
  <2> QED BY <2>1, <2>3, <2>4, <2>5
<1> HIDE DEF P
<1>4. \A t \in Seq(Characters \ {"/"}) : t \in P
  BY <1>2, <1>3, SeqInduct
<1> QED BY <1>4 DEF P

LEMMA SubEntryNamedType ==
    ASSUME NEW volume, NEW id, NEW name
    PROVE  SubEntryNamed(volume, id, name) \in DOMAIN volume.entries \cup {0, Root}
BY DEF SubEntryNamed

\* Whatever is looked up is one of the file entries or none.
LEMMA FileEntryType ==
    ASSUME NEW volume, NEW path \in Seq(Characters), path # <<>>
    PROVE  /\ volume_get_file_entry_by_utf8_path(volume, path) \in DOMAIN volume.entries \cup {0, Root}
           /\ LastSegment(volume, path) \in Spots(volume)
<1> DEFINE start == [id |-> Root, name |-> <<>>]
           last == LastSegment(volume, path)
<1>1. start \in Spots(volume)
  <2>1. <<>> \in Seq(Characters)
    OBVIOUS
  <2> QED BY <2>1 DEF Spots
<1>2. Tail(path) \in Seq(Characters)
  BY HeadAndTail
<1>3. last \in Spots(volume)
  BY <1>1, <1>2, SegmentType DEF LastSegment
<1>4. last.id \in DOMAIN volume.entries \cup {0, Root}
  <2> HIDE DEF last
  <2> QED BY <1>3 DEF Spots
<1> QED BY <1>3, <1>4, SubEntryNamedType DEF volume_get_file_entry_by_utf8_path

\* What a path ends in is a name when its last character is not a separator.
LEMMA EndOfPath ==
    ASSUME NEW volume, NEW d \in Seq(Characters), Len(d) > 1, d[Len(d)] # "/"
    PROVE  LastSegment(volume, d).name # <<>>
<1> DEFINE start == [id |-> Root, name |-> <<>>]
           n == Len(d)
           rest == Tail(d)
           front == SubSeq(rest, 1, n - 2)
           char == d[n]
<1>1. start \in Spots(volume)
  <2>1. <<>> \in Seq(Characters)
    OBVIOUS
  <2> QED BY <2>1 DEF Spots
<1>2. n \in Nat /\ n - 2 \in Nat /\ n \in 1 .. n /\ d # <<>>
  OBVIOUS
<1>3. char \in Characters /\ char # "/"
  BY <1>2
<1>4. /\ rest \in Seq(Characters) /\ Len(rest) = n - 1
      /\ \A i \in 1 .. n - 1 : rest[i] = d[i + 1]
  BY <1>2
<1> HIDE DEF rest
<1>5. /\ front \in Seq(Characters) /\ Len(front) = n - 2
      /\ \A i \in 1 .. n - 2 : front[i] = rest[i]
  BY <1>2, <1>4
<1> HIDE DEF front, n, char
<1>6. Append(front, char) = rest
  <2>1. /\ Append(front, char) \in Seq(Characters) /\ Len(Append(front, char)) = n - 1
        /\ \A i \in 1 .. n - 2 : Append(front, char)[i] = front[i]
        /\ Append(front, char)[n - 1] = char
    BY <1>2, <1>3, <1>5
  <2>2. rest[n - 1] = char
    BY <1>2, <1>4 DEF char
  <2>3. \A i \in 1 .. n - 1 : Append(front, char)[i] = rest[i]
    <3> SUFFICES ASSUME NEW i \in 1 .. n - 1 PROVE Append(front, char)[i] = rest[i]
      OBVIOUS
    <3>1. CASE i = n - 1
      BY <2>1, <2>2, <3>1
    <3>2. CASE i # n - 1
      <4>1. i \in 1 .. n - 2
        BY <1>2, <3>2
      <4> QED BY <1>5, <2>1, <4>1
    <3> QED BY <3>1, <3>2
  <2> DEFINE both == Append(front, char)
  <2>4. both \in Seq(Characters) /\ Len(both) = n - 1 /\ \A i \in 1 .. n - 1 : both[i] = rest[i]
    BY <2>1, <2>3
  <2> HIDE DEF both
  <2>5. both = rest
    BY <1>4, <2>4, SeqEqual
  <2> QED BY <2>5 DEF both
<1> DEFINE before == SegmentFrom(volume, start, front)
<1>7. before \in Spots(volume)
  BY <1>1, <1>5, SegmentType
<1>8. SegmentFrom(volume, start, rest) = NextCharacter(volume, before, char)
  <2> HIDE DEF start
  <2> QED BY <1>1, <1>3, <1>5, <1>6, SegmentOfMore
<1>9. NextCharacter(volume, before, char).name = Append(before.name, char)
  BY <1>3 DEF NextCharacter
<1>10. Append(before.name, char) # <<>>
  <2> DEFINE name == before.name
  <2>1. name \in Seq(Characters)
    <3> HIDE DEF before
    <3> QED BY <1>7 DEF Spots
  <2> HIDE DEF name
  <2>2. Len(Append(name, char)) = Len(name) + 1 /\ Len(name) \in Nat
    BY <1>3, <2>1
  <2>3. Append(name, char) # <<>>
    BY <2>2
  <2> QED BY <2>3 DEF name
<1> QED BY <1>8, <1>9, <1>10 DEF LastSegment, rest

\* The name in a directory is looked up in the directory that its path leads to.
LEMMA LookUpIn ==
    ASSUME NEW volume, NEW d \in Seq(Characters), d # <<>>,
           d # <<"/">> => Len(d) > 1 /\ d[Len(d)] # "/",
           NEW name \in Seq(Characters \ {"/"}), name # <<>>
    PROVE  volume_get_file_entry_by_utf8_path(volume,
               (IF d = <<"/">> THEN d ELSE Append(d, "/")) \o name)
             = SubEntryNamed(volume, volume_get_file_entry_by_utf8_path(volume, d), name)
<1> DEFINE start == [id |-> Root, name |-> <<>>]
           before == IF d = <<"/">> THEN d ELSE Append(d, "/")
           whole == before \o name
           id == volume_get_file_entry_by_utf8_path(volume, d)
<1>1. start \in Spots(volume)
  <2>1. <<>> \in Seq(Characters)
    OBVIOUS
  <2> QED BY <2>1 DEF Spots
<1>2. name \in Seq(Characters) /\ "/" \in Characters /\ Len(name) \in Nat /\ Len(name) # 0
  BY CharacterFacts
<1>3. before \in Seq(Characters) /\ before # <<>> /\ Len(before) \in Nat /\ Len(before) > 0
  <2>1. Len(d) \in Nat /\ Len(d) > 0
    OBVIOUS
  <2>2. Append(d, "/") \in Seq(Characters) /\ Len(Append(d, "/")) = Len(d) + 1
    BY <1>2, AppendProperties
  <2>3. Append(d, "/") # <<>>
    BY <2>1, <2>2
  <2> QED BY <2>1, <2>2, <2>3
<1>4. whole \in Seq(Characters)
  <2> HIDE DEF before
  <2>1. whole \in Seq(Characters) /\ Len(whole) = Len(before) + Len(name)
    BY <1>2, <1>3, ConcatProperties
  <2> HIDE DEF whole
  <2> QED BY <1>2, <1>3, <2>1
<1>5. Tail(whole) = Tail(before) \o name
  <2> HIDE DEF before
  <2> QED BY <1>2, <1>3, TailOfTwo
<1>6. id \in DOMAIN volume.entries \cup {0, Root}
  BY FileEntryType
<1>7. SegmentFrom(volume, start, Tail(before)) = [id |-> id, name |-> <<>>]
      /\ Tail(before) \in Seq(Characters)
  <2>1. CASE d = <<"/">>
    <3>1. Tail(before) = <<>> /\ <<>> \in Seq(Characters) /\ Len(d) = 1
      BY <2>1
    <3>3. SegmentFrom(volume, start, <<>>) = start
      BY <1>1, SegmentOfNothing
    <3>4. Tail(d) = <<>>
      BY <2>1
    <3>5. LastSegment(volume, d) = start
      BY <3>3, <3>4 DEF LastSegment
    <3>2. id = Root
      BY <3>5 DEF volume_get_file_entry_by_utf8_path
    <3> HIDE DEF before, id
    <3> QED BY <3>1, <3>2, <3>3
  <2>2. CASE d # <<"/">>
    <3> DEFINE rest == Tail(d)
               last == SegmentFrom(volume, start, rest)
    <3>1. rest \in Seq(Characters)
      BY HeadAndTail
    <3>2. LastSegment(volume, d).name # <<>>
      BY <2>2, EndOfPath
    <3>3. id = SubEntryNamed(volume, last.id, last.name)
      BY <3>2 DEF volume_get_file_entry_by_utf8_path, LastSegment
    <3> HIDE DEF rest, last, start, id
    <3>4. Tail(before) = Append(rest, "/")
      <4>1. <<"/">> \in Seq(Characters)
        BY <1>2
      <4>2. before = d \o <<"/">>
        BY <1>2, <2>2, AppendIsConcat
      <4>3. Tail(d \o <<"/">>) = Tail(d) \o <<"/">>
        BY <4>1, TailOfTwo
      <4>4. Append(rest, "/") = rest \o <<"/">>
        BY <1>2, <3>1, AppendIsConcat
      <4> HIDE DEF before
      <4> QED BY <4>2, <4>3, <4>4 DEF rest
    <3>5. SegmentFrom(volume, start, Append(rest, "/")) = NextCharacter(volume, last, "/")
      BY <1>1, <1>2, <3>1, SegmentOfMore DEF last
    <3>6. NextCharacter(volume, last, "/") = [id |-> id, name |-> <<>>]
      BY <3>3 DEF NextCharacter
    <3>7. Append(rest, "/") \in Seq(Characters)
      BY <1>2, <3>1, AppendProperties
    <3> HIDE DEF before
    <3> QED BY <3>4, <3>5, <3>6, <3>7
  <2> QED BY <2>1, <2>2
<1> DEFINE tail == Tail(before)
<1>8. SegmentFrom(volume, start, tail \o name) = [id |-> id, name |-> name]
  <2>1. SegmentFrom(volume, start, tail) = [id |-> id, name |-> <<>>] /\ tail \in Seq(Characters)
    BY <1>7
  <2> HIDE DEF tail, start, id
  <2>2. SegmentFrom(volume, start, tail \o name)
          = SegmentFrom(volume, SegmentFrom(volume, start, tail), name)
    BY <1>1, <1>2, <2>1, SegmentOfTwo
  <2>3. SegmentFrom(volume, [id |-> id, name |-> <<>>], name) = [id |-> id, name |-> name]
    BY <1>6, SegmentOfName
  <2> QED BY <2>1, <2>2, <2>3
<1>9. LastSegment(volume, whole) = [id |-> id, name |-> name]
  <2>1. SegmentFrom(volume, start, Tail(whole)) = [id |-> id, name |-> name]
    BY <1>5, <1>8
  <2> HIDE DEF whole, id
  <2> QED BY <2>1 DEF LastSegment
<1> HIDE DEF whole, id
<1>10. volume_get_file_entry_by_utf8_path(volume, whole) = SubEntryNamed(volume, id, name)
  BY <1>9 DEF volume_get_file_entry_by_utf8_path
<1> QED BY <1>10 DEF whole, id

LEMMA NamesInImage ==
    ASSUME image \in Images, mount.volume \in 1 .. Len(image), NEW id \in DOMAIN Volume.entries
    PROVE  /\ \A i \in DOMAIN Entry(id).attributes : Len(Entry(id).attributes[i].name) \in Nat
           /\ Entry(id).kind = "link" => Entry(id).target # <<>>
           /\ Entry(id).target \in Seq(Characters)
           /\ Entry(id).name \in Seq(Characters) /\ Entry(id).name # <<>>
           /\ \A other \in DOMAIN Volume.entries \ {Root, id} :
                 id # Root /\ Entry(other).parent = Entry(id).parent =>
                     Entry(other).name # Entry(id).name
BY NamesAssumption DEF Volume, Entry

LEMMA NamedIsOne ==
    ASSUME image \in Images, mount.volume \in 1 .. Len(image), NEW id, NEW e \in SubEntries(id)
    PROVE  SubEntryNamed(Volume, id, Entry(e).name) = e
<1> DEFINE named == {o \in DOMAIN Volume.entries :
                        /\ o # Root /\ Volume.entries[o].parent = id
                        /\ Volume.entries[o].name = Entry(e).name}
<1>1. e \in named /\ e \in DOMAIN Volume.entries /\ e # Root /\ Entry(e).parent = id
  BY DEF SubEntries, Entry
<1>2. ASSUME NEW o \in named PROVE o = e
  <2>1. o \in DOMAIN Volume.entries /\ o # Root /\ Entry(o).parent = id /\ Entry(o).name = Entry(e).name
    BY <1>2 DEF Entry
  <2> QED BY <1>1, <2>1, NamesInImage
<1> QED BY <1>1, <1>2 DEF SubEntryNamed

\* What is shown in a directory leads, with the path of the directory, to the file
\* entry that it was shown for.
LEMMA FoundIn ==
    ASSUME image \in Images, mount.volume \in 1 .. Len(image),
           NEW path \in Seq(Characters), Found(path) # 0, EndsInName(path),
           NEW e \in SubEntries(Found(path)), Entry(e).name \in Seq(Characters \ {"/"})
    PROVE  Found(PathIn(path, Entry(e).name)) = e
<1> DEFINE name == Entry(e).name
           d == CopyOf(path).path
           whole == PathIn(path, name)
           copied == (IF path = <<"/">> THEN path ELSE Append(d, "/")) \o name
<1>1. CopyOf(path).ok /\ Found(path) = volume_get_file_entry_by_utf8_path(Volume, d)
  BY DEF Found, mount_handle_get_file_entry_by_path, CopyOf
<1>2. /\ d \in Seq(Characters) /\ path # <<>>
      /\ path = <<"/">> => d = <<"/">>
      /\ path # <<"/">> => Len(d) > 1 /\ d[Len(d)] # "/"
  BY <1>1, CopyFacts2 DEF EndsInName, CopyOf
<1>3. e \in DOMAIN Volume.entries
  BY DEF SubEntries
<1>4. name \in Seq(Characters \ {"/"}) /\ name # <<>>
  BY <1>3, NamesInImage
<1>5. name \in Seq(Characters)
  BY <1>4
<1> HIDE DEF name
<1>6. CopyOf(whole).ok /\ CopyOf(whole).path = copied
  BY <1>1, <1>5, CopyOfPathIn
<1> HIDE DEF d, whole
<1>7. d # <<>> /\ (d # <<"/">> => Len(d) > 1 /\ d[Len(d)] # "/") /\ (path = <<"/">> <=> d = <<"/">>)
  <2>1. Len(<<>>) = 0 /\ Len(<<"/">>) = 1 /\ <<"/">> # <<>>
    OBVIOUS
  <2>2. CASE path = <<"/">>
    BY <1>2, <2>1, <2>2, Zenon
  <2>3. CASE path # <<"/">>
    <3>1. Len(d) > 1 /\ d[Len(d)] # "/"
      BY <1>2, <2>3
    <3>2. Len(d) # 0 /\ Len(d) # 1
      <4>1. Len(d) \in Nat
        BY <1>2
      <4> QED BY <3>1, <4>1, MoreThanOne, Zenon
    <3>3. d # <<>> /\ d # <<"/">>
      BY <2>1, <3>2, Zenon
    <3> QED BY <2>3, <3>1, <3>3, Zenon
  <2> QED BY <2>2, <2>3
<1>8. copied = (IF d = <<"/">> THEN d ELSE Append(d, "/")) \o name
  BY <1>2, <1>7
<1> HIDE DEF copied
<1>9. volume_get_file_entry_by_utf8_path(Volume, copied) = SubEntryNamed(Volume, Found(path), name)
  BY <1>1, <1>2, <1>4, <1>7, <1>8, LookUpIn
<1>10. SubEntryNamed(Volume, Found(path), name) = e
  BY NamedIsOne DEF name
<1>11. mount_handle_get_file_entry_by_path(whole).id
         = volume_get_file_entry_by_utf8_path(Volume, CopyOf(whole).path)
  BY <1>6 DEF mount_handle_get_file_entry_by_path, CopyOf
<1>12. Found(whole) = e
  BY <1>6, <1>9, <1>10, <1>11 DEF Found
<1> QED BY <1>12 DEF whole, name

\* The size of the list of some of the attributes is not larger.
LEMMA SizeOfPart ==
    ASSUME NEW p \in Seq(NamedAttributes), NEW q \in Seq(NamedAttributes)
    PROVE  ListSize(p) <= ListSize(p \o q)
<1> DEFINE P == {t \in Seq(NamedAttributes) : ListSize(p) <= ListSize(p \o t)}
<1>0. ListSize(p) \in Nat
  BY SizeType
<1>1. <<>> \in P
  <2>1. <<>> \in Seq(NamedAttributes) /\ p \o <<>> = p
    BY ConcatEmptySeq
  <2>2. ListSize(p) <= ListSize(p)
    BY <1>0
  <2> QED BY <2>1, <2>2
<1>2. ASSUME NEW t \in Seq(NamedAttributes), NEW c \in NamedAttributes, t \in P
      PROVE  Append(t, c) \in P
  <2>1. p \o Append(t, c) = Append(p \o t, c)
    BY AppendToSecond
  <2>2. p \o t \in Seq(NamedAttributes) /\ Append(t, c) \in Seq(NamedAttributes)
    BY AppendProperties, ConcatProperties
  <2> DEFINE both == p \o t
  <2> HIDE DEF both
  <2>3. ListSize(Append(both, c)) = ListSize(both) + NameSize(c) /\ ListSize(both) \in Nat
    BY <2>2, SizeOfMore, SizeType DEF both
  <2>4. NameSize(c) \in Nat
    BY DEF NameSize, NamedAttributes
  <2>5. ListSize(p) <= ListSize(both)
    BY <1>2 DEF both
  <2>6. ListSize(p) <= ListSize(Append(both, c))
    BY <1>0, <2>3, <2>4, <2>5
  <2> QED BY <2>1, <2>2, <2>6 DEF both
<1> HIDE DEF P
<1>3. \A t \in Seq(NamedAttributes) : t \in P
  BY <1>1, <1>2, SeqInduct
<1> QED BY <1>3 DEF P

\* One more attribute is listed.
LEMMA SizeOfOneMore ==
    ASSUME NEW attributes \in Seq(NamedAttributes), NEW i \in 0 .. Len(attributes) - 1
    PROVE  /\ SubSeq(attributes, 1, i) \in Seq(NamedAttributes)
           /\ ListSize(SubSeq(attributes, 1, i)) \in Nat
           /\ ListSize(SubSeq(attributes, 1, i + 1))
                = ListSize(SubSeq(attributes, 1, i)) + NameSize(attributes[i + 1])
           /\ ListSize(SubSeq(attributes, 1, i + 1)) <= ListSize(attributes)
           /\ NameSize(attributes[i + 1]) \in Nat
<1> DEFINE p == SubSeq(attributes, 1, i)
           a == attributes[i + 1]
           more == SubSeq(attributes, 1, i + 1)
           rest == SubSeq(attributes, i + 2, Len(attributes))
<1>1. Len(attributes) \in Nat /\ i \in Nat /\ i + 1 \in 1 .. Len(attributes)
  OBVIOUS
<1>2. p \in Seq(NamedAttributes) /\ more \in Seq(NamedAttributes) /\ rest \in Seq(NamedAttributes)
      /\ a \in NamedAttributes
  BY <1>1
<1>3. more = Append(p, a)
  BY <1>1
<1>4. attributes = more \o rest
  <2>1. 1 \in 1 .. Len(attributes) + 1 /\ i + 1 \in 1 - 1 .. Len(attributes)
        /\ Len(attributes) \in i + 1 .. Len(attributes) /\ (i + 1) + 1 = i + 2
    BY <1>1
  <2>2. SubSeq(attributes, 1, i + 1) \o SubSeq(attributes, (i + 1) + 1, Len(attributes))
          = SubSeq(attributes, 1, Len(attributes))
    BY <2>1, ConcatAdjacentSubSeq
  <2>3. SubSeq(attributes, 1, Len(attributes)) = attributes
    OBVIOUS
  <2> QED BY <2>1, <2>2, <2>3
<1> HIDE DEF p, a, more, rest
<1>5. ListSize(p) \in Nat /\ ListSize(more) = ListSize(p) + NameSize(a)
  BY <1>2, <1>3, SizeType, SizeOfMore
<1>6. ListSize(more) <= ListSize(attributes)
  BY <1>2, <1>4, SizeOfPart
<1>7. NameSize(a) \in Nat
  BY <1>2 DEF NameSize, NamedAttributes
<1> QED BY <1>2, <1>5, <1>6, <1>7 DEF p, a, more
----------------------------------------------------------------------------
(***************************************************************************)
(* Answers.  The order of a directory: the sub file entries with fewer than*)
(* i before them are got by an index below i, each by one.                 *)
(***************************************************************************)

Rank(S, e) == Cardinality({o \in S : o < e})

LEMMA Ranks ==
    ASSUME NEW S, IsFiniteSet(S), S \subseteq Nat
    PROVE  /\ Cardinality(S) \in Nat
           /\ \A e \in S : Rank(S, e) \in 0 .. Cardinality(S) - 1
           /\ \A e, f \in S : Rank(S, e) = Rank(S, f) => e = f
           /\ \A i \in 0 .. Cardinality(S) - 1 : \E e \in S : Rank(S, e) = i
<1> DEFINE n == Cardinality(S)
           Below(e) == {o \in S : o < e}
<1>1. n \in Nat
  BY FS_CardinalityType
<1>2. ASSUME NEW e \in S
      PROVE  /\ IsFiniteSet(Below(e)) /\ Rank(S, e) \in Nat
             /\ Cardinality(Below(e) \cup {e}) = Rank(S, e) + 1
             /\ Rank(S, e) + 1 <= n
  <2>1. IsFiniteSet(Below(e)) /\ Cardinality(Below(e)) \in Nat
    BY FS_Subset, FS_CardinalityType
  <2>2. e \notin Below(e)
    OBVIOUS
  <2>3. Cardinality(Below(e) \cup {e}) = Cardinality(Below(e)) + 1
    BY <2>1, <2>2, FS_AddElement
  <2>4. Below(e) \cup {e} \in SUBSET S
    OBVIOUS
  <2>5. Cardinality(Below(e) \cup {e}) <= n
    BY <2>4, FS_Subset
  <2> QED BY <2>1, <2>3, <2>5 DEF Rank
<1>3. ASSUME NEW e \in S, NEW f \in S, e < f
      PROVE  Rank(S, e) < Rank(S, f)
  <2>1. Below(e) \cup {e} \in SUBSET Below(f)
    <3> SUFFICES ASSUME NEW x \in Below(e) \cup {e} PROVE x \in Below(f)
      OBVIOUS
    <3>1. x \in S /\ x \in Nat /\ e \in Nat /\ f \in Nat /\ x <= e
      OBVIOUS
    <3> QED BY <1>3, <3>1
  <2>2. Rank(S, f) = Cardinality(Below(f))
    BY DEF Rank
  <2>3. Rank(S, e) \in Nat /\ Rank(S, f) \in Nat
    BY <1>2
  <2>4. IsFiniteSet(Below(f)) /\ Cardinality(Below(e) \cup {e}) = Rank(S, e) + 1
    BY <1>2
  <2> HIDE DEF Below
  <2>5. Cardinality(Below(e) \cup {e}) <= Cardinality(Below(f))
    BY <2>1, <2>4, FS_Subset
  <2> QED BY <2>2, <2>3, <2>4, <2>5
<1>4. \A e, f \in S : Rank(S, e) = Rank(S, f) => e = f
  <2> SUFFICES ASSUME NEW e \in S, NEW f \in S, Rank(S, e) = Rank(S, f) PROVE e = f
    OBVIOUS
  <2>1. Rank(S, e) \in Nat /\ Rank(S, f) \in Nat
    BY <1>2
  <2>2. ~(e < f) /\ ~(f < e)
    BY <1>3, <2>1
  <2> QED BY <2>2
<1>5. \A e \in S : Rank(S, e) \in 0 .. n - 1
  <2> SUFFICES ASSUME NEW e \in S PROVE Rank(S, e) \in 0 .. n - 1
    OBVIOUS
  <2>1. Rank(S, e) \in Nat /\ Rank(S, e) + 1 <= n
    BY <1>2
  <2> HIDE DEF n
  <2> QED BY <1>1, <2>1
<1>6. ASSUME NEW i \in 0 .. n - 1, \A e \in S : Rank(S, e) # i
      PROVE  FALSE
  <2> DEFINE T == 0 .. n - 1
             others == T \ {i}
             r == [e \in S |-> Rank(S, e)]
  <2>1. r \in [S -> others]
    BY <1>5, <1>6
  <2>2. IsFiniteSet(T) /\ Cardinality(T) = n
    <3>1. 0 \in Int /\ n - 1 \in Int
      BY <1>1
    <3>2. IsFiniteSet(T) /\ Cardinality(T) = IF 0 > n - 1 THEN 0 ELSE n - 1 - 0 + 1
      BY <3>1, FS_Interval
    <3> HIDE DEF n
    <3> QED BY <1>1, <3>2
  <2>3. i \in T
    OBVIOUS
  <2> HIDE DEF T
  <2>4. IsFiniteSet(others) /\ Cardinality(others) = n - 1
    BY <2>2, <2>3, FS_RemoveElement
  <2>5. Cardinality(others) < Cardinality(S)
    BY <1>1, <2>4
  <2> HIDE DEF others, r, n
  <2>6. \E x, y \in S : x # y /\ r[x] = r[y]
    BY <2>1, <2>4, <2>5, FS_PigeonHole
  <2> QED BY <1>4, <2>6 DEF r
<1> QED BY <1>1, <1>4, <1>5, <1>6

\* A sequence of n elements.
IsList(s, n) == s = [j \in 1 .. n |-> s[j]]

\* A sequence t of m elements: the n elements of s, and one more.
IsNext(s, n, m) == n \in Nat /\ m = n + 1 /\ IsList(s, n)
Extends(t, s, n, m, e) ==
    /\ IsList(t, m) /\ t[m] = e
    /\ \A j \in 1 .. n : t[j] = s[j]

LEMMA ListGrows ==
    ASSUME NEW s, NEW n, NEW m, NEW e, IsNext(s, n, m)
    PROVE  Extends(Append(s, e), s, n, m, e)
<1>0. n \in Nat /\ m = n + 1 /\ IsList(s, n)
  BY DEF IsNext
<1> DEFINE S == {s[j] : j \in 1 .. n} \cup {e}
           t == Append(s, e)
<1>1. s \in Seq(S) /\ Len(s) = n /\ e \in S
  <2>1. s \in [1 .. n -> S]
    BY <1>0 DEF IsList
  <2> HIDE DEF S
  <2>2. s \in Seq(S) /\ Len(s) = n
    BY <1>0, <2>1
  <2> QED BY <2>2 DEF S
<1> HIDE DEF S
<1>2. /\ t \in Seq(S) /\ Len(t) = m
      /\ \A j \in 1 .. n : t[j] = s[j]
      /\ t[m] = e
  BY <1>0, <1>1
<1> HIDE DEF t
<1>3. t = [j \in 1 .. m |-> t[j]]
  BY <1>0, <1>2
<1> QED BY <1>2, <1>3 DEF IsList, Extends, t

LEMMA ListFacts ==
    ASSUME NEW s, NEW n \in Nat, IsList(s, n)
    PROVE  Len(s) = n /\ DOMAIN s = 1 .. n
<1> DEFINE S == {s[j] : j \in 1 .. n}
<1>1. s \in [1 .. n -> S]
  BY DEF IsList
<1> HIDE DEF S
<1> QED BY <1>1

----------------------------------------------------------------------------
(***************************************************************************)
(* What a callback knows of the file entry that it is about.               *)
(***************************************************************************)

\* The operation that has a step.
Stage(op, pc) ==
    \/ pc = "path" /\ op \in PathOps
    \/ pc = "stat" /\ op = "getattr"
    \/ pc = "link" /\ op = "readlink"
    \/ pc \in {"attribute", "value"} /\ op = "getxattr"
    \/ pc \in {"count", "next attribute"} /\ op = "listxattr"
    \/ pc \in {"self", "parent", "count", "next entry"} /\ op = "readdir"

\* What readdir shows of a name.
ShownName(id) == mount_path_string_copy_from_file_entry_path(Entry(id).name)

\* The first names of the attributes, and the first sub file entries, are out.
ListsAttributes(c) ==
    /\ c.total = Len(Entry(c.found).attributes) /\ c.index \in 0 .. c.total
    /\ IsList(c.out, c.index)
    /\ \A j \in 1 .. c.index : c.out[j] = j
    /\ c.list_offset = ListSize(SubSeq(Entry(c.found).attributes, 1, c.index))

ListsSubEntries(c) ==
    LET S == SubEntries(c.found)
    IN  /\ c.total = Cardinality(S) /\ c.index \in 0 .. c.total
        /\ IsList(c.out, c.index)
        /\ \A j \in 1 .. c.index : /\ c.out[j].id \in S
                                   /\ Rank(S, c.out[j].id) = j - 1
                                   /\ c.out[j].name = ShownName(c.out[j].id)

Knows(c) ==
    /\ Stage(c.op, c.pc)
    /\ c.size \in Nat
    /\ c.op # "readdir" =>
          /\ c.path \in Seq(Characters)
          /\ c.lookup = mount_handle_get_file_entry_by_path(c.path)
          /\ c.pc # "path" => c.lookup.result = 1 /\ c.found = c.lookup.id
    /\ c.op = "readdir" => c.found # 0
    /\ c.pc \in {"path", "self", "parent", "count"} =>
          c.index = 0 /\ c.list_offset = 0 /\ c.out = <<>>
    /\ c.pc = "next attribute" => ListsAttributes(c)
    /\ c.pc = "next entry" => ListsSubEntries(c)

\* Callbacks run while a volume is mounted, one at a time.
Mounted ==
    /\ image \in Images
    /\ phase \in {"open", "mounted"} => mount.volume \in 1 .. Len(image)
    /\ call # NoCall \/ answer # NoAnswer => phase = "mounted"
    /\ call = NoCall \/ answer = NoAnswer

\* What readdir answered is what it shows of the sub file entries.
NamesAreShown ==
    Succeeded("readdir") =>
        /\ answer.id # 0
        /\ \A i \in DOMAIN answer.value :
              /\ answer.value[i].id \in SubEntries(answer.id)
              /\ answer.value[i].name = ShownName(answer.value[i].id)

AnswersHold == AnswersAreRight /\ ErrorsHaveCauses /\ NamesAreShown

AnswerInv == Mounted /\ (call # NoCall => Knows(call)) /\ AnswersHold

\* What ErrorsHaveCauses says of an error.
CauseOf(op, errno, name, size, id) ==
    \/ errno = "ENOENT" /\ id = 0
    \/ /\ errno = "ENODATA" /\ op = "getxattr"
       /\ \A i \in DOMAIN Entry(id).attributes : Entry(id).attributes[i].name # name
    \/ /\ errno = "ERANGE" /\ op = "getxattr"
       /\ \E i \in DOMAIN Entry(id).attributes :
             Entry(id).attributes[i].name = name /\ Entry(id).attributes[i].size > size
    \/ /\ errno = "E2BIG" /\ op = "getxattr"
       /\ \E i \in DOMAIN Entry(id).attributes :
             Entry(id).attributes[i].name = name /\ Entry(id).attributes[i].size > MaxInt
    \/ errno = "EIO" /\ op = "listxattr" /\ size < ListSize(Entry(id).attributes)
    \/ /\ errno = "EIO" /\ op = "readlink"
       /\ Entry(id).kind # "link" \/ size <= Len(Entry(id).target)

LEMMA VolumeFacts ==
    ASSUME Mounted, phase = "mounted"
    PROVE  /\ \A id : IsFiniteSet(SubEntries(id)) /\ SubEntries(id) \subseteq Nat
           /\ Root \in DOMAIN Volume.entries
           /\ \A id \in DOMAIN Volume.entries :
                 Entry(id).attributes \in Seq([name : STRING, size : Nat])
           /\ mount.volume \in 1 .. Len(image) /\ image \in Images
<1> DEFINE identifiers == DOMAIN Volume.entries
<1>1. /\ IsFiniteSet(identifiers) /\ identifiers \subseteq Nat /\ Root \in identifiers
      /\ \A id \in identifiers : Entry(id).attributes \in Seq([name : STRING, size : Nat])
  BY ImagesAssumption DEF Mounted, Volume, Entry
<1>2. \A id : SubEntries(id) \in SUBSET identifiers
  BY DEF SubEntries
<1> HIDE DEF identifiers
<1>3. \A id : IsFiniteSet(SubEntries(id)) /\ SubEntries(id) \subseteq Nat
  BY <1>1, <1>2, FS_Subset
<1>4. mount.volume \in 1 .. Len(image) /\ image \in Images
  BY DEF Mounted
<1> QED BY <1>1, <1>3, <1>4 DEF identifiers

\* A file entry that is found is one of the volume.
LEMMA FoundIsThere ==
    ASSUME Mounted, phase = "mounted", NEW path \in Seq(Characters),
           mount_handle_get_file_entry_by_path(path).result = 1
    PROVE  mount_handle_get_file_entry_by_path(path).id \in DOMAIN Volume.entries
<1> DEFINE to == mount_path_string_copy_to_file_entry_path(path)
           id == volume_get_file_entry_by_utf8_path(Volume, to.path)
<1>1. /\ mount_handle_get_file_entry_by_path(path).id = id
      /\ id # 0
  BY DEF mount_handle_get_file_entry_by_path
<1>2. to.ok
  BY DEF mount_handle_get_file_entry_by_path
<1>3. to.path \in Seq(Characters) /\ to.path # <<>>
  <2>1. CopyOf(path).ok
    BY <1>2 DEF CopyOf
  <2> DEFINE d == CopyOf(path).path
  <2>2. d \in Seq(Characters) /\ (path = <<"/">> => d = <<"/">>) /\ (path # <<"/">> => Len(d) > 1)
    BY <2>1, CopyFacts2
  <2> HIDE DEF d
  <2>3. d # <<>>
    <3>1. CASE path = <<"/">>
      <4>1. d = <<"/">>
        BY <2>2, <3>1, Zenon
      <4>2. <<"/">> # <<>>
        OBVIOUS
      <4> QED BY <4>1, <4>2, Zenon
    <3>2. CASE path # <<"/">>
      BY <2>2, <3>2
    <3> QED BY <3>1, <3>2
  <2> QED BY <2>2, <2>3 DEF d, CopyOf
<1> HIDE DEF to
<1>4. id \in DOMAIN Volume.entries
  <2>1. id \in DOMAIN Volume.entries \cup {0, Root}
    BY <1>3, FileEntryType
  <2> HIDE DEF id
  <2> QED BY <1>1, <2>1, VolumeFacts
<1> QED BY <1>1, <1>4

LEMMA SubEntryFacts ==
    ASSUME Mounted, phase = "mounted", NEW id,
           NEW i \in 0 .. Cardinality(SubEntries(id)) - 1
    PROVE  SubEntry(id, i) \in SubEntries(id) /\ Rank(SubEntries(id), SubEntry(id, i)) = i
<1> DEFINE S == SubEntries(id)
<1>1. IsFiniteSet(S) /\ S \subseteq Nat
  BY VolumeFacts
<1>2. SubEntry(id, i) = CHOOSE e \in S : Rank(S, e) = i
  BY DEF SubEntry, Rank
<1> HIDE DEF S
<1>3. \E e \in S : Rank(S, e) = i
  BY <1>1, Ranks DEF S
<1> QED BY <1>2, <1>3 DEF S

\* Nothing of the volume changes while it is mounted.
LEMMA VolumeStays ==
    ASSUME UNCHANGED <<image, mount>>
    PROVE  /\ \A path : mount_handle_get_file_entry_by_path(path)'
                           = mount_handle_get_file_entry_by_path(path)
           /\ \A id : SubEntries(id)' = SubEntries(id)
           /\ \A id : Entry(id)' = Entry(id)
           /\ \A id : ShownName(id)' = ShownName(id)
<1>1. Volume' = Volume
  BY DEF Volume
<1>2. \A path : mount_handle_get_file_entry_by_path(path)'
                   = mount_handle_get_file_entry_by_path(path)
  BY <1>1 DEF mount_handle_get_file_entry_by_path
<1>3. \A id : Entry(id)' = Entry(id)
  BY <1>1 DEF Entry
<1>4. \A id : SubEntries(id)' = SubEntries(id)
  BY DEF SubEntries, Entry, Volume
<1>5. \A id : ShownName(id)' = ShownName(id)
  BY <1>3 DEF ShownName
<1> QED BY <1>2, <1>3, <1>4, <1>5

LEMMA CauseStays ==
    ASSUME UNCHANGED <<image, mount>>, NEW op, NEW errno, NEW name, NEW size, NEW id
    PROVE  CauseOf(op, errno, name, size, id)' <=> CauseOf(op, errno, name, size, id)
<1>1. Entry(id)' = Entry(id)
  BY VolumeStays
<1> QED BY <1>1 DEF CauseOf

LEMMA KnowsStays ==
    ASSUME UNCHANGED <<image, mount>>, Knows(call')
    PROVE  Knows(call)'
<1> DEFINE c == call'
<1>1. ListsAttributes(c) => ListsAttributes(call)'
  BY VolumeStays DEF ListsAttributes
<1>2. ListsSubEntries(c) => ListsSubEntries(call)'
  BY VolumeStays DEF ListsSubEntries
<1> QED BY <1>1, <1>2, VolumeStays DEF Knows

----------------------------------------------------------------------------
(***************************************************************************)
(* The steps keep the answers right.                                       *)
(***************************************************************************)

Told == {"open", "opendir", "getxattr", "listxattr", "readdir"}

\* An answer that is an error, or that says nothing of what is in the volume.
LEMMA NothingTold ==
    ASSUME \/ answer' = NoAnswer
           \/ answer'.errno = "none" /\ answer'.op \notin Told
           \/ answer'.errno # "none" /\ (answer'.failed \/ ErrorsHaveCauses')
    PROVE  AnswersHold'
<1>1. \A op \in Told : ~Succeeded(op)'
  BY DEF Succeeded, NoAnswer, Told
<1>2. AnswersAreRight'
  BY <1>1 DEF AnswersAreRight, Told
<1>3. NamesAreShown'
  BY <1>1 DEF NamesAreShown, Told
<1>4. ErrorsHaveCauses'
  BY DEF ErrorsHaveCauses
<1> QED BY <1>2, <1>3, <1>4 DEF AnswersHold

\* An answer that says what is in the volume.
LEMMA RightlyTold ==
    ASSUME AnswersAreRight', answer'.errno = "none", answer'.op = "readdir" => NamesAreShown'
    PROVE  AnswersHold'
<1>1. ErrorsHaveCauses'
  BY DEF ErrorsHaveCauses
<1>2. NamesAreShown'
  BY DEF NamesAreShown, Succeeded
<1> QED BY <1>1, <1>2 DEF AnswersHold

\* A callback begins.
LEMMA BeginAnswers ==
    ASSUME AnswerInv, NEW new, Begin(new), Knows(new)
    PROVE  AnswerInv'
<1>1. /\ call = NoCall /\ answer = NoAnswer /\ phase = "mounted"
      /\ call' = new /\ UNCHANGED <<image, phase, mount, answer>>
  BY DEF Begin, Idle
<1>2. Mounted'
  BY <1>1 DEF AnswerInv, Mounted
<1>3. Knows(call)'
  BY <1>1, KnowsStays
<1>4. AnswersHold'
  BY <1>1, NothingTold
<1> QED BY <1>2, <1>3, <1>4 DEF AnswerInv

LEMMA NewKnows ==
    ASSUME NEW op \in PathOps, NEW path \in Paths, NEW h, NEW name, NEW size \in Nat
    PROVE  Knows(NewCall(op, path, h, name, size))
<1> DEFINE new == NewCall(op, path, h, name, size)
<1>1. /\ new.op = op /\ new.pc = "path" /\ new.size = size /\ new.path = path
      /\ new.lookup = mount_handle_get_file_entry_by_path(path)
      /\ new.index = 0 /\ new.list_offset = 0 /\ new.out = <<>>
  BY DEF NewCall
<1> HIDE DEF new
<1>2. Stage(op, "path") /\ op # "readdir"
  BY DEF Stage, PathOps
<1>3. Knows(new)
  BY <1>1, <1>2, PathsAssumption DEF Knows
<1> QED BY <1>3 DEF new

\* A callback goes on.
LEMMA AdvanceAnswers ==
    ASSUME AnswerInv, call # NoCall, NEW new, Advance(new), Knows(new)
    PROVE  AnswerInv'
<1>1. /\ answer = NoAnswer /\ phase = "mounted"
      /\ call' = new /\ UNCHANGED <<image, phase, mount, answer>>
  BY DEF Advance, AnswerInv, Mounted
<1>2. Mounted'
  BY <1>1 DEF AnswerInv, Mounted
<1>3. Knows(call)'
  BY <1>1, KnowsStays
<1>4. AnswersHold'
  BY <1>1, NothingTold
<1> QED BY <1>2, <1>3, <1>4 DEF AnswerInv

\* A callback ends.
LEMMA FinishAnswers ==
    ASSUME AnswerInv, call # NoCall, call' = NoCall, UNCHANGED <<image, phase, mount>>,
           AnswersHold'
    PROVE  AnswerInv'
<1>1. Mounted'
  BY DEF AnswerInv, Mounted
<1> QED BY <1>1 DEF AnswerInv

LEMMA AnswerEffect ==
    ASSUME NEW op, NEW errno, NEW failed, NEW count, NEW value,
           Answer(op, errno, failed, count, value)
    PROVE  /\ answer' # NoAnswer
           /\ answer'.op = op /\ answer'.errno = errno /\ answer'.failed = failed
           /\ answer'.count = count /\ answer'.value = value /\ answer'.id = call.found
           /\ answer'.path = call.path /\ answer'.name = call.name
           /\ answer'.size = call.size /\ answer'.handle = call.handle
<1> DEFINE a == [op |-> op, path |-> call.path, name |-> call.name, size |-> call.size,
                 handle |-> call.handle, id |-> call.found, errno |-> errno,
                 failed |-> failed, count |-> count, value |-> value]
<1>1. answer' = a
  BY DEF Answer
<1>2. a # NoAnswer
  <2>1. DOMAIN NoAnswer = {"op"}
    BY DEF NoAnswer
  <2>2. "errno" \in DOMAIN a
    OBVIOUS
  <2> QED BY <2>1, <2>2
<1> QED BY <1>1, <1>2

\* An error whose cause the callback has seen.
LEMMA CauseTold ==
    ASSUME AnswerInv, call # NoCall, call.op # "readdir", UNCHANGED <<image, mount>>,
           NEW errno, errno # "none", NEW failed, NEW count, NEW value,
           Answer(call.op, errno, failed, count, value),
           failed \/ CauseOf(call.op, errno, call.name, call.size, call.lookup.id)
    PROVE  AnswersHold'
<1>0. call.lookup = mount_handle_get_file_entry_by_path(call.path)
  BY DEF AnswerInv, Knows
<1>1. /\ answer'.op = call.op /\ answer'.errno = errno /\ answer'.failed = failed
      /\ answer'.path = call.path /\ answer'.name = call.name /\ answer'.size = call.size
  BY AnswerEffect
<1>2. ASSUME ~failed PROVE ErrorsHaveCauses'
  <2> DEFINE id == call.lookup.id
             op == call.op
             name == call.name
             size == call.size
  <2>1. Found(answer.path)' = id
    <3>1. \A path : Found(path)' = mount_handle_get_file_entry_by_path(path).id
      BY VolumeStays DEF Found
    <3> QED BY <1>0, <1>1, <3>1
  <2>2. CauseOf(op, errno, name, size, id)
    BY <1>2
  <2>3. /\ answer'.op = op /\ answer'.errno = errno
        /\ answer'.name = name /\ answer'.size = size
    BY <1>1
  <2> HIDE DEF id, op, name, size
  <2>4. ASSUME NEW o, NEW n, NEW z, NEW i, CauseOf(o, errno, n, z, i),
               answer'.op = o, answer'.name = n, answer'.size = z, Found(answer.path)' = i
        PROVE  ErrorsHaveCauses'
    <3>1. CauseOf(o, errno, n, z, i)'
      BY <2>4, CauseStays
    <3>2. CauseOf(answer.op, answer.errno, answer.name, answer.size, Found(answer.path))'
      BY <2>3, <2>4, <3>1 DEF CauseOf
    <3> QED BY <3>2 DEF CauseOf, ErrorsHaveCauses
  <2> QED BY <2>1, <2>2, <2>3, <2>4
<1> QED BY <1>1, <1>2, NothingTold

LEMMA FailsAnswers ==
    ASSUME AnswerInv, call # NoCall, NEW errno, errno # "none", NEW failed,
           Fails(errno, failed),
           \/ failed
           \/ /\ call.op # "readdir"
              /\ CauseOf(call.op, errno, call.name, call.size, call.lookup.id)
    PROVE  AnswerInv'
<1>1. /\ call' = NoCall /\ UNCHANGED <<image, phase, mount>>
      /\ Answer(call.op, errno, failed, 0, <<>>)
  BY DEF Fails, Finish
<1>2. CASE failed
  <2>1. answer'.failed = failed /\ answer'.errno = errno
    BY <1>1, AnswerEffect
  <2>2. AnswersHold'
    BY <1>2, <2>1, NothingTold
  <2> QED BY <1>1, <2>2, FinishAnswers
<1>3. CASE /\ call.op # "readdir"
           /\ CauseOf(call.op, errno, call.name, call.size, call.lookup.id)
  <2>1. AnswersHold'
    BY <1>1, <1>3, CauseTold
  <2> QED BY <1>1, <2>1, FinishAnswers
<1> QED BY <1>2, <1>3

LEMMA SucceedsEffect ==
    ASSUME call # NoCall, NEW errno, NEW count, NEW value, Succeeds(errno, count, value)
    PROVE  /\ call' = NoCall /\ UNCHANGED <<image, phase, mount>>
           /\ answer' # NoAnswer
           /\ answer'.op = call.op /\ answer'.errno = errno /\ answer'.count = count
           /\ answer'.value = value /\ answer'.id = call.found
           /\ answer'.path = call.path /\ answer'.name = call.name
           /\ answer'.size = call.size
<1>1. /\ call' = NoCall /\ UNCHANGED <<image, phase, mount>>
      /\ Answer(call.op, errno, FALSE, count, value)
  BY DEF Succeeds, Finish
<1> QED BY <1>1, AnswerEffect

LEMMA OtherSucceeds ==
    ASSUME AnswerInv, call # NoCall, NEW count, NEW value,
           Succeeds("none", count, value), call.op \notin Told
    PROVE  AnswerInv'
<1>1. AnswersHold'
  BY SucceedsEffect, NothingTold
<1> QED BY <1>1, SucceedsEffect, FinishAnswers

LEMMA SeqParts ==
    ASSUME NEW S, NEW s \in Seq(S)
    PROVE  /\ Len(s) \in Nat /\ DOMAIN s = 1 .. Len(s)
           /\ \A i \in DOMAIN s : s[i] \in S
OBVIOUS

\* The entry that a callback with a path is about.
LEMMA CallIsAbout ==
    ASSUME AnswerInv, call # NoCall, call.op # "readdir", call.pc # "path",
           UNCHANGED <<image, mount>>
    PROVE  /\ phase = "mounted"
           /\ \A path : path = call.path => Found(path)' = call.found
           /\ \A id : Entry(id)' = Entry(id)
           /\ Len(Attributes) \in Nat /\ DOMAIN Attributes = 1 .. Len(Attributes)
           /\ \A i \in DOMAIN Attributes : Attributes[i] \in [name : STRING, size : Nat]
           /\ call.found = call.lookup.id
           /\ Attributes \in Seq(NamedAttributes)
           /\ Entry(call.found).kind = "link" => Entry(call.found).target # <<>>
           /\ Len(Entry(call.found).target) \in Nat
<1> DEFINE R == [name : STRING, size : Nat]
           s == Attributes
<1>1. /\ Mounted /\ phase = "mounted" /\ call.lookup.result = 1
      /\ call.found = call.lookup.id
      /\ call.lookup = mount_handle_get_file_entry_by_path(call.path)
      /\ call.path \in Seq(Characters)
  BY DEF AnswerInv, Mounted, Knows
<1>2. call.found \in DOMAIN Volume.entries
  BY <1>1, FoundIsThere
<1>3. s \in Seq(R)
  BY <1>1, <1>2, VolumeFacts DEF Attributes
<1>4. \A path : Found(path)' = mount_handle_get_file_entry_by_path(path).id
  BY VolumeStays DEF Found
<1> HIDE DEF R, s
<1>5. Len(s) \in Nat /\ DOMAIN s = 1 .. Len(s) /\ \A i \in DOMAIN s : s[i] \in R
  BY <1>3, SeqParts
<1>6. /\ \A i \in DOMAIN Entry(call.found).attributes :
            Len(Entry(call.found).attributes[i].name) \in Nat
      /\ Entry(call.found).kind = "link" => Entry(call.found).target # <<>>
      /\ Entry(call.found).target \in Seq(Characters)
  BY <1>1, <1>2, VolumeFacts, NamesInImage
<1>7. Len(Entry(call.found).target) \in Nat
  <2> DEFINE target == Entry(call.found).target
  <2>1. target \in Seq(Characters)
    BY <1>6
  <2> HIDE DEF target
  <2>2. Len(target) \in Nat
    BY <2>1
  <2> QED BY <2>2 DEF target
<1>8. s \in Seq(NamedAttributes)
  <2>1. \A i \in DOMAIN s : s[i] \in NamedAttributes
    BY <1>5, <1>6 DEF NamedAttributes, R, s, Attributes
  <2>2. s \in [1 .. Len(s) -> NamedAttributes]
    BY <1>3, <1>5, <2>1
  <2> QED BY <1>5, <2>2
<1> QED BY <1>1, <1>4, <1>5, <1>6, <1>7, <1>8, VolumeStays DEF R, s

LEMMA LookUpAnswers ==
    ASSUME Inv, AnswerInv, LookUp
    PROVE  AnswerInv'
<1> DEFINE found == call.lookup
<1>0. /\ call # NoCall /\ call.pc = "path" /\ Fields = DOMAIN call
      /\ call.op \in PathOps /\ call.op # "readdir" /\ Knows(call)
      /\ found = mount_handle_get_file_entry_by_path(call.path)
      /\ UNCHANGED <<image, phase, mount>>
  BY DEF LookUp, Inv, Shape, CallOK, AnswerInv, Knows, PathOps
<1>1. CASE found.result # 1
  <2>1. call' = NoCall /\ Answer(call.op, "ENOENT", FALSE, 0, <<>>)
    BY <1>1 DEF LookUp, Finish
  <2>2. found.id = 0
    BY <1>0, <1>1 DEF mount_handle_get_file_entry_by_path
  <2>3. CauseOf(call.op, "ENOENT", call.name, call.size, found.id)
    BY <2>2 DEF CauseOf
  <2>4. AnswersHold'
    BY <1>0, <2>1, <2>3, CauseTold
  <2> QED BY <1>0, <2>1, <2>4, FinishAnswers
<1>2. CASE found.result = 1 /\ call.op \in {"open", "opendir"}
  <2>1. /\ call' = NoCall /\ fh' = [fh EXCEPT ![call.handle] = found.id]
        /\ answer'.op = call.op /\ answer'.path = call.path /\ answer'.handle = call.handle
        /\ answer'.errno = "none"
    BY <1>2 DEF LookUp, Answer
  <2>2. call.handle \in Handles /\ DOMAIN fh = Handles /\ found.id # 0
    BY <1>0, <1>2 DEF Inv, Shape, CallOK
  <2>3. fh'[answer'.handle] = found.id
    BY <2>1, <2>2
  <2>4. \A path : Found(path)' = mount_handle_get_file_entry_by_path(path).id
    BY <1>0, VolumeStays DEF Found
  <2>5. AnswersAreRight'
    BY <1>0, <1>2, <2>1, <2>2, <2>3, <2>4 DEF AnswersAreRight, Succeeded
  <2>6. AnswersHold'
    BY <1>2, <2>1, <2>5, RightlyTold
  <2> QED BY <1>0, <2>1, <2>6, FinishAnswers
<1>3. CASE found.result = 1 /\ call.op \notin {"open", "opendir"}
  <2> DEFINE new == [call EXCEPT !.pc = After(call.op), !.found = found.id,
                                 !.file_entry = TRUE]
  <2>1. Advance(new)
    BY <1>3 DEF LookUp, Advance
  <2>2. /\ new.pc = After(call.op) /\ new.found = found.id /\ new.op = call.op
        /\ new.lookup = call.lookup /\ new.path = call.path /\ new.size = call.size
        /\ new.index = call.index /\ new.list_offset = call.list_offset /\ new.out = call.out
    BY <1>0 DEF Fields, Flags
  <2> HIDE DEF new
  <2>3. /\ Stage(call.op, After(call.op))
        /\ After(call.op) \in {"stat", "link", "attribute", "count"}
    BY <1>0, <1>3 DEF Stage, After, PathOps
  <2>4. call.index = 0 /\ call.list_offset = 0 /\ call.out = <<>> /\ call.size \in Nat
    BY <1>0 DEF Knows
  <2>5. Knows(new)
    BY <1>0, <1>3, <2>2, <2>3, <2>4 DEF Knows
  <2> QED BY <1>0, <2>1, <2>5, AdvanceAnswers
<1> QED BY <1>1, <1>2, <1>3

LEMMA GetAttributeAnswers ==
    ASSUME Inv, AnswerInv, GetAttribute
    PROVE  AnswerInv'
<1> DEFINE new == [call EXCEPT !.pc = "value", !.attribute = TRUE]
<1>0. /\ call # NoCall /\ call.pc = "attribute" /\ call.op = "getxattr"
      /\ Fields = DOMAIN call /\ Knows(call)
  BY DEF GetAttribute, Inv, Shape, CallOK, AnswerInv, Knows, Stage
<1>1. CASE AttributeNamed = {} /\ Succeeds("ENODATA", 0, <<>>)
  <2>1. /\ call' = NoCall /\ UNCHANGED <<image, phase, mount>>
        /\ Answer(call.op, "ENODATA", FALSE, 0, <<>>)
    BY <1>1 DEF Succeeds, Finish
  <2>2. call.found = call.lookup.id
    BY <1>0, <2>1, CallIsAbout
  <2>3. CauseOf(call.op, "ENODATA", call.name, call.size, call.lookup.id)
    BY <1>0, <1>1, <2>2 DEF CauseOf, AttributeNamed, Attributes
  <2>4. AnswersHold'
    BY <1>0, <2>1, <2>3, CauseTold
  <2> QED BY <1>0, <2>1, <2>4, FinishAnswers
<1>2. CASE Advance(new)
  <2>1. /\ new.pc = "value" /\ new.found = call.found /\ new.op = call.op
        /\ new.lookup = call.lookup /\ new.path = call.path /\ new.size = call.size
    BY <1>0 DEF Fields, Flags
  <2> HIDE DEF new
  <2>2. Knows(new)
    BY <1>0, <2>1 DEF Knows, Stage
  <2> QED BY <1>0, <1>2, <2>2, AdvanceAnswers
<1> QED BY <1>1, <1>2 DEF GetAttribute

LEMMA GetAttributeValueAnswers ==
    ASSUME Inv, AnswerInv, GetAttributeValue
    PROVE  AnswerInv'
<1>0. /\ call # NoCall /\ call.pc = "value" /\ call.op = "getxattr" /\ call.size \in Nat
  BY DEF GetAttributeValue, AnswerInv, Knows, Stage
<1>1. PICK i \in AttributeNamed :
         IF Attributes[i].size > MaxInt THEN Fails("E2BIG", FALSE)
         ELSE IF call.size # 0 /\ call.size < Attributes[i].size THEN Fails("ERANGE", FALSE)
         ELSE Succeeds("none", Attributes[i].size, <<>>)
  BY DEF GetAttributeValue
<1> DEFINE size == Attributes[i].size
<1>2. CASE call.size # 0 /\ call.size < size /\ Fails("ERANGE", FALSE)
  <2>1. UNCHANGED <<image, mount>>
    BY <1>2 DEF Fails
  <2>2. /\ call.found = call.lookup.id
        /\ \A j \in DOMAIN Attributes : Attributes[j] \in [name : STRING, size : Nat]
    BY <1>0, <2>1, CallIsAbout
  <2>3. i \in DOMAIN Attributes /\ Attributes[i].name = call.name
    BY DEF AttributeNamed
  <2>4. size \in Nat
    BY <2>2, <2>3
  <2> HIDE DEF size
  <2>5. size > call.size
    BY <1>0, <1>2, <2>4
  <2>6. CauseOf(call.op, "ERANGE", call.name, call.size, call.lookup.id)
    BY <1>0, <2>2, <2>3, <2>5 DEF CauseOf, Attributes, size
  <2> QED BY <1>0, <1>2, <2>6, FailsAnswers
<1>3. CASE ~(call.size # 0 /\ call.size < size) /\ Succeeds("none", size, <<>>)
  <2>1. /\ call' = NoCall /\ UNCHANGED <<image, phase, mount>>
        /\ answer'.op = "getxattr" /\ answer'.count = size /\ answer'.errno = "none"
        /\ answer'.path = call.path /\ answer'.name = call.name /\ answer'.size = call.size
    BY <1>0, <1>3, SucceedsEffect
  <2>2. /\ \A path : path = call.path => Found(path)' = call.found
        /\ \A id : Entry(id)' = Entry(id)
        /\ \A j \in DOMAIN Attributes : Attributes[j] \in [name : STRING, size : Nat]
    BY <1>0, <2>1, CallIsAbout
  <2>3. i \in DOMAIN Attributes /\ Attributes[i].name = call.name
    BY DEF AttributeNamed
  <2>4. Attributes[i] \in [name : STRING, size : Nat]
    BY <2>2, <2>3
  <2>5. Attributes[i] = [name |-> call.name, size |-> size] /\ size \in Nat
    <3> DEFINE a == Attributes[i]
    <3>1. a \in [name : STRING, size : Nat] /\ a.name = call.name
      BY <2>3, <2>4
    <3> HIDE DEF a
    <3>2. a = [name |-> a.name, size |-> a.size] /\ a.size \in Nat
      BY <3>1
    <3> QED BY <3>1, <3>2 DEF a
  <2> HIDE DEF size
  <2>6. call.size = 0 \/ size <= call.size
    BY <1>0, <1>3, <2>5
  <2>7. Found(answer.path)' = call.found /\ Entry(Found(answer.path))' = Entry(call.found)
    <3>1. Found(answer.path)' = call.found
      BY <2>1, <2>2
    <3> QED BY <2>2, <3>1
  <2>8. \E j \in DOMAIN Entry(call.found).attributes :
           Entry(call.found).attributes[j] = [name |-> call.name, size |-> size]
    BY <2>3, <2>5 DEF Attributes
  <2>9. AnswersAreRight'
    BY <2>1, <2>6, <2>7, <2>8 DEF AnswersAreRight, Succeeded
  <2>10. AnswersHold'
    BY <2>1, <2>9, RightlyTold
  <2> QED BY <1>0, <2>1, <2>10, FinishAnswers
<1>4. CASE size > MaxInt /\ Fails("E2BIG", FALSE)
  <2>1. UNCHANGED <<image, mount>>
    BY <1>4 DEF Fails
  <2>2. call.found = call.lookup.id
    BY <1>0, <2>1, CallIsAbout
  <2>3. i \in DOMAIN Attributes /\ Attributes[i].name = call.name
    BY DEF AttributeNamed
  <2>4. CauseOf(call.op, "E2BIG", call.name, call.size, call.lookup.id)
    BY <1>0, <1>4, <2>2, <2>3 DEF CauseOf, Attributes
  <2> QED BY <1>0, <1>4, <2>4, FailsAnswers
<1> QED BY <1>1, <1>2, <1>3, <1>4

LEMMA EmptyList == IsList(<<>>, 0)
BY DEF IsList

LEMMA CountAttributesAnswers ==
    ASSUME Inv, AnswerInv, CountAttributes
    PROVE  AnswerInv'
<1> DEFINE new == [call EXCEPT !.pc = "next attribute", !.total = Len(Attributes)]
<1>0. /\ call # NoCall /\ call.pc = "count" /\ call.op = "listxattr"
      /\ Fields = DOMAIN call /\ Knows(call) /\ Advance(new) /\ UNCHANGED <<image, mount>>
  BY DEF CountAttributes, Inv, Shape, CallOK, AnswerInv, Advance
<1>1. /\ new.pc = "next attribute" /\ new.found = call.found /\ new.op = call.op
      /\ new.lookup = call.lookup /\ new.path = call.path /\ new.size = call.size
      /\ new.index = 0 /\ new.list_offset = 0 /\ new.out = <<>> /\ new.total = Len(Attributes)
  BY <1>0 DEF Fields, Flags, Knows
<1> HIDE DEF new
<1>2. Len(Attributes) \in Nat /\ Attributes \in Seq(NamedAttributes)
  BY <1>0, CallIsAbout
<1>3. ListsAttributes(new)
  <2> DEFINE n == new.total
             k == new.index
             out == new.out
  <2>1. n = Len(Attributes) /\ n = Len(Entry(new.found).attributes)
    BY <1>1 DEF Attributes
  <2>2. k = 0 /\ out = <<>>
    BY <1>1
  <2> HIDE DEF n, k, out
  <2>3. n \in Nat
    BY <1>2, <2>1
  <2>4. k \in 0 .. n
    BY <2>2, <2>3
  <2>5. IsList(out, k)
    BY <2>2, EmptyList
  <2>6. \A j \in 1 .. k : out[j] = j
    BY <2>2
  <2>7. new.list_offset = ListSize(SubSeq(Entry(new.found).attributes, 1, k))
    <3> DEFINE attributes == Attributes
    <3>1. attributes \in Seq(NamedAttributes) /\ Entry(new.found).attributes = attributes
      BY <1>1, <1>2 DEF Attributes
    <3> HIDE DEF attributes
    <3>2. SubSeq(attributes, 1, 0) = <<>>
      BY <3>1
    <3> QED BY <1>1, <2>2, <3>1, <3>2, SizeOfNothing
  <2> QED BY <2>1, <2>4, <2>5, <2>6, <2>7 DEF ListsAttributes, n, k, out
<1>4. Knows(new)
  BY <1>0, <1>1, <1>3 DEF Knows, Stage
<1> QED BY <1>0, <1>4, AdvanceAnswers

LEMMA ListAttributeAnswers ==
    ASSUME Inv, AnswerInv, ListAttribute
    PROVE  AnswerInv'
<1> DEFINE taken == [call EXCEPT !.index = @ + 1, !.attribute = FALSE,
                                 !.list_offset = @ + NameSize(Attributes[call.index + 1]),
                                 !.out = Append(@, call.index + 1)]
           got == [call EXCEPT !.attribute = TRUE]
<1>0. /\ call # NoCall /\ call.pc = "next attribute" /\ call.op = "listxattr"
      /\ Fields = DOMAIN call /\ Knows(call) /\ ListsAttributes(call)
      /\ phase = "mounted"
  BY DEF ListAttribute, Inv, Shape, CallOK, AnswerInv, Mounted, Knows, Stage
<1>1. UNCHANGED <<image, mount>>
  BY DEF ListAttribute, Succeeds, Fails, Advance
<1>2. Len(Attributes) \in Nat /\ call.index \in Nat /\ call.total = Len(Attributes)
      /\ call.index <= call.total /\ Attributes \in Seq(NamedAttributes)
      /\ call.list_offset = ListSize(SubSeq(Attributes, 1, call.index))
  <2>1. Len(Attributes) \in Nat /\ Attributes \in Seq(NamedAttributes)
    BY <1>0, <1>1, CallIsAbout
  <2>3. call.list_offset = ListSize(SubSeq(Attributes, 1, call.index))
    BY <1>0 DEF ListsAttributes, Attributes
  <2>2. call.total = Len(Attributes) /\ call.index \in 0 .. call.total
    BY <1>0 DEF ListsAttributes, Attributes
  <2> QED BY <2>1, <2>2, <2>3
<1> DEFINE attributes == Attributes
           next == NameSize(Attributes[call.index + 1])
<1>7. ASSUME call.index # call.total
      PROVE  /\ call.list_offset \in Nat /\ next \in Nat
             /\ ListSize(SubSeq(attributes, 1, call.index + 1)) = call.list_offset + next
             /\ call.list_offset + next <= ListSize(attributes)
             /\ ListSize(attributes) \in Nat
  <2>1. attributes \in Seq(NamedAttributes) /\ call.index \in 0 .. Len(attributes) - 1
    BY <1>2, <1>7
  <2>2. /\ call.list_offset = ListSize(SubSeq(attributes, 1, call.index))
        /\ next = NameSize(attributes[call.index + 1])
    BY <1>2
  <2> HIDE DEF attributes, next
  <2>3. /\ ListSize(SubSeq(attributes, 1, call.index)) \in Nat
        /\ ListSize(SubSeq(attributes, 1, call.index + 1))
             = ListSize(SubSeq(attributes, 1, call.index)) + NameSize(attributes[call.index + 1])
        /\ ListSize(SubSeq(attributes, 1, call.index + 1)) <= ListSize(attributes)
        /\ NameSize(attributes[call.index + 1]) \in Nat
    BY <2>1, SizeOfOneMore
  <2>4. ListSize(attributes) \in Nat
    BY <2>1, SizeType
  <2> QED BY <2>2, <2>3, <2>4
<1> HIDE DEF attributes, next
<1>3. CASE call.index = call.total /\ Succeeds("none", call.list_offset, call.out)
  <2>1. /\ call' = NoCall /\ UNCHANGED <<image, phase, mount>>
        /\ answer'.op = "listxattr" /\ answer'.value = call.out
        /\ answer'.path = call.path /\ answer'.count = call.list_offset /\ answer'.errno = "none"
    BY <1>0, <1>3, SucceedsEffect
  <2>2. /\ \A path : path = call.path => Found(path)' = call.found
        /\ \A id : Entry(id)' = Entry(id)
        /\ DOMAIN Attributes = 1 .. Len(Attributes)
    BY <1>0, <2>1, CallIsAbout
  <2>3. Entry(Found(answer.path))' = Entry(call.found)
    <3>1. Found(answer.path)' = call.found
      BY <2>1, <2>2
    <3> QED BY <2>2, <3>1
  <2>4. call.out = [j \in DOMAIN Attributes |-> j]
    <3>1. IsList(call.out, call.index) /\ \A j \in 1 .. call.index : call.out[j] = j
      BY <1>0 DEF ListsAttributes
    <3> QED BY <1>2, <1>3, <2>2, <3>1 DEF IsList
  <2>5. call.list_offset = ListSize(Entry(call.found).attributes)
    <3>1. attributes \in Seq(NamedAttributes) /\ attributes = Entry(call.found).attributes
          /\ call.list_offset = ListSize(SubSeq(attributes, 1, Len(attributes)))
      BY <1>2, <1>3 DEF Attributes, attributes
    <3>2. SubSeq(attributes, 1, Len(attributes)) = attributes
      BY <3>1
    <3> QED BY <3>1, <3>2
  <2>6. AnswersAreRight'
    BY <2>1, <2>3, <2>4, <2>5 DEF AnswersAreRight, Succeeded, Attributes
  <2>7. AnswersHold'
    BY <2>1, <2>6, RightlyTold
  <2> QED BY <1>0, <2>1, <2>7, FinishAnswers
<1>4. CASE /\ call.index # call.total /\ ~Fits(Attributes[call.index + 1])
           /\ Fails("EIO", FALSE)
  <2> DEFINE size == call.size
             offset == call.list_offset
             whole == ListSize(attributes)
  <2>1. ~(next <= size - offset)
    BY <1>4 DEF Fits, next
  <2>2. /\ offset \in Nat /\ next \in Nat /\ whole \in Nat /\ size \in Nat
        /\ offset + next <= whole
    BY <1>0, <1>4, <1>7 DEF Knows
  <2> HIDE DEF size, offset, whole
  <2>3. size < whole
    BY <2>1, <2>2
  <2>4. call.found = call.lookup.id
    BY <1>0, <1>1, CallIsAbout
  <2>5. CauseOf(call.op, "EIO", call.name, call.size, call.lookup.id)
    BY <1>0, <2>3, <2>4 DEF CauseOf, Attributes, attributes, size, whole
  <2> QED BY <1>0, <1>4, <2>5, FailsAnswers
<1>5. CASE call.index # call.total /\ Advance(taken)
  <2>1. /\ taken.pc = call.pc /\ taken.found = call.found /\ taken.op = call.op
        /\ taken.lookup = call.lookup /\ taken.path = call.path /\ taken.size = call.size
        /\ taken.total = call.total /\ taken.index = call.index + 1
        /\ taken.out = Append(call.out, call.index + 1)
        /\ taken.list_offset = call.list_offset + next
    BY <1>0 DEF Fields, Flags, next
  <2> HIDE DEF taken
  <2> DEFINE n == call.index
             m == n + 1
             out == Append(call.out, m)
  <2>2. n \in Nat /\ m = n + 1 /\ m \in 1 .. call.total
    BY <1>2, <1>5
  <2>3. IsList(call.out, n) /\ \A j \in 1 .. n : call.out[j] = j
    BY <1>0 DEF ListsAttributes
  <2>4. taken.index = m /\ taken.out = out
    BY <2>1
  <2> HIDE DEF n, m
  <2> DEFINE old == call.out
  <2>5. IsNext(old, n, m)
    BY <2>2, <2>3 DEF IsNext
  <2> HIDE DEF old
  <2>6. Extends(Append(old, m), old, n, m, m)
    BY <2>5, ListGrows
  <2>7. IsList(out, m) /\ out[m] = m /\ \A j \in 1 .. n : out[j] = call.out[j]
    BY <2>6 DEF Extends, old
  <2> HIDE DEF out
  <2>8. \A j \in 1 .. m : out[j] = j
    BY <2>2, <2>3, <2>7
  <2> DEFINE total == taken.total
  <2>9. total = call.total /\ total = Len(Entry(taken.found).attributes)
    BY <1>2, <2>1 DEF Attributes
  <2> HIDE DEF total
  <2>10. m \in 0 .. total
    BY <2>2, <2>9
  <2>13. taken.list_offset = ListSize(SubSeq(Entry(taken.found).attributes, 1, m))
    BY <1>5, <1>7, <2>1 DEF Attributes, attributes, m, n
  <2>11. ListsAttributes(taken)
    BY <2>4, <2>7, <2>8, <2>9, <2>10, <2>13 DEF ListsAttributes, total
  <2>12. Knows(taken)
    BY <1>0, <2>1, <2>11 DEF Knows, Stage
  <2> QED BY <1>0, <1>5, <2>12, AdvanceAnswers
<1>6. CASE Advance(got)
  <2>1. /\ got.pc = call.pc /\ got.found = call.found /\ got.op = call.op
        /\ got.lookup = call.lookup /\ got.path = call.path /\ got.size = call.size
        /\ got.total = call.total /\ got.index = call.index /\ got.out = call.out
        /\ got.list_offset = call.list_offset
    BY <1>0 DEF Fields, Flags
  <2> HIDE DEF got
  <2>2. ListsAttributes(got)
    BY <1>0, <2>1 DEF ListsAttributes
  <2>3. Knows(got)
    BY <1>0, <2>1, <2>2 DEF Knows, Stage
  <2> QED BY <1>0, <1>6, <2>3, AdvanceAnswers
<1> QED BY <1>3, <1>4, <1>5, <1>6, Zenon DEF ListAttribute

\* "." and ".." are filled in before the sub file entries are counted.
LEMMA FillAnswers ==
    ASSUME Inv, AnswerInv, FillSelf \/ FillParent
    PROVE  AnswerInv'
<1>0. /\ call # NoCall /\ call.pc \in {"self", "parent"} /\ call.op = "readdir"
      /\ Fields = DOMAIN call /\ Knows(call)
  BY DEF FillSelf, FillParent, Inv, Shape, CallOK, AnswerInv, Knows, Stage
<1>1. PICK new :
         /\ Advance(new) /\ new.pc \in {"parent", "count"} /\ new.op = call.op
         /\ new.size = call.size /\ new.index = call.index /\ new.out = call.out
         /\ new.found = call.found /\ new.list_offset = call.list_offset
  <2>1. CASE FillSelf
    <3> DEFINE new == [call EXCEPT !.pc = "parent"]
    <3>1. /\ new.pc = "parent" /\ new.op = call.op /\ new.size = call.size
          /\ new.index = call.index /\ new.out = call.out
          /\ new.found = call.found /\ new.list_offset = call.list_offset
      BY <1>0 DEF Fields, Flags
    <3>2. Advance(new)
      BY <2>1 DEF FillSelf
    <3> HIDE DEF new
    <3> QED BY <3>1, <3>2
  <2>2. CASE FillParent
    <3> DEFINE freed == [call EXCEPT !.pc = "count", !.parent = FALSE]
               none == [call EXCEPT !.pc = "count"]
               got == [call EXCEPT !.parent = TRUE]
    <3>1. /\ freed.pc = "count" /\ freed.op = call.op /\ freed.size = call.size
          /\ freed.index = call.index /\ freed.out = call.out
          /\ freed.found = call.found /\ freed.list_offset = call.list_offset
      BY <1>0 DEF Fields, Flags
    <3>2. /\ none.pc = "count" /\ none.op = call.op /\ none.size = call.size
          /\ none.index = call.index /\ none.out = call.out
          /\ none.found = call.found /\ none.list_offset = call.list_offset
      BY <1>0 DEF Fields, Flags
    <3>3. /\ got.pc = call.pc /\ got.op = call.op /\ got.size = call.size
          /\ got.index = call.index /\ got.out = call.out
          /\ got.found = call.found /\ got.list_offset = call.list_offset
      BY <1>0 DEF Fields, Flags
    <3>4. (Advance(freed) \/ Advance(none) \/ Advance(got)) /\ call.pc = "parent"
      BY <2>2, Zenon DEF FillParent
    <3> HIDE DEF freed, none, got
    <3> QED BY <3>1, <3>2, <3>3, <3>4
  <2> QED BY <2>1, <2>2
<1>2. Knows(new)
  BY <1>0, <1>1 DEF Knows, Stage
<1> QED BY <1>0, <1>1, <1>2, AdvanceAnswers

LEMMA CountSubEntriesAnswers ==
    ASSUME Inv, AnswerInv, CountSubEntries
    PROVE  AnswerInv'
<1> DEFINE S == SubEntries(call.found)
           new == [call EXCEPT !.pc = "next entry", !.total = Cardinality(S)]
<1>0. /\ call # NoCall /\ call.pc = "count" /\ call.op = "readdir"
      /\ Fields = DOMAIN call /\ Knows(call) /\ Advance(new) /\ Mounted /\ phase = "mounted"
  BY DEF CountSubEntries, Inv, Shape, CallOK, AnswerInv, Mounted
<1>1. /\ new.pc = "next entry" /\ new.found = call.found /\ new.op = call.op
      /\ new.size = call.size /\ new.total = Cardinality(S)
      /\ new.index = 0 /\ new.out = <<>>
  BY <1>0 DEF Fields, Flags, Knows
<1> HIDE DEF new
<1>2. ListsSubEntries(new)
  <2> DEFINE n == new.total
             k == new.index
             out == new.out
  <2>1. n = Cardinality(S) /\ k = 0 /\ out = <<>> /\ SubEntries(new.found) = S
    BY <1>1
  <2> HIDE DEF n, k, out
  <2>2. n \in Nat
    BY <1>0, <2>1, VolumeFacts, FS_CardinalityType
  <2>3. k \in 0 .. n
    BY <2>1, <2>2
  <2>4. IsList(out, k)
    BY <2>1, EmptyList
  <2>5. 1 .. k = {}
    BY <2>1
  <2> HIDE DEF S
  <2> QED BY <2>1, <2>3, <2>4, <2>5 DEF ListsSubEntries, n, k, out
<1>3. Knows(new)
  BY <1>0, <1>1, <1>2 DEF Knows, Stage
<1> QED BY <1>0, <1>3, AdvanceAnswers

LEMMA FillSubEntryAnswers ==
    ASSUME Inv, AnswerInv, FillSubEntry
    PROVE  AnswerInv'
<1> DEFINE S == SubEntries(call.found)
           n == call.index
           old == call.out
           id == SubEntry(call.found, n)
           entry == mount_fuse_filldir(id)
           freed == [call EXCEPT !.index = @ + 1, !.sub = FALSE, !.out = Append(@, entry)]
           got == [call EXCEPT !.sub = TRUE]
<1>0. /\ call # NoCall /\ call.pc = "next entry" /\ call.op = "readdir"
      /\ Fields = DOMAIN call /\ Knows(call) /\ ListsSubEntries(call)
      /\ Mounted /\ phase = "mounted"
  BY DEF FillSubEntry, Inv, Shape, CallOK, AnswerInv, Mounted, Knows, Stage
<1>1. /\ IsFiniteSet(S) /\ S \subseteq Nat /\ Cardinality(S) \in Nat
      /\ call.total = Cardinality(S) /\ n \in 0 .. Cardinality(S) /\ IsList(old, n)
      /\ \A j \in 1 .. n : /\ old[j].id \in S /\ Rank(S, old[j].id) = j - 1
                           /\ old[j].name = ShownName(old[j].id)
  BY <1>0, VolumeFacts, FS_CardinalityType DEF ListsSubEntries
<1>2. CASE n = call.total /\ Succeeds("none", call.total, old)
  <2>1. /\ call' = NoCall /\ UNCHANGED <<image, phase, mount>>
        /\ answer'.op = "readdir" /\ answer'.value = old /\ answer'.id = call.found
        /\ answer'.errno = "none"
    BY <1>0, <1>2, SucceedsEffect
  <2>2. SubEntries(answer.id)' = S
    BY <2>1, VolumeStays
  <2> HIDE DEF S, n, old
  <2>3. n \in Nat /\ n = Cardinality(S) /\ Len(old) = n /\ DOMAIN old = 1 .. n
    BY <1>1, <1>2, ListFacts
  <2>4. ASSUME NEW e \in S
        PROVE  \E j \in 1 .. n : old[j].id = e
    <3> DEFINE r == Rank(S, e)
               j == r + 1
    <3>1. r \in 0 .. Cardinality(S) - 1
      BY <1>1, Ranks
    <3> HIDE DEF r
    <3>2. j \in 1 .. n /\ j - 1 = r
      BY <2>3, <3>1
    <3> HIDE DEF j
    <3>3. old[j].id \in S /\ Rank(S, old[j].id) = r
      BY <1>1, <3>2
    <3>4. old[j].id = e
      BY <1>1, <3>3, Ranks DEF r
    <3> QED BY <3>2, <3>4
  <2>5. {old[j].id : j \in DOMAIN old} = S
    BY <1>1, <2>3, <2>4
  <2>6. AnswersAreRight'
    BY <2>1, <2>2, <2>3, <2>5 DEF AnswersAreRight, Succeeded
  <2>7. NamesAreShown'
    <3>1. answer'.id # 0
      BY <1>0, <2>1 DEF Knows
    <3>2. ASSUME NEW j \in DOMAIN old, NEW e, e = old[j].id
          PROVE  e \in S /\ old[j].name = ShownName(e)'
      <4>1. j \in 1 .. n
        BY <2>3
      <4>2. ShownName(e)' = ShownName(e)
        BY <2>1, VolumeStays
      <4> QED BY <1>1, <3>2, <4>1, <4>2
    <3> QED BY <2>1, <2>2, <3>1, <3>2 DEF NamesAreShown
  <2>8. AnswersHold'
    BY <2>1, <2>6, <2>7, RightlyTold
  <2> QED BY <1>0, <2>1, <2>8, FinishAnswers
<1>3. CASE n # call.total /\ Advance(freed)
  <2> DEFINE m == n + 1
             out == Append(old, entry)
  <2>1. /\ freed.pc = call.pc /\ freed.found = call.found /\ freed.op = call.op
        /\ freed.size = call.size /\ freed.total = call.total
        /\ freed.index = m /\ freed.out = out
    BY <1>0 DEF Fields, Flags
  <2>2. entry.id = id /\ entry.name = ShownName(id)
    BY DEF mount_fuse_filldir, ShownName
  <2> HIDE DEF freed, entry, S
  <2>3. n \in Nat /\ m = n + 1 /\ m \in 1 .. Cardinality(S) /\ n \in 0 .. Cardinality(S) - 1
    BY <1>1, <1>3
  <2>4. id \in S /\ Rank(S, id) = n
    BY <1>0, <2>3, SubEntryFacts DEF S
  <2>5. IsNext(old, n, m)
    BY <1>1, <2>3 DEF IsNext
  <2> HIDE DEF n, old, id, m
  <2>6. Extends(out, old, n, m, entry)
    BY <2>5, ListGrows
  <2>7. /\ IsList(out, m) /\ out[m] = entry
        /\ \A j \in 1 .. n : out[j] = old[j]
    BY <2>6 DEF Extends
  <2> HIDE DEF out
  <2>8. m - 1 = n /\ m \in 0 .. Cardinality(S)
    BY <2>3
  <2>9. ASSUME NEW j \in 1 .. m
        PROVE  /\ out[j].id \in S /\ Rank(S, out[j].id) = j - 1
               /\ out[j].name = ShownName(out[j].id)
    <3>1. CASE j = m
      BY <2>2, <2>4, <2>7, <2>8, <3>1
    <3>2. CASE j # m
      <4>1. j \in 1 .. n
        BY <2>3, <3>2
      <4> QED BY <1>1, <2>7, <4>1
    <3> QED BY <3>1, <3>2
  <2>10. SubEntries(freed.found) = S /\ freed.total = Cardinality(S)
    BY <1>1, <2>1 DEF S
  <2>11. ListsSubEntries(freed)
    BY <2>1, <2>7, <2>8, <2>9, <2>10 DEF ListsSubEntries
  <2>12. Knows(freed)
    BY <1>0, <2>1, <2>11 DEF Knows, Stage
  <2> QED BY <1>0, <1>3, <2>12, AdvanceAnswers
<1>4. CASE Advance(got)
  <2>1. /\ got.pc = call.pc /\ got.found = call.found /\ got.op = call.op
        /\ got.size = call.size /\ got.total = call.total
        /\ got.index = call.index /\ got.out = call.out
    BY <1>0 DEF Fields, Flags
  <2> HIDE DEF got
  <2>2. ListsSubEntries(got)
    BY <1>0, <2>1 DEF ListsSubEntries
  <2>3. Knows(got)
    BY <1>0, <2>1, <2>2 DEF Knows, Stage
  <2> QED BY <1>0, <1>4, <2>3, AdvanceAnswers
<1> QED BY <1>2, <1>3, <1>4, Zenon DEF FillSubEntry

LEMMA StepAnswers ==
    ASSUME Inv, AnswerInv, Step
    PROVE  AnswerInv'
<1>1. CASE LookUp
  BY <1>1, LookUpAnswers
<1>2. CASE GetStat
  <2>1. /\ call # NoCall /\ call.op = "getattr"
        /\ Succeeds("none", 0, <<mount_fuse_set_stat_info(call.found)>>)
    BY <1>2 DEF GetStat, AnswerInv, Knows, Stage
  <2> QED BY <2>1, OtherSucceeds DEF Told
<1>3. CASE ReadLink
  <2>1. call # NoCall /\ call.op = "readlink"
    BY <1>3 DEF ReadLink, AnswerInv, Knows, Stage
  <2> DEFINE target == Entry(call.found).target
             size == call.size
  <2>2. CASE (target = <<>> \/ size < Len(target) + 1) /\ Fails("EIO", FALSE)
    <3>1. UNCHANGED <<image, mount>> /\ call.pc # "path"
      BY <1>3, <2>2 DEF Fails, ReadLink
    <3>2. /\ call.found = call.lookup.id /\ Len(target) \in Nat
          /\ Entry(call.found).kind = "link" => target # <<>>
      BY <2>1, <3>1, CallIsAbout
    <3>3. size \in Nat
      BY <2>1 DEF AnswerInv, Knows
    <3>4. Entry(call.found).kind # "link" \/ size <= Len(target)
      <4> DEFINE n == Len(target)
      <4>1. CASE target = <<>>
        BY <3>2, <4>1
      <4>2. CASE size < n + 1
        <5> HIDE DEF size, n
        <5>1. size <= n
          BY <3>2, <3>3, <4>2 DEF n
        <5> QED BY <5>1 DEF n
      <4> QED BY <2>2, <4>1, <4>2
    <3>5. CauseOf(call.op, "EIO", call.name, call.size, call.lookup.id)
      BY <2>1, <3>2, <3>4 DEF CauseOf
    <3> QED BY <2>1, <2>2, <3>5, FailsAnswers
  <2>3. CASE Succeeds("none", 0, Entry(call.found).target)
    BY <2>1, <2>3, OtherSucceeds DEF Told
  <2> QED BY <1>3, <2>2, <2>3 DEF ReadLink
<1>4. CASE GetAttribute
  BY <1>4, GetAttributeAnswers
<1>5. CASE GetAttributeValue
  BY <1>5, GetAttributeValueAnswers
<1>6. CASE CountAttributes
  BY <1>6, CountAttributesAnswers
<1>7. CASE ListAttribute
  BY <1>7, ListAttributeAnswers
<1>8. CASE FillSelf \/ FillParent
  BY <1>8, FillAnswers
<1>9. CASE CountSubEntries
  BY <1>9, CountSubEntriesAnswers
<1>10. CASE FillSubEntry
  BY <1>10, FillSubEntryAnswers
<1> QED BY <1>1, <1>2, <1>3, <1>4, <1>5, <1>6, <1>7, <1>8, <1>9, <1>10 DEF Step

\* A step of the program, or of FUSE with a handle that is open.
LEMMA ProgramAnswers ==
    ASSUME AnswerInv, mount_handle_open \/ mount_handle_open_fails \/ fuse_mount
                      \/ fuse_mount_fails \/ mount_fuse_destroy
    PROVE  AnswerInv'
<1>1. call = NoCall /\ answer = NoAnswer /\ UNCHANGED <<image, call, answer>>
  BY DEF AnswerInv, Mounted, mount_handle_open, mount_handle_open_fails, fuse_mount,
     fuse_mount_fails, mount_fuse_destroy
<1>2. phase' \in {"open", "mounted"} => mount'.volume \in 1 .. Len(image)
  BY DEF AnswerInv, Mounted, mount_handle_open, mount_handle_open_fails, fuse_mount,
     fuse_mount_fails, mount_fuse_destroy
<1>3. Mounted'
  BY <1>1, <1>2 DEF AnswerInv, Mounted
<1>4. AnswersHold'
  BY <1>1, NothingTold
<1> QED BY <1>1, <1>3, <1>4 DEF AnswerInv

LEMMA HandleAnswers ==
    ASSUME AnswerInv, mount_fuse_read \/ mount_fuse_release \/ mount_fuse_releasedir
    PROVE  AnswerInv'
<1>0. ASSUME NEW op, NEW h, NEW size, NEW errno, NEW failed, NEW count,
             OpenEntry(op, h, size, errno, failed, count)
      PROVE  answer'.op = op /\ answer'.errno = errno /\ answer'.failed = failed
  BY <1>0 DEF OpenEntry
<1>1. /\ call = NoCall /\ phase = "mounted" /\ UNCHANGED <<image, phase, mount, call>>
      /\ answer'.op \in {"read", "release", "releasedir"}
      /\ answer'.errno = "none" \/ answer'.failed
  <2>1. CASE mount_fuse_read
    BY <1>0, <2>1 DEF Idle, mount_fuse_read
  <2>2. CASE mount_fuse_release
    BY <1>0, <2>2 DEF Idle, mount_fuse_release, Release
  <2>3. CASE mount_fuse_releasedir
    BY <1>0, <2>3 DEF Idle, mount_fuse_releasedir, Release
  <2> QED BY <2>1, <2>2, <2>3
<1>2. Mounted'
  BY <1>1 DEF AnswerInv, Mounted
<1>3. AnswersHold'
  BY <1>1, NothingTold DEF Told
<1> QED BY <1>1, <1>2, <1>3 DEF AnswerInv

LEMMA RefusalAnswers ==
    ASSUME AnswerInv, mount_fuse_open_for_writing
    PROVE  AnswerInv'
<1>0. PICK h \in Handles, path \in Paths :
        answer' = [op |-> "open for writing", path |-> path, name |-> "", size |-> 0,
                   handle |-> h, id |-> 0, errno |-> "EACCES", failed |-> FALSE,
                   count |-> 0, value |-> <<>>]
  BY Zenon DEF mount_fuse_open_for_writing
<1>1. /\ call = NoCall /\ phase = "mounted" /\ UNCHANGED <<image, phase, mount, call>>
      /\ answer'.op = "open for writing" /\ answer'.errno = "EACCES"
  <2>1. answer'.op = "open for writing" /\ answer'.errno = "EACCES"
    BY <1>0
  <2>2. call = NoCall /\ phase = "mounted" /\ UNCHANGED <<image, phase, mount, call>>
    BY Zenon DEF Idle, mount_fuse_open_for_writing
  <2> QED BY <2>1, <2>2, Zenon
<1>2. Mounted'
  BY <1>1 DEF AnswerInv, Mounted
<1>3. ErrorsHaveCauses'
  BY <1>1 DEF ErrorsHaveCauses
<1>4. AnswersHold'
  BY <1>1, <1>3, NothingTold
<1> QED BY <1>1, <1>2, <1>4 DEF AnswerInv

LEMMA ReadDirAnswers ==
    ASSUME AnswerInv, mount_fuse_readdir
    PROVE  AnswerInv'
<1>1. PICK h \in Handles :
        /\ fh[h] # 0
        /\ Begin([NewCall("readdir", <<>>, h, "", 0) EXCEPT !.pc = "self", !.found = fh[h]])
  BY DEF mount_fuse_readdir
<1> DEFINE new == [NewCall("readdir", <<>>, h, "", 0) EXCEPT !.pc = "self", !.found = fh[h]]
<1>2. /\ new.op = "readdir" /\ new.pc = "self" /\ new.size = 0
      /\ new.index = 0 /\ new.list_offset = 0 /\ new.out = <<>> /\ new.found # 0
  BY <1>1 DEF NewCall
<1>3. Begin(new)
  BY <1>1
<1> HIDE DEF new
<1>4. Knows(new)
  BY <1>2 DEF Knows, Stage
<1> QED BY <1>3, <1>4, BeginAnswers

\* A callback with a path begins.
LEMMA PathAnswers ==
    ASSUME AnswerInv, NEW op \in PathOps, NEW path \in Paths, NEW h, NEW name, NEW size \in Nat,
           Begin(NewCall(op, path, h, name, size))
    PROVE  AnswerInv'
<1> DEFINE new == NewCall(op, path, h, name, size)
<1>1. Knows(new) /\ Begin(new)
  BY NewKnows
<1> HIDE DEF new
<1> QED BY <1>1, BeginAnswers

LEMMA AnswersInit == Init => AnswerInv
<1> SUFFICES ASSUME Init PROVE AnswerInv OBVIOUS
<1>1. Mounted
  BY DEF Init, Mounted
<1>2. \A op : ~Succeeded(op)
  BY DEF Init, Succeeded
<1>3. AnswersHold
  BY <1>2 DEF Init, AnswersHold, AnswersAreRight, ErrorsHaveCauses, NamesAreShown
<1> QED BY <1>1, <1>3 DEF Init, AnswerInv

LEMMA AnswersNext ==
    ASSUME Inv, AnswerInv, [Next]_vars
    PROVE  AnswerInv'
<1>1. CASE Step
  BY <1>1, StepAnswers
<1>2. CASE LibraryFails
  <2>1. call # NoCall /\ \E errno \in {"ENOENT", "EIO"} : Fails(errno, TRUE)
    BY <1>2 DEF LibraryFails
  <2> QED BY <2>1, FailsAnswers
<1>3. CASE mount_fuse_open \/ mount_fuse_opendir \/ mount_fuse_getattr
  BY <1>3, PathAnswers DEF mount_fuse_open, mount_fuse_opendir, mount_fuse_getattr,
     OpenWith, PathOps
<1>4. CASE mount_fuse_readlink \/ mount_fuse_getxattr \/ mount_fuse_listxattr
  BY <1>4, SizesAssumption, PathAnswers
     DEF mount_fuse_readlink, mount_fuse_getxattr, mount_fuse_listxattr, PathOps
<1>5. CASE mount_fuse_readdir
  BY <1>5, ReadDirAnswers
<1>6. CASE mount_fuse_read \/ mount_fuse_release \/ mount_fuse_releasedir
  BY <1>6, HandleAnswers
<1>7. CASE \/ mount_handle_open \/ mount_handle_open_fails \/ fuse_mount
           \/ fuse_mount_fails \/ mount_fuse_destroy
  BY <1>7, ProgramAnswers
<1>8. CASE Return
  <2>1. /\ answer # NoAnswer /\ answer' = NoAnswer
        /\ UNCHANGED <<image, phase, mount, call>>
    BY <1>8 DEF Return
  <2>2. Mounted'
    BY <2>1 DEF AnswerInv, Mounted
  <2>3. call' = NoCall
    BY <2>1 DEF AnswerInv, Mounted
  <2>4. AnswersHold'
    BY <2>1, NothingTold
  <2> QED BY <2>2, <2>3, <2>4 DEF AnswerInv
<1>10. CASE mount_fuse_open_for_writing
  BY <1>10, RefusalAnswers
<1>9. CASE UNCHANGED vars
  <2>1. UNCHANGED <<image, phase, mount, fh, call, answer>>
    BY <1>9 DEF vars
  <2>2. Mounted'
    BY <2>1 DEF AnswerInv, Mounted
  <2>3. call' # NoCall => Knows(call)'
    <3>1. call # NoCall => Knows(call')
      BY <2>1 DEF AnswerInv
    <3> QED BY <2>1, <3>1, KnowsStays
  <2>4. AnswersAreRight'
    BY <2>1, VolumeStays DEF AnswerInv, AnswersHold, AnswersAreRight, Succeeded, Found
  <2>5. NamesAreShown'
    BY <2>1, VolumeStays DEF AnswerInv, AnswersHold, NamesAreShown, Succeeded
  <2>6. ErrorsHaveCauses'
    <3>1. Volume' = Volume
      BY <2>1 DEF Volume
    <3>2. ErrorsHaveCauses
      BY DEF AnswerInv, AnswersHold
    <3> QED BY <2>1, <3>1, <3>2
        DEF ErrorsHaveCauses, Found, Entry, mount_handle_get_file_entry_by_path
  <2>7. AnswersHold'
    BY <2>4, <2>5, <2>6 DEF AnswersHold
  <2> QED BY <2>2, <2>3, <2>7 DEF AnswerInv
<1> QED
  BY <1>1, <1>2, <1>3, <1>4, <1>5, <1>6, <1>7, <1>8, <1>9, <1>10 DEF Next

\* An answer is about the file entry at the path, and it is complete: a file that
\* is opened is the one found, the value of an attribute has the size that is told,
\* every attribute is listed, and every sub file entry is shown once, whichever
\* calls of the library failed before (mount_fuse_open, mount_fuse_opendir,
\* mount_fuse_getxattr, mount_fuse_listxattr, mount_fuse_readdir).
THEOREM AnswersRight == Spec => []AnswersAreRight
<1>1. Init => Inv /\ AnswerInv
  BY InitInv, AnswersInit
<1>2. Inv /\ AnswerInv /\ [Next]_vars => Inv' /\ AnswerInv'
  BY NextInv, AnswersNext
<1>3. AnswerInv => AnswersAreRight
  BY DEF AnswerInv, AnswersHold
<1> QED BY <1>1, <1>2, <1>3, PTL DEF Spec

\* An error that is not one of the library has a cause: nothing is at the path,
\* there is no such attribute, or the buffer is smaller than the size that is told
\* when asked for it (mount_fuse_getxattr, mount_fuse_listxattr,
\* mount_fuse_readlink and the look-up of every callback).
THEOREM ErrorsAreCaused == Spec => []ErrorsHaveCauses
<1>1. Init => Inv /\ AnswerInv
  BY InitInv, AnswersInit
<1>2. Inv /\ AnswerInv /\ [Next]_vars => Inv' /\ AnswerInv'
  BY NextInv, AnswersNext
<1>3. AnswerInv => ErrorsHaveCauses
  BY DEF AnswerInv, AnswersHold
<1> QED BY <1>1, <1>2, <1>3, PTL DEF Spec

LEMMA ShownNamesResolve ==
    ASSUME AnswerInv
    PROVE  PlainNamesResolve
<1> SUFFICES ASSUME Succeeded("readdir"), NEW i \in DOMAIN answer.value, NEW path \in Paths,
                    Found(path) = answer.id, EndsInName(path),
                    Entry(answer.value[i].id).name \in Seq(Characters \ {"/"})
             PROVE  Found(PathWith(path, answer.value[i].name)) = answer.value[i].id
  BY DEF PlainNamesResolve
<1> DEFINE e == answer.value[i].id
<1>1. image \in Images /\ mount.volume \in 1 .. Len(image)
  BY DEF AnswerInv, Mounted, Succeeded
<1>2. /\ Found(path) # 0 /\ e \in SubEntries(Found(path))
      /\ answer.value[i].name = mount_path_string_copy_from_file_entry_path(Entry(e).name)
  BY DEF AnswerInv, AnswersHold, NamesAreShown, ShownName
<1>3. path \in Seq(Characters)
  BY PathsAssumption
<1> HIDE DEF e
<1>4. Found(PathIn(path, Entry(e).name)) = e
  BY <1>1, <1>2, <1>3, FoundIn DEF e
<1> QED BY <1>2, <1>4 DEF PathIn, PathWith, e

\* The names that readdir shows and that have no separator lead back to the file
\* entries that they were shown for: a path of the directory, a separator and what
\* is shown, turned back and looked up, finds that file entry, whatever escapes and
\* other characters there are, in names with a separator next to it too
\* (mount_path_string_copy_from_file_entry_path,
\* mount_path_string_copy_to_file_entry_path and the look-up of the library).
THEOREM NamesResolve == Spec => []PlainNamesResolve
<1>1. Init => Inv /\ AnswerInv
  BY InitInv, AnswersInit
<1>2. Inv /\ AnswerInv /\ [Next]_vars => Inv' /\ AnswerInv'
  BY NextInv, AnswersNext
<1>3. AnswerInv => PlainNamesResolve
  BY ShownNamesResolve
<1> QED BY <1>1, <1>2, <1>3, PTL DEF Spec
============================================================================
