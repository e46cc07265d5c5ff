--------------------------- MODULE PythonBindings ---------------------------
(***************************************************************************)
(* The Python extension pyfsapfs: the Python objects that wrap a container,*)
(* its volumes, their file entries and the extended attributes of those,   *)
(* the sequence objects that iterate over them, and the file-like object   *)
(* the library reads the container from.                                   *)
(*                                                                         *)
(* Every method runs with the global interpreter lock (GIL), gives it up   *)
(* around the library call (Py_BEGIN_ALLOW_THREADS), takes it again to make*)
(* its result, and the library comes back into Python, with the GIL, each  *)
(* time it reads the file-like object.  A library object is used by other  *)
(* threads meanwhile, and it borrows from the one it was made from: the    *)
(* Python object keeps that one alive by a reference to its parent.        *)
(*                                                                         *)
(* The application keeps to what the extension needs of it: a container is *)
(* opened and closed by a thread that has it to itself, and is closed only *)
(* when nothing made from it is left; a sequence object is iterated by one *)
(* thread at a time.  It may open a container that is open: that is refused*)
(* with an IOError.                                                        *)
(***************************************************************************)
EXTENDS Integers, Sequences, FiniteSets

CONSTANTS
    Threads,        \* threads of the application
    Objects,        \* the Python objects that can exist at once, numbered
    NoThread,
    NoObject,
    MaxOfKind,      \* objects of a kind that the application has at once
    NumberOfItems,  \* items of every sequence (volumes, sub entries, attributes)
    MaxReads,       \* reads of the file-like object in one library call
    MaxHeld         \* references the application keeps to one object

ASSUME NamesAssumption == /\ NoThread \notin Threads
                          /\ NoObject \notin Objects
                          /\ Objects \subseteq Nat
ASSUME FiniteAssumption == IsFiniteSet(Threads) /\ IsFiniteSet(Objects)

SequenceKinds == {"volumes", "file_entries", "extended_attributes"}
Kinds == {"container", "volume", "file_entry", "extended_attribute"} \cup SequenceKinds

ASSUME BoundsAssumption == /\ {NumberOfItems, MaxReads, MaxHeld} \subseteq Nat
                           /\ MaxOfKind \in [Kinds \ {"container"} -> Nat]

VARIABLES
    gil,      \* the thread that holds the global interpreter lock
    object,   \* the Python objects: kind, refs, parent and, for a sequence, its state
    handle,   \* the library objects they wrap: what each one borrows from
    lock,     \* the lock of every library object
    opened,   \* how the library's container is open: "no", from a "file" or a file-like
              \* "object", or "dangling", through a file IO handle that was freed
    ioHandle, \* the container object has a file_io_handle
    ioLock,   \* the lock of the file IO handle (libbfio)
    position, \* where the file-like object was left by the last seek
    app,      \* references of the application
    call      \* what every thread is doing

vars == <<gil, object, handle, lock, opened, ioHandle, ioLock, position, app, call>>


NotThere == [kind |-> "none", refs |-> 0, parent |-> NoObject,
             current_index |-> 0, given |-> <<>>]
NoHandle == [held |-> FALSE, from |-> NoObject]

(***************************************************************************)
(* The methods.  A method of a Python object makes one or two library calls*)
(* (a name is asked for its size first), each of which may read from the   *)
(* container; the result is a plain value or a new object.                 *)
(***************************************************************************)
Method(kind, calls, gives) == [kind |-> kind, calls |-> calls, gives |-> gives]
Getter(kind)               == Method(kind, 1, "value")
Finder(kind, gives)        == Method(kind, 1, gives)

container_is_locked             == Getter("container")
container_get_size              == Getter("container")
container_get_identifier        == Getter("container")
container_get_number_of_volumes == Getter("container")
container_get_volume_by_index   == Finder("container", "volume")
container_get_volume            == container_get_volume_by_index
container_get_volumes           == Method("container", 1, "volumes")

ContainerMethods ==
    {container_is_locked, container_get_size, container_get_identifier,
     container_get_number_of_volumes, container_get_volume, container_get_volumes}

volume_unlock                       == Getter("volume")
volume_get_size                     == Getter("volume")
volume_get_identifier               == Getter("volume")
volume_get_name                     == Method("volume", 2, "value")
volume_is_locked                    == Getter("volume")
volume_set_password                 == Getter("volume")
volume_set_recovery_password        == Getter("volume")
volume_get_next_file_entry_identifier == Getter("volume")
volume_get_file_entry_by_identifier == Finder("volume", "file_entry")
volume_get_root_directory           == Finder("volume", "file_entry")
volume_get_file_entry_by_path       == Finder("volume", "file_entry")

VolumeMethods ==
    {volume_unlock, volume_get_size, volume_get_identifier, volume_get_name,
     volume_is_locked, volume_set_password, volume_set_recovery_password,
     volume_get_next_file_entry_identifier, volume_get_file_entry_by_identifier,
     volume_get_root_directory, volume_get_file_entry_by_path}

file_entry_get_identifier           == Getter("file_entry")
file_entry_get_parent_identifier    == Getter("file_entry")
file_entry_get_creation_time        == Getter("file_entry")
file_entry_get_creation_time_as_integer == Getter("file_entry")
file_entry_get_modification_time    == Getter("file_entry")
file_entry_get_modification_time_as_integer == Getter("file_entry")
file_entry_get_access_time          == Getter("file_entry")
file_entry_get_access_time_as_integer == Getter("file_entry")
file_entry_get_inode_change_time    == Getter("file_entry")
file_entry_get_inode_change_time_as_integer == Getter("file_entry")
file_entry_get_added_time           == Getter("file_entry")
file_entry_get_added_time_as_integer == Getter("file_entry")
file_entry_get_number_of_links      == Getter("file_entry")
file_entry_get_owner_identifier     == Getter("file_entry")
file_entry_get_group_identifier     == Getter("file_entry")
file_entry_get_device_number        == Getter("file_entry")
file_entry_get_file_mode            == Getter("file_entry")
file_entry_get_name                 == Method("file_entry", 2, "value")
file_entry_get_symbolic_link_target == Method("file_entry", 2, "value")
file_entry_get_number_of_extended_attributes == Getter("file_entry")
file_entry_get_extended_attribute_by_index == Finder("file_entry", "extended_attribute")
file_entry_get_extended_attribute   == file_entry_get_extended_attribute_by_index
file_entry_get_extended_attributes  == Finder("file_entry", "extended_attributes")
file_entry_has_extended_attribute_by_name == Getter("file_entry")
file_entry_get_extended_attribute_by_name == Finder("file_entry", "extended_attribute")
file_entry_get_number_of_sub_file_entries == Getter("file_entry")
file_entry_get_sub_file_entry_by_index == Finder("file_entry", "file_entry")
file_entry_get_sub_file_entry       == file_entry_get_sub_file_entry_by_index
file_entry_get_sub_file_entries     == Finder("file_entry", "file_entries")
file_entry_get_sub_file_entry_by_name == Finder("file_entry", "file_entry")
file_entry_read_buffer              == Method("file_entry", 2, "value")
file_entry_read_buffer_at_offset    == Getter("file_entry")
file_entry_seek_offset              == Getter("file_entry")
file_entry_get_offset               == Getter("file_entry")
file_entry_get_size                 == Getter("file_entry")
file_entry_get_number_of_extents    == Getter("file_entry")
file_entry_get_extent_by_index      == Getter("file_entry")
file_entry_get_extent               == file_entry_get_extent_by_index

FileEntryMethods ==
    {file_entry_get_identifier, file_entry_get_parent_identifier,
     file_entry_get_creation_time, file_entry_get_creation_time_as_integer,
     file_entry_get_modification_time, file_entry_get_modification_time_as_integer,
     file_entry_get_access_time, file_entry_get_access_time_as_integer,
     file_entry_get_inode_change_time, file_entry_get_inode_change_time_as_integer,
     file_entry_get_added_time, file_entry_get_added_time_as_integer,
     file_entry_get_number_of_links, file_entry_get_owner_identifier,
     file_entry_get_group_identifier, file_entry_get_device_number,
     file_entry_get_file_mode, file_entry_get_name,
     file_entry_get_symbolic_link_target,
     file_entry_get_number_of_extended_attributes, file_entry_get_extended_attribute,
     file_entry_get_extended_attributes, file_entry_has_extended_attribute_by_name,
     file_entry_get_extended_attribute_by_name,
     file_entry_get_number_of_sub_file_entries, file_entry_get_sub_file_entry,
     file_entry_get_sub_file_entries, file_entry_get_sub_file_entry_by_name,
     file_entry_read_buffer, file_entry_read_buffer_at_offset, file_entry_seek_offset,
     file_entry_get_offset, file_entry_get_size, file_entry_get_number_of_extents,
     file_entry_get_extent}

extended_attribute_get_identifier    == Getter("extended_attribute")
extended_attribute_get_name          == Method("extended_attribute", 2, "value")
extended_attribute_read_buffer       == Method("extended_attribute", 2, "value")
extended_attribute_read_buffer_at_offset == Getter("extended_attribute")
extended_attribute_seek_offset       == Getter("extended_attribute")
extended_attribute_get_offset        == Getter("extended_attribute")
extended_attribute_get_size          == Getter("extended_attribute")
extended_attribute_get_number_of_extents == Getter("extended_attribute")
extended_attribute_get_extent_by_index == Getter("extended_attribute")
extended_attribute_get_extent        == extended_attribute_get_extent_by_index

ExtendedAttributeMethods ==
    {extended_attribute_get_identifier, extended_attribute_get_name,
     extended_attribute_read_buffer, extended_attribute_read_buffer_at_offset,
     extended_attribute_seek_offset, extended_attribute_get_offset,
     extended_attribute_get_size, extended_attribute_get_number_of_extents,
     extended_attribute_get_extent}

\* signal_abort takes no lock; open and open_file_object, close: see below.
container_signal_abort     == [Getter("container") EXCEPT !.gives = "abort"]
container_open             == [Getter("container") EXCEPT !.gives = "opened"]
container_open_file_object == [Getter("container") EXCEPT !.gives = "opened"]
container_close            == [Getter("container") EXCEPT !.gives = "closed"]

HandleMethods == ContainerMethods \cup VolumeMethods \cup FileEntryMethods
                 \cup ExtendedAttributeMethods
Methods == HandleMethods \cup {container_signal_abort, container_open,
                               container_open_file_object, container_close}

(***************************************************************************)
(* What a thread does: nothing; a call of a method of self, whose library  *)
(* calls are made on the library object of target (the parent, when the    *)
(* method is a sequence's); or the deallocation of self.                   *)
(***************************************************************************)
Idle == [at |-> "idle", self |-> NoObject, target |-> NoObject, gives |-> "none",
         calls |-> 0, reads |-> 0, ok |-> FALSE, item |-> -1]

Start(o, target, m, item) ==
    [at |-> "enter", self |-> o, target |-> target, gives |-> m.gives,
     calls |-> m.calls, reads |-> 0, ok |-> FALSE, item |-> item]

Dealloc(o, at) == [Idle EXCEPT !.at = at, !.self = o, !.target = o]

CallsOn(o) == {t \in Threads : call[t].self = o \/ call[t].target = o}
Free == {o \in Objects : object[o].kind = "none"}
NewObject == CHOOSE o \in Free : \A p \in Free : o <= p

\* Threads that have not to wait for the interpreter: nobody holds it.
HasGil(t) == gil \in {NoThread, t}

\* Py_BEGIN_ALLOW_THREADS: the library runs without the interpreter.
BeginAllowThreads == gil' = NoThread

Init ==
    /\ gil = NoThread
    /\ object = [o \in Objects |-> NotThere]
    /\ handle = [o \in Objects |-> NoHandle]
    /\ lock = [o \in Objects |-> NoThread]
    /\ opened = "no"
    /\ ioHandle = FALSE
    /\ ioLock = NoThread
    /\ position = NoObject
    /\ app = [o \in Objects |-> 0]
    /\ call = [t \in Threads |-> Idle]

(***************************************************************************)
(* Reference counts.  Dropping the last reference of a sequence frees it at*)
(* once, and drops the one to its parent; that of any other object starts  *)
(* its deallocation, which gives the interpreter up.                       *)
(***************************************************************************)
IncRef(objects, o) == [objects EXCEPT ![o].refs = @ + 1]

\* Fault: the parent's reference is forgotten.
SequenceKeepsParent(objects, s) == [objects EXCEPT ![s] = NotThere]

sequence_free(objects, s) ==
    [objects EXCEPT ![s] = NotThere, ![objects[s].parent].refs = @ - 1]

IsLastOfSequence(objects, o) == objects[o].kind \in SequenceKinds /\ objects[o].refs = 1

DecRef(objects, o) ==
    LET dropped == [objects EXCEPT ![o].refs = @ - 1]
    IN  IF IsLastOfSequence(objects, o) THEN sequence_free(dropped, o) ELSE dropped

\* A container that has a file_io_handle is closed before it is freed.
container_free(objects, o) ==
    Dealloc(o, IF objects[o].kind = "container" /\ ioHandle THEN "close" ELSE "free")

\* The thread drops a reference to o and goes on with what that starts.
Drop(t, objects, o) ==
    LET after == DecRef(objects, o)
        last == IF IsLastOfSequence(objects, o) THEN objects[o].parent ELSE o
    IN  /\ object' = after
        /\ call' = [call EXCEPT ![t] =
                       IF after[last].refs = 0 THEN container_free(after, last) ELSE Idle]

(***************************************************************************)
(* The application: it makes containers, calls methods of the objects it   *)
(* has a reference to, and lets go of its references.                      *)
(***************************************************************************)
IsBusy(o) == \E t \in CallsOn(o) : call[t].at # "idle"
IsExclusivelyUsed(o) ==
    \E t \in CallsOn(o) : call[t].gives \in {"opened", "closed"}

\* container( ): a container object that is not open.
container_init(t) ==
    /\ gil = NoThread /\ call[t].at = "idle"
    /\ \A o \in Objects : object[o].kind # "container"
    /\ Free # {}
    /\ object' = [object EXCEPT ![NewObject] =
                     [NotThere EXCEPT !.kind = "container", !.refs = 1]]
    /\ handle' = [handle EXCEPT ![NewObject].held = TRUE]
    /\ app' = [app EXCEPT ![NewObject] = 1]
    /\ UNCHANGED <<gil, lock, opened, ioHandle, ioLock, position, call>>

\* pyfsapfs.open_file_object( ): makes a container and opens it at once; the
\* only reference is the call's, which the application gets when it succeeds.
open_new_container_with_file_object(t) ==
    /\ gil = NoThread /\ call[t].at = "idle"
    /\ \A o \in Objects : object[o].kind # "container"
    /\ Free # {}
    /\ object' = [object EXCEPT ![NewObject] =
                     [NotThere EXCEPT !.kind = "container", !.refs = 1]]
    /\ handle' = [handle EXCEPT ![NewObject].held = TRUE]
    /\ ioHandle' = TRUE
    /\ call' = [call EXCEPT ![t] = Start(NewObject, NewObject,
                   [container_open_file_object EXCEPT !.gives = "container"], -1)]
    /\ BeginAllowThreads
    /\ UNCHANGED <<lock, opened, ioLock, position, app>>

CanCall(t, o) == gil = NoThread /\ call[t].at = "idle" /\ app[o] > 0

OfKind(kind) == {o \in Objects : object[o].kind = kind} \cup
                {t \in Threads : call[t].gives = kind}
HasRoomFor(gives) == gives \in DOMAIN MaxOfKind =>
                        Cardinality(OfKind(gives)) < MaxOfKind[gives]

\* A method that uses the library object of o.
CallMethod(t, o, m) ==
    /\ CanCall(t, o)
    /\ object[o].kind = m.kind
    /\ ~IsExclusivelyUsed(o)
    /\ HasRoomFor(m.gives)
    /\ object' = IncRef(object, o)
    /\ call' = [call EXCEPT ![t] = Start(o, o, m, -1)]
    /\ BeginAllowThreads
    /\ UNCHANGED <<handle, lock, opened, ioHandle, ioLock, position, app>>

\* open( ) and open_file_object( ) of a container that is not open, and close( ),
\* when nothing made from it is left; no other thread uses the container.
CallExclusive(t, o, m) ==
    /\ CanCall(t, o)
    /\ object[o].kind = m.kind
    /\ ~IsBusy(o)
    /\ IF m.gives = "opened" THEN opened = "no" /\ ~ioHandle
       ELSE \A p \in Objects : object[p].kind \in {"none", "container"}
    /\ object' = IncRef(object, o)
    /\ ioHandle' = (ioHandle \/ m = container_open_file_object)
    /\ call' = [call EXCEPT ![t] = Start(o, o, m, -1)]
    /\ BeginAllowThreads
    /\ UNCHANGED <<handle, lock, opened, ioLock, position, app>>

\* open_file_object( ) of a container that has a file_io_handle fails before the
\* library is called, and on_error frees the handle, which the library still has
\* when it is open.  Where the library uses it afterwards the outcome is undefined:
\* the program stops, or goes on as long as the memory is not used for anything
\* else.  Any other way to open a container that is open changes nothing: the
\* library refuses it, and frees no handle but the one that was just made.
container_open_file_object_refused(t, o) ==
    /\ CanCall(t, o)
    /\ object[o].kind = container_open_file_object.kind
    /\ ~IsBusy(o)
    /\ ioHandle
    /\ ioHandle' = FALSE
    /\ opened' = IF opened = "no" THEN "no" ELSE "dangling"
    /\ UNCHANGED <<gil, object, handle, lock, ioLock, position, app, call>>

\* iter( ) gives the sequence object itself.
sequence_iter(t, s) ==
    /\ CanCall(t, s) /\ object[s].kind \in SequenceKinds
    /\ app[s] < MaxHeld
    /\ object' = IncRef(object, s)
    /\ app' = [app EXCEPT ![s] = @ + 1]
    /\ UNCHANGED <<gil, handle, lock, opened, ioHandle, ioLock, position, call>>

\* The library call by which a sequence gets an item of its parent.
ItemMethod(s) ==
    CASE object[s].kind = "volumes" -> container_get_volume_by_index
      [] object[s].kind = "file_entries" -> file_entry_get_sub_file_entry_by_index
      [] object[s].kind = "extended_attributes" -> file_entry_get_extended_attribute_by_index

CallItem(t, s, item, moves) ==
    /\ CanCall(t, s) /\ object[s].kind \in SequenceKinds
    /\ HasRoomFor(ItemMethod(s).gives)
    /\ object' = IncRef(object, s)
    /\ call' = [call EXCEPT ![t] =
                   Start(s, object[s].parent, ItemMethod(s), IF moves THEN item ELSE -1)]
    /\ BeginAllowThreads
    /\ UNCHANGED <<handle, lock, opened, ioHandle, ioLock, position, app>>

\* An index out of bounds is refused before anything is asked of the parent.
sequence_getitem(t, s) ==
    \E item \in 0 .. NumberOfItems - 1 : CallItem(t, s, item, FALSE)

\* The item at current_index, unless that is past the last (StopIteration).
sequence_iternext(t, s) ==
    /\ \A u \in CallsOn(s) : call[u].item = -1
    /\ object[s].current_index < NumberOfItems
    /\ CallItem(t, s, object[s].current_index, TRUE)

\* The application lets go of a reference.
ReleaseReference(t, o) ==
    /\ CanCall(t, o)
    /\ app' = [app EXCEPT ![o] = @ - 1]
    /\ Drop(t, object, o)
    /\ UNCHANGED <<gil, handle, lock, opened, ioHandle, ioLock, position>>

(***************************************************************************)
(* The library.  It works under the lock of the object, and reads the file-*)
(* like object, when the container has one, through the file IO handle:    *)
(* under the handle's own lock it seeks and then reads, each time with the *)
(* interpreter.                                                            *)
(***************************************************************************)
EnterLibrary(t) ==
    /\ call[t].at = "enter"
    /\ call[t].gives # "abort"
    /\ lock[call[t].target] = NoThread
    /\ lock' = [lock EXCEPT ![call[t].target] = t]
    /\ call' = [call EXCEPT ![t].at = "library"]
    /\ UNCHANGED <<gil, object, handle, opened, ioHandle, ioLock, position, app>>

\* container_signal_abort sets a flag, without the lock.
SignalAbort(t) ==
    /\ call[t].at = "enter"
    /\ call[t].gives = "abort"
    /\ call' = [call EXCEPT ![t].at = "return", ![t].ok = TRUE]
    /\ UNCHANGED <<gil, object, handle, lock, opened, ioHandle, ioLock, position, app>>

\* The library was given a file IO handle for the file-like object.
ReadsFileObject == ioHandle \/ opened = "dangling"

\* Fault: the file IO handle is not locked.
SeekUnlocked(t) ==
    /\ call[t].at = "library"
    /\ call[t].gives # "closed" /\ call[t].reads < MaxReads
    /\ ReadsFileObject /\ HasGil(t)
    /\ ioLock' = t
    /\ position' = call[t].target
    /\ call' = [call EXCEPT ![t].at = "read", ![t].reads = @ + 1]
    /\ UNCHANGED <<gil, object, handle, lock, opened, ioHandle, app>>

\* The offset asked for, named after the library object it is read for.
file_object_io_handle_seek_offset(t) ==
    /\ call[t].at = "library"
    /\ call[t].gives # "closed" /\ call[t].reads < MaxReads
    /\ ReadsFileObject /\ ioLock = NoThread /\ HasGil(t)
    /\ ioLock' = t
    /\ position' = call[t].target
    /\ call' = [call EXCEPT ![t].at = "read", ![t].reads = @ + 1]
    /\ UNCHANGED <<gil, object, handle, lock, opened, ioHandle, app>>

\* PyGILState_Ensure, the file-like object's read( ), PyGILState_Release.
file_object_io_handle_read(t) ==
    /\ call[t].at = "read" /\ HasGil(t)
    /\ gil' = t
    /\ call' = [call EXCEPT ![t].at = "reading"]
    /\ UNCHANGED <<object, handle, lock, opened, ioHandle, ioLock, position, app>>

file_object_read_buffer(t) ==
    /\ call[t].at = "reading"
    /\ gil' = NoThread
    /\ ioLock' = NoThread
    /\ position' = NoObject
    /\ call' = [call EXCEPT ![t].at = "library"]
    /\ UNCHANGED <<object, handle, lock, opened, ioHandle, app>>

Opens(gives) == gives \in {"opened", "container"}

\* The library is done.  Nothing of a container that is not open succeeds but
\* opening it, and closing one that is open does.
LeaveLibrary(t, ok) ==
    LET gives == call[t].gives
    IN  /\ call[t].at = "library"
        /\ ~Opens(gives) /\ object[call[t].target].kind = "container" /\ ok => opened # "no"
        /\ gives = "closed" => ok = (opened # "no")
        /\ opened' = IF ~ok THEN opened
                     ELSE IF Opens(gives) THEN (IF ioHandle THEN "object" ELSE "file")
                     ELSE IF gives = "closed" THEN "no"
                     ELSE opened
        /\ lock' = [lock EXCEPT ![call[t].target] = NoThread]
        /\ call' = [call EXCEPT ![t].at = "return", ![t].ok = ok, ![t].reads = 0]
        /\ UNCHANGED <<gil, object, handle, ioHandle, ioLock, position, app>>

(***************************************************************************)
(* Back in Python, with the interpreter.                                   *)
(***************************************************************************)
MakesObject(gives) == gives \in Kinds \ {"container"}

\* Fault: an attribute, too, has the parent of its entry.
ParentIsTheVolume(gives, target) ==
    IF object[target].kind = "file_entry" THEN object[target].parent ELSE target

\* A sub entry has the parent of its entry, the volume; all others have the
\* object the method was called on.
ParentOf(gives, target) ==
    IF object[target].kind = "file_entry" /\ gives = "file_entry" THEN object[target].parent
    ELSE target

\* What a library object borrows from: a volume from its container, an entry
\* from the volume's file system, an attribute from its entry.
LenderOf(gives, target) ==
    IF object[target].kind = "file_entry" /\ gives = "file_entry" THEN handle[target].from
    ELSE target

object_new(objects, kind, parent) ==
    IncRef([objects EXCEPT ![NewObject] =
               [NotThere EXCEPT !.kind = kind, !.refs = 1, !.parent = parent]], parent)

\* Fault: every item got by index moves the iterator on.
MoveOnAlways(objects, t) ==
    IF objects[call[t].self].kind \notin SequenceKinds THEN objects
    ELSE [objects EXCEPT ![call[t].self].current_index =
                            IF @ < NumberOfItems THEN @ + 1 ELSE @]

\* iternext moves on when it has an item to give.
MoveOn(objects, t) ==
    IF call[t].item = -1 THEN objects
    ELSE [objects EXCEPT ![call[t].self].current_index = @ + 1,
                         ![call[t].self].given = Append(@, call[t].item)]

\* Fault: the second library call is made with the interpreter.
SecondCallKeepsInterpreter(t) ==
    /\ call[t].at = "return" /\ HasGil(t)
    /\ call[t].ok /\ call[t].calls > 1
    /\ call' = [call EXCEPT ![t].at = "enter", ![t].calls = @ - 1, ![t].ok = FALSE]
    /\ gil' = t
    /\ UNCHANGED <<object, handle, lock, opened, ioHandle, ioLock, position, app>>

\* A name, a link target or data: its size is known, now the thing itself.
ReturnForSecondCall(t) ==
    /\ call[t].at = "return" /\ HasGil(t)
    /\ call[t].ok /\ call[t].calls > 1
    /\ call' = [call EXCEPT ![t].at = "enter", ![t].calls = @ - 1, ![t].ok = FALSE]
    /\ BeginAllowThreads
    /\ UNCHANGED <<object, handle, lock, opened, ioHandle, ioLock, position, app>>

\* The method gives a new object for what the library made.
ReturnObject(t) ==
    LET gives == call[t].gives
    IN  /\ call[t].at = "return" /\ HasGil(t)
        /\ call[t].ok /\ MakesObject(gives) /\ Free # {}
        /\ handle' = IF gives \in SequenceKinds THEN handle
                     ELSE [handle EXCEPT ![NewObject] =
                              [held |-> TRUE, from |-> LenderOf(gives, call[t].target)]]
        /\ app' = [app EXCEPT ![NewObject] = 1]
        /\ Drop(t, MoveOn(object_new(object, gives, ParentOf(gives, call[t].target)), t),
                call[t].self)
        /\ gil' = NoThread
        /\ UNCHANGED <<lock, opened, ioHandle, ioLock, position>>

\* The method gives a value, None or an exception; a library object for which
\* no Python object can be made, or which is not there, leaves nothing behind.
ReturnValue(t) ==
    LET gives == call[t].gives
    IN  /\ call[t].at = "return" /\ HasGil(t)
        /\ ~Opens(gives) /\ gives # "closed"
        /\ Drop(t, object, call[t].self)
        /\ gil' = NoThread
        /\ UNCHANGED <<handle, lock, opened, ioHandle, ioLock, position, app>>

\* open and open_file_object: on_error frees the file_io_handle.
container_open_returns(t) ==
    LET gives == call[t].gives
    IN  /\ call[t].at = "return" /\ HasGil(t)
        /\ Opens(gives)
        /\ ioHandle' = (ioHandle /\ call[t].ok)
        /\ IF gives = "container" /\ call[t].ok
           THEN /\ app' = [app EXCEPT ![call[t].self] = 1]
                /\ call' = [call EXCEPT ![t] = Idle]
                /\ UNCHANGED object
           ELSE /\ object' = DecRef(object, call[t].self)
                /\ call' = [call EXCEPT ![t] =
                               IF object'[call[t].self].refs = 0
                               THEN Dealloc(call[t].self, IF ioHandle' THEN "close" ELSE "free")
                               ELSE Idle]
                /\ UNCHANGED app
        /\ gil' = NoThread
        /\ UNCHANGED <<handle, lock, opened, ioLock, position>>

\* close: the file_io_handle is freed once the library let go of it.
container_close_returns(t) ==
    /\ call[t].at = "return" /\ HasGil(t)
    /\ call[t].gives = "closed"
    /\ IF call[t].ok /\ ioHandle
       THEN /\ call' = [call EXCEPT ![t].at = "freeio"]
            /\ UNCHANGED object
       ELSE Drop(t, object, call[t].self)
    /\ gil' = NoThread
    /\ UNCHANGED <<handle, lock, opened, ioHandle, ioLock, position, app>>

\* libbfio_handle_free comes back for the reference to the file-like object.
file_object_io_handle_free(t) ==
    /\ call[t].at = "freeio" /\ HasGil(t)
    /\ ioHandle' = FALSE
    /\ call' = [call EXCEPT ![t].at = IF call[t].gives = "none" THEN "free" ELSE "return"]
    /\ UNCHANGED <<gil, object, handle, lock, opened, ioLock, position, app>>

(***************************************************************************)
(* Deallocation of the object whose last reference was dropped.            *)
(***************************************************************************)
DeallocCloses(t) ==
    /\ call[t].at = "close" /\ lock[call[t].self] = NoThread
    /\ opened' = "no"
    /\ call' = [call EXCEPT ![t].at = "freeio"]
    /\ UNCHANGED <<gil, object, handle, lock, ioHandle, ioLock, position, app>>

\* The library object is freed without the interpreter, ...
DeallocFrees(t) ==
    /\ call[t].at = "free"
    /\ handle' = [handle EXCEPT ![call[t].self] = NoHandle]
    /\ opened' = IF object[call[t].self].kind = "container" THEN "no" ELSE opened
    /\ call' = [call EXCEPT ![t].at = "freed"]
    /\ UNCHANGED <<gil, object, lock, ioHandle, ioLock, position, app>>

\* ... then the reference to the parent is dropped and the object is gone.
DeallocDropsParent(t) ==
    LET o == call[t].self
        gone == [object EXCEPT ![o] = NotThere]
    IN  /\ call[t].at = "freed" /\ HasGil(t)
        /\ IF object[o].parent = NoObject
           THEN object' = gone /\ call' = [call EXCEPT ![t] = Idle]
           ELSE Drop(t, gone, object[o].parent)
        /\ gil' = NoThread
        /\ UNCHANGED <<handle, lock, opened, ioHandle, ioLock, position, app>>

-----------------------------------------------------------------------------
Application(t) ==
    \/ container_init(t)
    \/ open_new_container_with_file_object(t)
    \/ \E o \in Objects :
         \/ \E m \in HandleMethods \cup {container_signal_abort} : CallMethod(t, o, m)
         \/ \E m \in {container_open, container_open_file_object, container_close} :
               CallExclusive(t, o, m)
         \/ container_open_file_object_refused(t, o)
         \/ sequence_iter(t, o)
         \/ sequence_getitem(t, o)
         \/ sequence_iternext(t, o)
         \/ ReleaseReference(t, o)

\* The steps of a call that need a lock or the interpreter, and those that need
\* neither.
Waits(t) ==
    \/ EnterLibrary(t) \/ DeallocCloses(t)
    \/ file_object_io_handle_seek_offset(t) \/ file_object_io_handle_read(t)
    \/ ReturnObject(t) \/ ReturnValue(t) \/ ReturnForSecondCall(t)
    \/ container_open_returns(t) \/ container_close_returns(t)
    \/ file_object_io_handle_free(t) \/ DeallocDropsParent(t)
Works(t) ==
    \/ SignalAbort(t) \/ file_object_read_buffer(t) \/ DeallocFrees(t)
    \/ \E ok \in BOOLEAN : LeaveLibrary(t, ok)

Next == \E t \in Threads : Application(t) \/ Waits(t) \/ Works(t)

Spec == Init /\ [][Next]_vars

-----------------------------------------------------------------------------
Phases == {"idle", "enter", "library", "read", "reading", "return",
           "close", "freeio", "free", "freed"}

Up(o) == IF o = NoObject THEN NoObject ELSE handle[o].from
Lenders(o) == {o, Up(o), Up(Up(o)), Up(Up(Up(o)))} \ {NoObject}
InLibrary(t) == call[t].at \in {"enter", "library", "read", "reading",
                                "close", "free"}


LendersAreHeld(t) == \A o \in Lenders(call[t].target) : handle[o].held

\* The thread uses the file IO handle of a file-like object: it reads, or it closes
\* or frees a container that was opened through it (libbfio_handle_close).
UsesIoHandle(t) ==
    \/ call[t].at \in {"read", "reading"}
    \/ /\ \/ call[t].at = "library" /\ call[t].gives = "closed"
          \/ /\ call[t].at \in {"close", "free"}
             /\ object[call[t].self].kind = "container"
       /\ opened \in {"object", "dangling"}

\* While a thread is in the library on behalf of an object, that library object
\* and every one it borrows from, directly or not, are there; and so is the file
\* IO handle it uses.  A second open_file_object( ), which is refused, is to leave
\* the container as it was, so that it can be closed
\* (tests/pyfsapfs_test_container.py:199-202).
UsesAreLive ==
    \A t \in Threads :
        /\ InLibrary(t) => LendersAreHeld(t)
        /\ UsesIoHandle(t) => ioHandle

\* The library objects a thread uses are there, whatever other threads let go of
\* meanwhile: the interpreter is not held (pyfsapfs_volume_new,
\* pyfsapfs_file_entry_new and pyfsapfs_extended_attribute_new keep the parent).
\* So is the file IO handle, read through, closed or freed by whichever thread,
\* unless a second open_file_object( ) freed it: no failed open, no close and no
\* deallocation does.
OnlyReopeningFreesWhatIsUsed ==
    \A t \in Threads :
        /\ InLibrary(t) => LendersAreHeld(t)
        /\ UsesIoHandle(t) => ioHandle \/ opened = "dangling"

\* The count of an object is the references there are: the application's, those
\* of the objects made from it and those of the calls that run; when none is
\* left exactly one thread deallocates it, and a library object is there just
\* as long as its Python object.  So nothing is freed early or left behind.
ReferencesAreCounted ==
    \A o \in Objects :
        LET children == {p \in Objects : object[p].kind # "none" /\ object[p].parent = o}
            calling == {t \in Threads : call[t].self = o /\ call[t].gives # "none"}
            freeing == {t \in Threads : call[t].self = o /\ call[t].gives = "none"}
            isFreed == \E t \in freeing : call[t].at = "freed"
        IN  IF object[o].kind = "none" THEN app[o] = 0 /\ ~handle[o].held
            ELSE /\ object[o].refs = app[o] + Cardinality(children) + Cardinality(calling)
                 /\ (object[o].refs = 0) = (Cardinality(freeing) = 1)
                 /\ handle[o].held = (object[o].kind \notin SequenceKinds /\ ~isFreed)

\* An iteration gives every item once and in order, whatever fails on the way:
\* the item that could not be had is the next to be asked for.
IterationIsExact ==
    \A o \in Objects :
        object[o].given = [i \in 1 .. object[o].current_index |-> i - 1]

\* The file-like object is read where the library asked, although it is shared
\* by all objects of the container and its position is moved in a step of its own.
ReadsAreWhereAsked ==
    \A t \in Threads : call[t].at = "reading" => position = call[t].target

\* While calls run, some thread that is in one can take its next step: no thread
\* waits for a lock with the interpreter that the holder of the lock needs to read
\* the file-like object.  As a call has finitely many steps, none hangs.
CallsGoOn ==
    (\E t \in Threads : call[t].at # "idle") =>
        \E t \in Threads : ENABLED Waits(t) \/ ENABLED Works(t)
=============================================================================
