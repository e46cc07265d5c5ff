------------------------------- MODULE Mount -------------------------------
(***************************************************************************)
(* fsapfsmount: the main program (fsapfsmount.c), the mount handle and     *)
(* mount file system (mount_handle.c, mount_file_system.c), the mounted    *)
(* file entries (mount_file_entry.c), the names they are given             *)
(* (mount_path_string.c) and the callbacks of FUSE (mount_fuse.c).  FUSE   *)
(* runs one callback at a time; a callback makes several calls of the      *)
(* library, each of which may fail, and has to free what it got before.    *)
(*                                                                         *)
(* A name is a sequence of characters:                                     *)
(*   "\\", "/"  escape, separator           "x", "U"  letters of escapes   *)
(*   "ctl", "odd"  a control character, one that cannot be printed         *)
(*   "01", "2f", "00002028"  the digits of their codes, as text            *)
(* and any others, which are shown as they are.                            *)
(***************************************************************************)
EXTENDS Integers, Sequences, FiniteSets

CONSTANTS
    Images,     \* the containers that may be mounted, see below
    Options,    \* the options of the program: [index, password]
    Handles,    \* what FUSE keeps of the files and directories it has open
    Paths,      \* the paths it asks for
    Others,     \* the other characters
    Names,      \* names of extended attributes
    Sizes,      \* sizes of buffers
    MaxInt      \* INT_MAX

ASSUME HandlesAssumption == IsFiniteSet(Handles)

Characters == {"\\", "/", "x", "U", "ctl", "odd", "01", "2f", "00002028"} \cup Others

ASSUME OthersAssumption == "none" \notin Others

\* An image is a sequence of volumes [password, entries]; a volume without a
\* password is "" and is not locked.  The entries are a function of identifiers;
\* Root is the identifier of the root directory.  An entry is
\* [name, parent, kind, size, attributes, target], its attributes a sequence of
\* [name, size].
Root == 2

ASSUME ImagesAssumption ==
    \A volumes \in Images : \A v \in 1 .. Len(volumes) :
        LET identifiers == DOMAIN volumes[v].entries
        IN  /\ IsFiniteSet(identifiers) /\ identifiers \subseteq Nat
            /\ Root \in identifiers
            /\ \A id \in identifiers :
                  volumes[v].entries[id].attributes \in Seq([name : STRING, size : Nat])

\* A link has a target, attributes have names of some length; the names of file
\* entries are not empty, may have a separator, and those in a directory differ.
ASSUME NamesAssumption ==
    \A volumes \in Images : \A v \in 1 .. Len(volumes) :
        LET entry == volumes[v].entries
        IN  \A id \in DOMAIN entry :
                /\ \A i \in DOMAIN entry[id].attributes : Len(entry[id].attributes[i].name) \in Nat
                /\ entry[id].kind = "link" => entry[id].target # <<>>
                /\ entry[id].target \in Seq(Characters)
                /\ entry[id].name \in Seq(Characters) \ {<<>>}
                /\ \A other \in DOMAIN entry \ {Root, id} :
                      id # Root /\ entry[other].parent = entry[id].parent =>
                          entry[other].name # entry[id].name
ASSUME SizesAssumption == Sizes \subseteq Nat /\ MaxInt \in Nat
ASSUME PathsAssumption == \A path \in Paths : path \in Seq(Characters)

VARIABLES
    image,       \* the container
    options,     \* the options of the program
    phase,       \* "start", "open", "mounted", "ended"
    mount,       \* the mount handle: [volume, is_locked, io], volume 0 for none
    fh,          \* of each handle: the identifier of its file entry, 0 for none
    call,        \* the callback that runs, or NoCall
    entries,     \* how many file entries of the library there are
    answer       \* what the last callback answered, or NoAnswer

vars == <<image, options, phase, mount, fh, call, entries, answer>>

NoMount == [volume |-> 0, is_locked |-> FALSE, io |-> FALSE]
NoCall == [op |-> "none"]
NoAnswer == [op |-> "none"]

Init ==
    /\ image \in Images
    /\ options \in Options
    /\ phase = "start"
    /\ mount = NoMount
    /\ fh = [h \in Handles |-> 0]
    /\ call = NoCall
    /\ entries = 0
    /\ answer = NoAnswer

----------------------------------------------------------------------------
(* Names.  The program shows names with characters escaped and turns paths *)
(* back before it looks them up.                                           *)

\* Fault: the escape character is not escaped itself.
EscapeAllButEscape(char) ==
    CASE char = "ctl" -> <<"\\", "x", "01">>
      [] char = "/" -> <<"\\", "x", "2f">>
      [] char = "odd" -> <<"\\", "U", "00002028">>
      [] OTHER -> <<char>>

EscapeCharacter(char) ==
    CASE char = "ctl" -> <<"\\", "x", "01">>
      [] char = "/" -> <<"\\", "x", "2f">>
      [] char = "odd" -> <<"\\", "U", "00002028">>
      [] char = "\\" -> <<"\\", "\\">>
      [] OTHER -> <<char>>

mount_path_string_copy_from_file_entry_path(name) ==
    LET Path[i \in 0 .. Len(name)] ==
            IF i = 0 THEN <<>> ELSE Path[i - 1] \o EscapeCharacter(name[i])
    IN  Path[Len(name)]

\* The characters that \x## and \U######## may stand for.
mount_path_string_copy_hexadecimal_to_integer_32_bit(letter, digits) ==
    CASE letter = "x" /\ digits = "01" -> "ctl"
      [] letter = "x" /\ digits = "2f" -> "/"
      [] letter = "U" /\ digits = "00002028" -> "odd"
      [] OTHER -> "none"

\* One more character of a path: of what is copied so far, escape is "" or the
\* last character of an escape that is not complete.
CopyCharacter(copy, char) ==
    LET escaped == mount_path_string_copy_hexadecimal_to_integer_32_bit(copy.escape, char)
    IN  CASE copy.escape = "" /\ char = "\\" -> [copy EXCEPT !.escape = char]
          [] copy.escape = "" /\ char # "\\" -> [copy EXCEPT !.path = Append(@, char)]
          [] copy.escape = "\\" /\ char = "\\" ->
                [copy EXCEPT !.path = Append(@, char), !.escape = ""]
          [] copy.escape = "\\" /\ char \in {"x", "U"} -> [copy EXCEPT !.escape = char]
          [] copy.escape \in {"x", "U"} /\ escaped # "none" ->
                [copy EXCEPT !.path = Append(@, escaped), !.escape = ""]
          [] OTHER -> [copy EXCEPT !.ok = FALSE]

CopyFrom(start, path) ==
    LET Copy[i \in 0 .. Len(path)] ==
            IF i = 0 THEN start ELSE CopyCharacter(Copy[i - 1], path[i])
    IN  Copy[Len(path)]

\* A path is absolute; an escape that is cut off, or not one of the above, is an
\* error.
mount_path_string_copy_to_file_entry_path(path) ==
    LET copy == CopyFrom([ok |-> TRUE, path |-> <<>>, escape |-> ""], path)
    IN  [ok |-> path # <<>> /\ path[1] = "/" /\ copy.ok /\ copy.escape = "",
         path |-> copy.path]

----------------------------------------------------------------------------
(* The library.                                                            *)

Volume == image[mount.volume]
Entry(id) == Volume.entries[id]
SubEntries(id) == {e \in DOMAIN Volume.entries : e # Root /\ Entry(e).parent = id}

\* The sub file entries of a directory have an order of their own.
SubEntry(id, i) ==
    CHOOSE e \in SubEntries(id) : Cardinality({o \in SubEntries(id) : o < e}) = i

SubEntryNamed(volume, id, name) ==
    LET named == {e \in DOMAIN volume.entries :
                     /\ e # Root /\ volume.entries[e].parent = id
                     /\ volume.entries[e].name = name}
    IN  IF named = {} THEN 0 ELSE CHOOSE e \in named : TRUE

\* One more character of a path: at is the directory that the last segment is in,
\* and what there is of that segment.
NextCharacter(volume, at, char) ==
    IF char = "/" THEN [id |-> SubEntryNamed(volume, at.id, at.name), name |-> <<>>]
    ELSE [id |-> at.id, name |-> Append(at.name, char)]

SegmentFrom(volume, start, path) ==
    LET At[i \in 0 .. Len(path)] ==
            IF i = 0 THEN start ELSE NextCharacter(volume, At[i - 1], path[i])
    IN  At[Len(path)]

\* The first character is a separator.
LastSegment(volume, path) == SegmentFrom(volume, [id |-> Root, name |-> <<>>], Tail(path))

\* The file entry at a path, 0 for none.  A separator at the end is passed over,
\* an empty segment in front of another separator is no name.
volume_get_file_entry_by_utf8_path(volume, path) ==
    LET last == LastSegment(volume, path)
    IN  IF last.name = <<>> THEN last.id ELSE SubEntryNamed(volume, last.id, last.name)

\* 1, 0 or -1: a path that cannot be turned back is an error.
mount_handle_get_file_entry_by_path(path) ==
    LET to == mount_path_string_copy_to_file_entry_path(path)
    IN  IF ~to.ok THEN [result |-> -1, id |-> 0]
        ELSE LET id == volume_get_file_entry_by_utf8_path(Volume, to.path)
             IN  [result |-> IF id = 0 THEN 0 ELSE 1, id |-> id]

----------------------------------------------------------------------------
(* The program.                                                            *)

\* Which volume is mounted; the volume of a container with one need not be named.
SelectedVolume(index) ==
    IF index = 0 /\ Len(image) = 1 THEN 1 ELSE index

\* Unlocks the volume with the password; a wrong one leaves it locked.
mount_handle_get_volume_by_index(index) ==
    image[index].password \notin {"", options.password}

mount_handle_open ==
    LET index == SelectedVolume(options.index)
    IN  /\ phase = "start"
        /\ index \in 1 .. Len(image)
        /\ mount' = [volume |-> index, io |-> TRUE,
                     is_locked |-> mount_handle_get_volume_by_index(index)]
        /\ phase' = "open"
        /\ UNCHANGED <<image, options, fh, call, entries, answer>>

\* An index that is out of bounds or a call that fails ends the program.
mount_handle_open_fails ==
    /\ phase = "start"
    /\ phase' = "ended"
    /\ UNCHANGED <<image, options, mount, fh, call, entries, answer>>

\* main goes on to mount only a volume that is not locked.
fuse_mount ==
    /\ phase = "open" /\ ~mount.is_locked
    /\ phase' = "mounted"
    /\ UNCHANGED <<image, options, mount, fh, call, entries, answer>>

\* on_error of main: the handle is freed, the volume is left to the system.
fuse_mount_fails ==
    /\ phase = "open"
    /\ phase' = "ended"
    /\ mount' = NoMount
    /\ UNCHANGED <<image, options, fh, call, entries, answer>>

\* FUSE ends when nothing is open any more: the volume is freed, then the file.
mount_fuse_destroy ==
    /\ phase = "mounted" /\ call = NoCall /\ answer = NoAnswer
    /\ \A h \in Handles : fh[h] = 0
    /\ mount' = NoMount
    /\ phase' = "ended"
    /\ UNCHANGED <<image, options, fh, call, entries, answer>>

----------------------------------------------------------------------------
(* The callbacks.  A callback that needs several calls keeps what it got   *)
(* in file_entry, parent, sub and attribute.                               *)

\* A callback begins with its path, which is looked up next.
NewCall(op, path, handle, name, size) ==
    [op |-> op, path |-> path, lookup |-> mount_handle_get_file_entry_by_path(path), handle |-> handle, name |-> name, size |-> size,
     pc |-> "path", index |-> 0, total |-> 0, found |-> 0, list_offset |-> 0,
     file_entry |-> FALSE, parent |-> FALSE, sub |-> FALSE, attribute |-> FALSE,
     out |-> <<>>]

Idle == phase = "mounted" /\ call = NoCall /\ answer = NoAnswer

Begin(new) ==
    /\ Idle
    /\ call' = new
    /\ UNCHANGED <<image, options, phase, mount, fh, entries, answer>>

Answer(op, errno, failed, count, value) ==
    answer' = [op |-> op, path |-> call.path, name |-> call.name, size |-> call.size,
               handle |-> call.handle, id |-> call.found, errno |-> errno,
               failed |-> failed, count |-> count, value |-> value]

Finish(errno, failed, count, value) ==
    /\ Answer(call.op, errno, failed, count, value)
    /\ call' = NoCall

\* How many of the file entries that a callback holds its on_error frees.
Owned(c) == Cardinality({f \in {"file_entry", "parent", "sub"} : c[f]})

\* Fault: a sub file entry is left.
OwnedButSub(c) == Cardinality({f \in {"file_entry", "parent"} : c[f]})

\* on_error frees them all.  (The on_error of getxattr does not free the extended
\* attribute it may have; attributes are not counted.)
OnErrorFrees(c) == Owned(c)

Fails(errno, failed) ==
    /\ Finish(errno, failed, 0, <<>>)
    /\ entries' = entries - OnErrorFrees(call)
    /\ UNCHANGED <<image, options, phase, mount, fh>>

\* A call of the library that fails, at whichever step.
LibraryFails ==
    /\ call # NoCall
    /\ Fails(IF call.pc = "path" THEN "ENOENT" ELSE "EIO", TRUE)

OpenWith(op, handle, path) == Begin(NewCall(op, path, handle, "", 0))

mount_fuse_open == \E h \in Handles, path \in Paths : fh[h] = 0 /\ OpenWith("open", h, path)

\* A file that is to be written is refused before its path is looked at.
mount_fuse_open_for_writing ==
    /\ Idle
    /\ \E h \in Handles, path \in Paths :
         /\ fh[h] = 0
         /\ answer' = [op |-> "open for writing", path |-> path, name |-> "", size |-> 0,
                       handle |-> h, id |-> 0, errno |-> "EACCES", failed |-> FALSE,
                       count |-> 0, value |-> <<>>]
    /\ UNCHANGED <<image, options, phase, mount, fh, call, entries>>

mount_fuse_opendir == \E h \in Handles, path \in Paths : fh[h] = 0 /\ OpenWith("opendir", h, path)

mount_fuse_getattr == \E path \in Paths : OpenWith("getattr", "none", path)

mount_fuse_readlink ==
    \E path \in Paths, size \in Sizes : Begin(NewCall("readlink", path, "none", "", size))

mount_fuse_getxattr ==
    \E path \in Paths, name \in Names, size \in Sizes :
        Begin(NewCall("getxattr", path, "none", name, size))

mount_fuse_listxattr ==
    \E path \in Paths, size \in Sizes : Begin(NewCall("listxattr", path, "none", "", size))

mount_fuse_readdir ==
    \E h \in Handles :
        /\ fh[h] # 0
        /\ Begin([NewCall("readdir", <<>>, h, "", 0) EXCEPT !.pc = "self", !.found = fh[h]])

After(op) ==
    CASE op = "getattr" -> "stat" [] op = "readlink" -> "link"
      [] op = "getxattr" -> "attribute" [] op = "listxattr" -> "count"

\* The path is looked up.  Open and opendir keep the file entry in the handle.
LookUp ==
    LET found == call.lookup
    IN  /\ call # NoCall /\ call.pc = "path"
        /\ IF found.result # 1
           THEN /\ Finish("ENOENT", FALSE, 0, <<>>)
                /\ UNCHANGED <<image, options, phase, mount, fh, entries>>
           ELSE /\ entries' = entries + 1
                /\ IF call.op \in {"open", "opendir"}
                   THEN /\ fh' = [fh EXCEPT ![call.handle] = found.id]
                        /\ Answer(call.op, "none", FALSE, found.id, <<>>)
                        /\ call' = NoCall
                   ELSE /\ call' = [call EXCEPT !.pc = After(call.op), !.found = found.id,
                                                !.file_entry = TRUE]
                        /\ UNCHANGED <<fh, answer>>
                /\ UNCHANGED <<image, options, phase, mount>>

\* A callback that is done frees its file entry and its attribute.
Succeeds(errno, count, value) ==
    /\ Finish(errno, FALSE, count, value)
    /\ entries' = entries - Owned(call)
    /\ UNCHANGED <<image, options, phase, mount, fh>>

Advance(new) ==
    /\ call' = new
    /\ UNCHANGED <<image, options, phase, mount, fh, answer>>

mount_file_entry_get_file_mode(id) ==
    IF Entry(id).kind = "whiteout" THEN "regular" ELSE Entry(id).kind

\* The mode of a directory, a block device and a socket has the bit 0x4000.
mount_fuse_set_stat_info(id) ==
    LET mode == mount_file_entry_get_file_mode(id)
    IN  [size |-> Entry(id).size, mode |-> mode,
         links |-> IF mode \in {"directory", "block", "socket"} THEN 2 ELSE 1]

GetStat ==
    /\ call # NoCall /\ call.pc = "stat"
    /\ Succeeds("none", 0, <<mount_fuse_set_stat_info(call.found)>>)

\* The buffer has to hold the target and the end of the string.
ReadLink ==
    /\ call # NoCall /\ call.pc = "link"
    /\ LET target == Entry(call.found).target
       IN  IF target = <<>> \/ call.size < Len(target) + 1 THEN Fails("EIO", FALSE)
           ELSE Succeeds("none", 0, target)

----------------------------------------------------------------------------
(* Extended attributes.                                                    *)

Attributes == Entry(call.found).attributes
AttributeNamed == {i \in DOMAIN Attributes : Attributes[i].name = call.name}

GetAttribute ==
    /\ call # NoCall /\ call.pc = "attribute"
    /\ IF AttributeNamed = {} THEN Succeeds("ENODATA", 0, <<>>)
       ELSE /\ UNCHANGED entries
            /\ Advance([call EXCEPT !.pc = "value", !.attribute = TRUE])

\* Fault: a buffer that is too small gets a part of the value.
GetAttributePart ==
    /\ call # NoCall /\ call.pc = "value"
    /\ \E i \in AttributeNamed :
         LET size == Attributes[i].size
         IN  Succeeds("none", IF call.size = 0 THEN size ELSE
                              IF call.size < size THEN call.size ELSE size, <<>>)

\* A size of 0 asks for the size of the value, which has to be one of an int.
GetAttributeValue ==
    /\ call # NoCall /\ call.pc = "value"
    /\ \E i \in AttributeNamed :
         LET size == Attributes[i].size
         IN  IF size > MaxInt THEN Fails("E2BIG", FALSE)
             ELSE IF call.size # 0 /\ call.size < size THEN Fails("ERANGE", FALSE)
             ELSE Succeeds("none", size, <<>>)

CountAttributes ==
    /\ call # NoCall /\ call.pc = "count" /\ call.op = "listxattr"
    /\ UNCHANGED entries
    /\ Advance([call EXCEPT !.pc = "next attribute", !.total = Len(Attributes)])

\* A name goes with the end of its string.
NameSize(attribute) == Len(attribute.name) + 1

\* Fault: the name has to leave room.
FitsWithRoom(attribute) ==
    call.size = 0 \/ NameSize(attribute) < call.size - call.list_offset

Fits(attribute) ==
    call.size = 0 \/ NameSize(attribute) <= call.size - call.list_offset

ListAttribute ==
    LET attribute == Attributes[call.index + 1]
    IN  /\ call # NoCall /\ call.pc = "next attribute"
        /\ IF call.index = call.total THEN Succeeds("none", call.list_offset, call.out)
           ELSE IF call.attribute
           THEN IF ~Fits(attribute) THEN Fails("EIO", FALSE)
                ELSE /\ UNCHANGED entries
                     /\ Advance([call EXCEPT !.index = @ + 1, !.attribute = FALSE,
                                             !.list_offset = @ + NameSize(attribute),
                                             !.out = Append(@, call.index + 1)])
           ELSE /\ UNCHANGED entries
                /\ Advance([call EXCEPT !.attribute = TRUE])

----------------------------------------------------------------------------
(* Files and directories that are open.                                    *)

OpenEntry(op, h, size, errno, failed, count) ==
    answer' = [op |-> op, path |-> <<>>, name |-> "", size |-> size, handle |-> h,
               id |-> fh[h], errno |-> errno, failed |-> failed, count |-> count, value |-> <<>>]

mount_fuse_read ==
    /\ Idle
    /\ \E h \in Handles, size \in Sizes, offset \in Sizes, failed \in BOOLEAN :
         LET left == Entry(fh[h]).size - offset
         IN  /\ fh[h] # 0
             /\ OpenEntry("read", h, size, IF failed THEN "EIO" ELSE "none", failed,
                          IF failed THEN 0 ELSE IF left < 0 THEN 0
                          ELSE IF left < size THEN left ELSE size)
    /\ UNCHANGED <<image, options, phase, mount, fh, call, entries>>

Release(op) ==
    /\ Idle
    /\ \E h \in Handles :
         /\ fh[h] # 0
         /\ OpenEntry(op, h, 0, "none", FALSE, 0)
         /\ fh' = [fh EXCEPT ![h] = 0]
         /\ entries' = entries - 1
    /\ UNCHANGED <<image, options, phase, mount, call>>

mount_fuse_release == Release("release")

mount_fuse_releasedir == Release("releasedir")

mount_fuse_filldir(id) ==
    [id |-> id, stat |-> mount_fuse_set_stat_info(id),
     name |-> mount_path_string_copy_from_file_entry_path(Entry(id).name)]

\* "." and its parent, of which the root has none.
FillSelf ==
    /\ call # NoCall /\ call.pc = "self"
    /\ UNCHANGED entries
    /\ Advance([call EXCEPT !.pc = "parent"])

FillParent ==
    /\ call # NoCall /\ call.pc = "parent"
    /\ IF call.parent
       THEN /\ entries' = entries - 1
            /\ Advance([call EXCEPT !.pc = "count", !.parent = FALSE])
       ELSE IF call.found = Root
       THEN /\ UNCHANGED entries
            /\ Advance([call EXCEPT !.pc = "count"])
       ELSE /\ entries' = entries + 1
            /\ Advance([call EXCEPT !.parent = TRUE])

CountSubEntries ==
    /\ call # NoCall /\ call.pc = "count" /\ call.op = "readdir"
    /\ UNCHANGED entries
    /\ Advance([call EXCEPT !.pc = "next entry", !.total = Cardinality(SubEntries(call.found))])

\* Each sub file entry is got, filled in under its name and freed.
FillSubEntry ==
    /\ call # NoCall /\ call.pc = "next entry"
    /\ IF call.index = call.total THEN Succeeds("none", call.total, call.out)
       ELSE LET id == SubEntry(call.found, call.index)
            IN  IF call.sub
                THEN /\ entries' = entries - 1
                     /\ Advance([call EXCEPT !.index = @ + 1, !.sub = FALSE,
                                             !.out = Append(@, mount_fuse_filldir(id))])
                ELSE /\ entries' = entries + 1
                     /\ Advance([call EXCEPT !.sub = TRUE])

----------------------------------------------------------------------------

Return ==
    /\ answer # NoAnswer
    /\ answer' = NoAnswer
    /\ UNCHANGED <<image, options, phase, mount, fh, call, entries>>

Step ==
    \/ LookUp
    \/ GetStat
    \/ ReadLink
    \/ GetAttribute
    \/ GetAttributeValue
    \/ CountAttributes
    \/ ListAttribute
    \/ FillSelf
    \/ FillParent
    \/ CountSubEntries
    \/ FillSubEntry

Next ==
    \/ mount_handle_open
    \/ mount_handle_open_fails
    \/ fuse_mount
    \/ fuse_mount_fails
    \/ mount_fuse_destroy
    \/ mount_fuse_open
    \/ mount_fuse_open_for_writing
    \/ mount_fuse_opendir
    \/ mount_fuse_getattr
    \/ mount_fuse_readlink
    \/ mount_fuse_getxattr
    \/ mount_fuse_listxattr
    \/ mount_fuse_readdir
    \/ mount_fuse_read
    \/ mount_fuse_release
    \/ mount_fuse_releasedir
    \/ Step
    \/ LibraryFails
    \/ Return

Spec == Init /\ [][Next]_vars

----------------------------------------------------------------------------

\* Every file entry of the library is held by an open handle or by the callback
\* that runs: none is left behind by an error on the way and none freed twice
\* (the on_error paths of mount_fuse.c).
EntriesAreHeld ==
    entries = Cardinality({h \in Handles : fh[h] # 0})
                + (IF call = NoCall THEN 0 ELSE Owned(call))

Succeeded(op) == answer # NoAnswer /\ answer.op = op /\ answer.errno = "none"
Found(path) == mount_handle_get_file_entry_by_path(path).id

\* A path of a directory and a name that is shown in it.
PathWith(path, shown) == (IF path = <<"/">> THEN path ELSE Append(path, "/")) \o shown

\* The names that readdir shows lead back to the file entries they were shown
\* for when a path is made of them, whatever characters they have, as the two
\* conversions say: "replace: / by \x2f" and "replace: \x2f by /"
\* (mount_path_string.c).  It does not hold of a name with a separator: it is
\* turned back before the look-up, which cuts the path there.
ListedNamesResolve ==
    Succeeded("readdir") =>
        \A i \in DOMAIN answer.value, path \in Paths :
            Found(path) = answer.id =>
                Found(PathWith(path, answer.value[i].name)) = answer.value[i].id

\* A path that is turned back has no separator at its end.
EndsInName(path) ==
    LET copy == mount_path_string_copy_to_file_entry_path(path).path
    IN  path = <<"/">> \/ copy[Len(copy)] # "/"

\* The names that readdir shows and that have no separator lead back to the file
\* entries they were shown for, whatever escapes and other characters they have,
\* next to names with a separator too (mount_path_string.c).
PlainNamesResolve ==
    Succeeded("readdir") =>
        \A i \in DOMAIN answer.value, path \in Paths :
            Found(path) = answer.id /\ EndsInName(path)
                /\ Entry(answer.value[i].id).name \in Seq(Characters \ {"/"}) =>
                    Found(PathWith(path, answer.value[i].name)) = answer.value[i].id

\* The size of a list of the names of attributes.
ListSize(attributes) ==
    LET Size[i \in 0 .. Len(attributes)] ==
            IF i = 0 THEN 0 ELSE Size[i - 1] + NameSize(attributes[i])
    IN  Size[Len(attributes)]

\* An answer is about the file entry at the path, and it is complete.
AnswersAreRight ==
    /\ \A op \in {"open", "opendir"} :
         Succeeded(op) => fh[answer.handle] = Found(answer.path) /\ fh[answer.handle] # 0
    /\ Succeeded("getxattr") =>
         /\ \E i \in DOMAIN Entry(Found(answer.path)).attributes :
              Entry(Found(answer.path)).attributes[i] = [name |-> answer.name, size |-> answer.count]
         /\ answer.size = 0 \/ answer.count <= answer.size
    /\ Succeeded("listxattr") =>
         /\ answer.value = [i \in DOMAIN Entry(Found(answer.path)).attributes |-> i]
         /\ answer.count = ListSize(Entry(Found(answer.path)).attributes)
    /\ Succeeded("readdir") =>
         /\ {answer.value[i].id : i \in DOMAIN answer.value} = SubEntries(answer.id)
         /\ Len(answer.value) = Cardinality(SubEntries(answer.id))

\* An error that is not one of the library has a cause: nothing is at the path,
\* there is no such attribute or it is too large for an int, the buffer is smaller
\* than the size that is told when asked for it, or a file is to be written.
ErrorsHaveCauses ==
    answer # NoAnswer /\ answer.errno # "none" /\ ~answer.failed =>
        LET id == Found(answer.path)
        IN  \/ answer.errno = "ENOENT" /\ id = 0
            \/ /\ answer.errno = "ENODATA" /\ answer.op = "getxattr"
               /\ \A i \in DOMAIN Entry(id).attributes :
                     Entry(id).attributes[i].name # answer.name
            \/ /\ answer.errno = "ERANGE" /\ answer.op = "getxattr"
               /\ \E i \in DOMAIN Entry(id).attributes :
                     /\ Entry(id).attributes[i].name = answer.name
                     /\ Entry(id).attributes[i].size > answer.size
            \/ /\ answer.errno = "E2BIG" /\ answer.op = "getxattr"
               /\ \E i \in DOMAIN Entry(id).attributes :
                     /\ Entry(id).attributes[i].name = answer.name
                     /\ Entry(id).attributes[i].size > MaxInt
            \/ answer.errno = "EACCES" /\ answer.op = "open for writing"
            \/ /\ answer.errno = "EIO" /\ answer.op = "listxattr"
               /\ answer.size < ListSize(Entry(id).attributes)
            \/ /\ answer.errno = "EIO" /\ answer.op = "readlink"
               /\ Entry(id).kind # "link" \/ answer.size <= Len(Entry(id).target)

============================================================================
