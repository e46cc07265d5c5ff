------------------------------ MODULE MCFiles -------------------------------
(***************************************************************************)
(* Files, for TLC: the callbacks of fsapfsmount (Mount), the file entries  *)
(* of the library (FileEntry) and the look-ups in the tree of the file     *)
(* system (FileSystemBTree).  They share no state: a behaviour is one of   *)
(* the component it starts with; of the others, the program and the entry  *)
(* stay as they begin and the tree is not there.                           *)
(***************************************************************************)
EXTENDS MCMount, MCFileEntry

CONSTANTS
    t1,
    EntryNames, MaxIndex,                        \* of FileEntry
    Volumes, Identifiers, Parents, TreePaths,    \* of FileSystemBTree
    Utf8Size, Chars, Separator, Folded, Decomposed, HashOf(_), MaxIdentifier,
    RecursionLimit

VARIABLES
    component,  \* whose behaviour it is
    volume, encoding, search

Library == INSTANCE FileEntry WITH Names <- EntryNames

FileSystem == INSTANCE FileSystemBTree WITH
    Threads <- {t1}, Paths <- TreePaths, call <- search

Small == INSTANCE MCFileSystemBTree
AllVolumes == Small!MCVolumes
AllIdentifiers == Small!MCIdentifiers
AllPaths == Small!MCPaths
AllChars == Small!MCChars
FoldedChars == Small!MCFolded
DecomposedChars == Small!MCDecomposed
SizesOfChars == Small!MCUtf8Size
SmallHash(codePoints) == Small!MCHashOf(codePoints)
LargestIdentifier == Small!MCMaxIdentifier

\* The names of the small volumes are hashed as FileSystemBTree does.
ASSUME \A folding \in BOOLEAN : \A name \in Small!NamesIn(folding) :
            Small!MCCodePoints(name, folding) = FileSystem!CodePoints(name, folding)

entryVars == <<disk, entry, attribute, returned>>
treeVars == <<volume, encoding, search>>
allVars == <<component, vars, entryVars, treeVars>>

AllInit ==
    /\ component \in {"mount", "entry", "tree"}
    /\ Init /\ (component # "mount" =>
                    image = <<Plain(Bare), Locked(Bare)>> /\ options.index = 0)
    /\ Library!Init /\ (component # "entry" =>
                            disk[3].attributes = <<Short, Short>>)
    /\ IF component = "tree" THEN FileSystem!Init
       ELSE volume = "none" /\ encoding = "none" /\ search = "none"

AllNext ==
    \/ component = "mount" /\ Next /\ UNCHANGED <<component, entryVars, treeVars>>
    \/ component = "entry" /\ Library!Next /\ UNCHANGED <<component, vars, treeVars>>
    \/ component = "tree" /\ FileSystem!Next /\ UNCHANGED <<component, vars, entryVars>>

AllSpec == AllInit /\ [][AllNext]_allVars

----------------------------------------------------------------------------
(* The properties of the tree.                                             *)

\* A look-up finds what the volume has of an identifier, all of it and in order
\* (FileSystemBTree: the get_..._from_branch_node functions).
LookupsAreExact == component = "tree" => FileSystem!LookupsAreExact

\* A path leads to the file it names or, when it is of one unit, to the directory
\* it starts from, and to no other file (FileSystemBTree: get_inode_by_utf8_path
\* and get_inode_by_utf16_path).
PathsLeadNowhereElse == component = "tree" => FileSystem!PathsLeadNowhereElse

\* A path leads to the file it names, and to nothing when there is none
\* (FileSystemBTree: what the comments of get_inode_by_utf8_path and
\* get_inode_by_utf16_path say).
PathsResolve == component = "tree" => FileSystem!PathsResolve

\* The encoding of identifiers in branches that is learned is that of the volume
\* (FileSystemBTree: get_sub_node_block_number_from_entry).
EncodingIsRight == component = "tree" => FileSystem!EncodingIsRight
=============================================================================
