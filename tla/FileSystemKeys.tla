--------------------------- MODULE FileSystemKeys ---------------------------
(* The types of records in a file system B-tree, and how its branches name  *)
(* their sub nodes.                                                         *)

INODE == 3
EXTENDED_ATTRIBUTE == 4
FILE_EXTENT == 8
DIRECTORY_RECORD == 9
FILE_EXTENT2 == 13

\* branch_child_oid_encoding
UNKNOWN == "unknown"
ABSOLUTE_OID == "absolute"
RELATIVE_TO_ROOT_OID == "relative"
Encodings == {UNKNOWN, ABSOLUTE_OID, RELATIVE_TO_ROOT_OID}
=============================================================================
