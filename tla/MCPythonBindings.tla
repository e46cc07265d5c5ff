------------------------- MODULE MCPythonBindings -------------------------
(* Two threads and four objects at once; sequences of two items. *)
EXTENDS PythonBindings
CONSTANTS t1, t2
MCThreads == {t1, t2}
MCObjects == 1 .. 4
MCMaxOfKind ==
    [kind \in Kinds \ {"container"} |->
        CASE kind = "file_entry" -> 2
          [] kind \in {"file_entries", "extended_attributes"} -> 0
          [] OTHER -> 1]
===========================================================================
