--------------------------- MODULE MC_FileHandle ---------------------------
(***************************************************************************)
(* Four handles and five callers: the counter wraps after four opens, the  *)
(* table can be full, and a caller can come when it is.                    *)
(***************************************************************************)
EXTENDS FileHandle
=============================================================================
