---------------------------- MODULE HandleTable ----------------------------
(***************************************************************************)
(* What the FUSE handlers rely on when they give a file handle out: a      *)
(* table from handles to file names in which an assignment takes a handle  *)
(* nobody holds, an entry never changes its name, and an entry goes only   *)
(* when it is unassigned.  FileHandle.tla shows that the counter of        *)
(* file_handle.cpp implements it; MGridFS.tla uses the same two operators  *)
(* for the tables of its mounts.                                           *)
(***************************************************************************)
CONSTANTS Handles, Names, NoName

(* _fileHandles.left.find(h) == _fileHandles.left.end() *)
Unused(t, h) == t[h] = NoName

WithHandle(t, h, n) == [t EXCEPT ![h] = n]

WithoutHandle(t, h) == [t EXCEPT ![h] = NoName]

----------------------------------------------------------------------------
VARIABLE table

Init == table = [h \in Handles |-> NoName]

Assign == \E h \in Handles, n \in Names :
            /\ Unused(table, h)
            /\ table' = WithHandle(table, h, n)

Unassign == \E h \in Handles :
              /\ ~Unused(table, h)
              /\ table' = WithoutHandle(table, h)

Next == Assign \/ Unassign

Spec == Init /\ [][Next]_table
============================================================================
