----------------------------- MODULE FileHandle -----------------------------
(***************************************************************************)
(* The process-wide file handle table of file_handle.cpp: the bimap        *)
(* _fileHandles and the counter _FILE_HANDLE with which generateNextHandle *)
(* looks for a handle that is not in use, one iteration of its loop a      *)
(* step.  The counter wraps at the width of uint64_t and the loop lifts it *)
(* back to _MIN_FILE_HANDLE.  The callers are the open files and           *)
(* directories of the kernel, which keep the handle they were given in     *)
(* fuse_file_info::fh until mgridfs_release or mgridfs_releasedir.  The    *)
(* file system is mounted with -s (README.md, "Example mount"): nothing    *)
(* else runs while a handler searches.                                     *)
(***************************************************************************)
EXTENDS Naturals

CONSTANTS
  Opens,      \* open files and directories of the kernel
  Names,      \* file names
  NoName,     \* no entry in the table, no open file
  MinHandle,  \* _MIN_FILE_HANDLE
  MaxHandle   \* the last value of the counter's type, 2^64 - 1 in the code

ASSUME FileHandleAssumption ==
  /\ MinHandle \in Nat \ {0}
  /\ MaxHandle \in Nat
  /\ MinHandle < MaxHandle
  /\ NoName \notin Names

VARIABLES
  fileHandles,  \* _fileHandles.left, NoName where a handle has no entry
  FILE_HANDLE,  \* _FILE_HANDLE
  search,       \* the call of generateNextHandle that is running, or NoSearch
  fh,           \* fuse_file_info::fh of each caller, 0 when it is closed
  path          \* the name each caller opened

vars == <<fileHandles, FILE_HANDLE, search, fh, path>>

Handles == MinHandle..MaxHandle

Table == INSTANCE HandleTable WITH table <- fileHandles

Search == [running : {TRUE}, caller : Opens, name : Names, orig : Handles]
NoSearch == [running |-> FALSE]

Free == {h \in Handles : Table!Unused(fileHandles, h)}

----------------------------------------------------------------------------
(* The definitions named Slip_... are mutants: each is a plausible slip in  *)
(* the definition below it, and none is part of the specification.         *)
Slip_NoWrap(h) == h + 1

(* ++_FILE_HANDLE on an unsigned counter *)
Increment(h) == IF h = MaxHandle THEN 0 ELSE h + 1

Slip_PastMin(h) == IF h <= MinHandle THEN MinHandle + 1 ELSE h

(* The body of the loop first lifts a wrapped counter to _MIN_FILE_HANDLE. *)
Lift(h) == IF h <= MinHandle THEN MinHandle ELSE h

(* bimap insert: a handle that has an entry keeps it. *)
Insert(h, n) ==
  fileHandles' = IF Table!Unused(fileHandles, h)
                   THEN Table!WithHandle(fileHandles, h, n) ELSE fileHandles

Init ==
  /\ fileHandles = [h \in Handles |-> NoName]
  /\ FILE_HANDLE = MinHandle
  /\ search = NoSearch
  /\ fh = [o \in Opens |-> 0]
  /\ path = [o \in Opens |-> NoName]

(* FileHandle(n, 0).assignHandle() of an open, create or opendir:          *)
(* uint64_t origHandle = _FILE_HANDLE++                                    *)
assignHandle(o, n) ==
  /\ ~search.running
  /\ fh[o] = 0
  /\ search' = [running |-> TRUE, caller |-> o, name |-> n, orig |-> FILE_HANDLE]
  /\ FILE_HANDLE' = Increment(FILE_HANDLE)
  /\ UNCHANGED <<fileHandles, fh, path>>

(* The search stopped at h: a handle to return, unless h is origHandle,    *)
(* which it takes for having run out of handles.                           *)
Return(h) ==
  /\ search' = NoSearch
  /\ FILE_HANDLE' = h
  /\ IF h = search.orig
       THEN UNCHANGED <<fileHandles, fh, path>>
       ELSE /\ Insert(h, search.name)
            /\ fh' = [fh EXCEPT ![search.caller] = h]
            /\ path' = [path EXCEPT ![search.caller] = search.name]

Slip_TakeWithoutLook ==
  /\ search.running
  /\ FILE_HANDLE # search.orig
  /\ Return(Lift(FILE_HANDLE))

Slip_NoAdvance ==
  /\ search.running
  /\ FILE_HANDLE # search.orig
  /\ ~Table!Unused(fileHandles, Lift(FILE_HANDLE))
  /\ FILE_HANDLE' = Lift(FILE_HANDLE)
  /\ UNCHANGED <<fileHandles, search, fh, path>>

(* The handle the counter is at is free: break. *)
probeFree ==
  /\ search.running
  /\ FILE_HANDLE # search.orig
  /\ Table!Unused(fileHandles, Lift(FILE_HANDLE))
  /\ Return(Lift(FILE_HANDLE))

(* It is in use: the next iteration, without a look at origHandle yet. *)
probeUsed ==
  /\ search.running
  /\ FILE_HANDLE # search.orig
  /\ ~Table!Unused(fileHandles, Lift(FILE_HANDLE))
  /\ FILE_HANDLE' = Increment(Lift(FILE_HANDLE))
  /\ UNCHANGED <<fileHandles, search, fh, path>>

(* The loop condition: the counter is back where it started. *)
exhausted ==
  /\ search.running
  /\ FILE_HANDLE = search.orig
  /\ Return(FILE_HANDLE)

generateNextHandle == probeFree \/ probeUsed \/ exhausted

Slip_CloseWithoutErase(o) ==
  /\ ~search.running
  /\ fh[o] # 0
  /\ fh' = [fh EXCEPT ![o] = 0]
  /\ path' = [path EXCEPT ![o] = NoName]
  /\ UNCHANGED <<fileHandles, FILE_HANDLE, search>>

Slip_EraseAllOfName(o) ==
  /\ ~search.running
  /\ fh[o] # 0
  /\ fileHandles' = [h \in Handles |->
                       IF fileHandles[h] = path[o] THEN NoName ELSE fileHandles[h]]
  /\ fh' = [fh EXCEPT ![o] = 0]
  /\ path' = [path EXCEPT ![o] = NoName]
  /\ UNCHANGED <<FILE_HANDLE, search>>

(* FileHandle(file, fh) takes the name from the table; unassignHandle      *)
(* erases the pair of that handle and that name.                           *)
unassignHandle(o) ==
  /\ ~search.running
  /\ fh[o] # 0
  /\ fileHandles' = Table!WithoutHandle(fileHandles, fh[o])
  /\ fh' = [fh EXCEPT ![o] = 0]
  /\ path' = [path EXCEPT ![o] = NoName]
  /\ UNCHANGED <<FILE_HANDLE, search>>

Next ==
  \/ \E o \in Opens, n \in Names : assignHandle(o, n)
  \/ generateNextHandle
  \/ \E o \in Opens : unassignHandle(o)

Spec == Init /\ [][Next]_vars

(* A loop that has started runs on: the one thread executes it. *)
FairSpec == Spec /\ WF_vars(generateNextHandle)

----------------------------------------------------------------------------
(* The counter stays within its type, and every handle that is looked for  *)
(* or held is one of _MIN_FILE_HANDLE and up.                              *)
TypeOK ==
  /\ fileHandles \in [Handles -> Names \cup {NoName}]
  /\ FILE_HANDLE \in 0..MaxHandle
  /\ search \in Search \cup {NoSearch}
  /\ fh \in [Opens -> Handles \cup {0}]
  /\ path \in [Opens -> Names \cup {NoName}]

(* A handle a caller still holds leads to the file that caller opened,     *)
(* whatever was opened and closed in between and however often the counter *)
(* has wrapped.                                                            *)
HandleNamesItsFile ==
  \A o \in Opens : fh[o] # 0 => /\ path[o] \in Names
                                /\ fileHandles[fh[o]] = path[o]

(* No two open files share a handle, so that closing one never closes or   *)
(* invalidates the other.                                                  *)
DistinctHandles ==
  \A o, p \in Opens : (o # p /\ fh[o] # 0) => fh[o] # fh[p]

(* The table holds nothing but handles that a caller still holds: an       *)
(* entry is erased when its holder closes.                                 *)
NoLeakedEntry ==
  \A h \in Handles : fileHandles[h] # NoName => \E o \in Opens : fh[o] = h

(* A search that gives up ("Ran out of file handles", -ENFILE) has missed  *)
(* at most one free handle, the one it started from.                       *)
RefusedOnlyWhenNearlyFull ==
  [][(search.running /\ ~search'.running /\ fh' = fh) => Free \subseteq {search.orig}]_vars

(* While any handle is free, a search comes to an end.  With none free it  *)
(* need not: started from _MIN_FILE_HANDLE it never sees origHandle again, *)
(* because the loop leaves the body one past it.                           *)
SearchEnds == (search.running /\ Free # {}) ~> ~search.running

(* The counter and the bimap behave as a table that hands out unused       *)
(* handles.                                                                *)
ImplementsTable == Table!Spec
=============================================================================
