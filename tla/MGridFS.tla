------------------------------ MODULE MGridFS ------------------------------
(***************************************************************************)
(* Mounts of one GridFS collection: the handlers of file_meta_ops.cpp with *)
(* the handle table (FileHandle.tla, here by its abstraction HandleTable), *)
(* the map of in-memory files of local_gridfs.cpp and the flush and        *)
(* openRemote of local_grid_file.cpp, one call of the database a step.  A  *)
(* mount runs one handler at a time (-s, README.md), the mounts run beside *)
(* each other, any call of the database may fail before or after it took   *)
(* effect, and a mount may crash between two steps.  What a file holds is  *)
(* one value, its owner and mode another; LocalMemoryGridFile.tla is about *)
(* the bytes.                                                              *)
(***************************************************************************)
EXTENDS FiniteSets, Naturals

CONSTANTS
  Mounts,
  Names,      \* paths of regular files
  NoName,     \* no entry in a handle table
  Handles,    \* the handles of each mount
  Ids,        \* _id of the documents of fs.files
  Data,       \* what a write can make a file hold
  Attrs,      \* owners and modes: metadata.uid, .gid and .mode
  Scope,      \* which of "unlink", "rename", "renameOpen" (of an open file),
              \* "renameOnto" (another file) and "chmod" users do
  MaxFaults   \* bound on failing calls and crashes

Empty == "empty"      \* a file of no bytes
Garbage == "garbage"  \* a file that openRemote filled in part
NoMeta == "no metadata"
NoDoc == [filename |-> NoName, data |-> Empty, meta |-> NoMeta]
NoBuffer == [data |-> Empty, dirty |-> FALSE, there |-> FALSE]
Idle == [at |-> "idle", for |-> "none", name |-> NoName, h |-> 0,
         id |-> 0, tries |-> 0, meta |-> NoMeta]

ASSUME MGridFSAssumption ==
  /\ NoName \notin Names
  /\ 0 \notin Handles /\ 0 \notin Ids
  /\ Data \cap {Empty, Garbage} = {} /\ NoName \notin Data \cup {Empty, Garbage}
  /\ Attrs # {} /\ NoMeta \notin Attrs
  /\ Scope \subseteq {"unlink", "rename", "renameOpen", "renameOnto", "chmod"}
  /\ MaxFaults \in Nat

VARIABLES
  docs,     \* fs.files with the chunks it refers to
  table,    \* FileHandle::_fileHandles of each mount
  flags,    \* fuse_file_info::flags of the files the kernel has open
  buffers,  \* LocalGridFS::_localGridFileMap of each mount
  call,     \* the handler each mount is in, and how far
  given,    \* owner and mode users gave the file of a name, NoMeta: no file
  excused,  \* what happened of "race" and "onto", see Watch
  faults

vars == <<docs, table, flags, buffers, call, given, excused, faults>>
local == <<table, flags, buffers>>

Handle == INSTANCE HandleTable

Named(n) == {i \in Ids : docs[i].filename = n}
Fresh == {i \in Ids : docs[i] = NoDoc}
Quiet(m) == call[m].at = "idle"
Open(m) == {h \in Handles : flags[m][h] # "none"}
IsOpen(m, n) == \E h \in Open(m) : table[m][h] = n

Call(at, for, n, h, id, tries) ==
  [at |-> at, for |-> for, name |-> n, h |-> h, id |-> id, tries |-> tries, meta |-> NoMeta]
Goto(m, at) == call' = [call EXCEPT ![m].at = at]
Return(m) == call' = [call EXCEPT ![m] = Idle]

Fault == faults < MaxFaults /\ faults' = faults + 1
NoFault == UNCHANGED faults

Init ==
  /\ \E i \in Ids, n \in Names, d \in Data, v \in Attrs :
       /\ docs = [j \in Ids |-> IF j = i THEN [filename |-> n, data |-> d, meta |-> v]
                                         ELSE NoDoc]
       /\ given = [k \in Names |-> IF k = n THEN v ELSE NoMeta]
  /\ excused = {}
  /\ table = [m \in Mounts |-> [h \in Handles |-> NoName]]
  /\ flags = [m \in Mounts |-> [h \in Handles |-> "none"]]
  /\ buffers = [m \in Mounts |-> [n \in Names |-> NoBuffer]]
  /\ call = [m \in Mounts |-> Idle]
  /\ faults = 0

----------------------------------------------------------------------------
(* The definitions named Slip_... are mutants: each is a plausible slip in  *)
(* the definition below it, and none is part of the specification.         *)

(* The database: storeFile inserts a document without metadata, an update   *)
(* by _id sets it, removeFile takes every document of a name.               *)
Stored(i, n, d) == docs' = [docs EXCEPT ![i] = [filename |-> n, data |-> d, meta |-> NoMeta]]

Slip_Updated(i, v) == UNCHANGED docs  \* of the document it has just removed

Updated(i, v) == docs' = IF docs[i] = NoDoc THEN docs ELSE [docs EXCEPT ![i].meta = v]

Removed(n) == docs' = [i \in Ids |-> IF docs[i].filename = n THEN NoDoc ELSE docs[i]]

(* A call that fails may have taken effect. *)
Perhaps(effect) == effect \/ UNCHANGED docs

Slip_FlushEnds(m, ok) ==
  LET c == call[m]
  IN  IF c.for = "flush"
        THEN /\ buffers' = [buffers EXCEPT ![m][c.name].dirty = FALSE]
             /\ Return(m)
             /\ UNCHANGED <<table, flags>>
      ELSE /\ buffers' = [buffers EXCEPT ![m][c.name] = NoBuffer]
           /\ Return(m)
           /\ flags' = [flags EXCEPT ![m][c.h] = "none"]
           /\ table' = IF c.for = "release"
                         THEN [table EXCEPT ![m] = Handle!WithoutHandle(@, c.h)]
                         ELSE table

Slip_FlushForever(m, ok) ==
  LET c == call[m]
  IN  IF ~ok /\ c.for # "flush"
        THEN Goto(m, "flush.find") /\ UNCHANGED local
        ELSE Slip_FlushEnds(m, ok)

(* The end of one LocalMemoryGridFile::flush of the handler m is in.        *)
(* mgridfs_flush and mgridfs_fsync return what it returned.                 *)
(* mgridfs_release and a mgridfs_open whose openRemote failed go on to      *)
(* releaseFile and the destructor, each of which flushes an object that is  *)
(* still dirty, and then the object is gone.                                *)
FlushEnds(m, ok) ==
  LET c == call[m]
  IN  IF c.for = "flush"
        THEN /\ buffers' = [buffers EXCEPT ![m][c.name].dirty = @ /\ ~ok]
             /\ Return(m)
             /\ UNCHANGED <<table, flags>>
      ELSE IF ~ok /\ c.tries > 1
        THEN /\ call' = [call EXCEPT ![m] = Call("flush.find", c.for, c.name, c.h, 0, c.tries - 1)]
             /\ UNCHANGED local
      ELSE /\ buffers' = [buffers EXCEPT ![m][c.name] = NoBuffer]
           /\ Return(m)
           /\ flags' = [flags EXCEPT ![m][c.h] = "none"]
           /\ table' = IF c.for = "release"
                         THEN [table EXCEPT ![m] = Handle!WithoutHandle(@, c.h)]
                         ELSE table

(* The file must still be there for its metadata, -EBADF if not. *)
flushFind(m) ==
  /\ call[m].at = "flush.find"
  /\ \/ \E i \in Named(call[m].name) :
          /\ call' = [call EXCEPT ![m].at = "flush.remove", ![m].meta = docs[i].meta]
          /\ NoFault /\ UNCHANGED local
     \/ /\ Named(call[m].name) = {}
        /\ FlushEnds(m, FALSE)
        /\ NoFault
     \/ Fault /\ FlushEnds(m, FALSE)
  /\ UNCHANGED <<docs, given>>

Slip_flushRemove(m) ==
  /\ call[m].at = "flush.remove"
  /\ Goto(m, "flush.store")
  /\ NoFault /\ UNCHANGED <<local, docs, given>>

flushRemove(m) ==
  /\ call[m].at = "flush.remove"
  /\ \/ Removed(call[m].name) /\ Goto(m, "flush.store") /\ NoFault /\ UNCHANGED local
     \/ Perhaps(Removed(call[m].name)) /\ Fault /\ FlushEnds(m, FALSE)
  /\ UNCHANGED given

Slip_flushStore(m) ==
  LET c == call[m]
  IN  /\ c.at = "flush.store"
      /\ NoFault
      /\ IF buffers[m][c.name].data = Empty
           THEN FlushEnds(m, TRUE) /\ UNCHANGED docs
           ELSE \E i \in Fresh :
                  /\ Stored(i, c.name, buffers[m][c.name].data)
                  /\ call' = [call EXCEPT ![m].at = "flush.update", ![m].id = i]
                  /\ UNCHANGED local
      /\ UNCHANGED given

flushStore(m) ==
  LET c == call[m]
  IN  /\ c.at = "flush.store"
      /\ \E i \in Fresh :
           LET store == Stored(i, c.name, buffers[m][c.name].data)
           IN  \/ /\ store
                  /\ call' = [call EXCEPT ![m].at = "flush.update", ![m].id = i]
                  /\ NoFault /\ UNCHANGED local
               \/ Perhaps(store) /\ Fault /\ FlushEnds(m, FALSE)
      /\ UNCHANGED given

(* With the owner and mode of the caller, as mgridfs_create does. *)
Slip_flushUpdate(m) ==
  LET c == call[m]
  IN  /\ c.at = "flush.update"
      /\ \E v \in Attrs : Updated(c.id, v)
      /\ FlushEnds(m, TRUE) /\ NoFault
      /\ UNCHANGED given

(* The metadata goes from the document that was removed to the new one.  If *)
(* that had none, the driver throws: metadata["uid"] is no element.         *)
flushUpdate(m) ==
  LET c == call[m]
  IN  /\ c.at = "flush.update"
      /\ IF c.meta = NoMeta
           THEN UNCHANGED docs /\ FlushEnds(m, FALSE) /\ NoFault
           ELSE \/ Updated(c.id, c.meta) /\ FlushEnds(m, TRUE) /\ NoFault
                \/ Perhaps(Updated(c.id, c.meta)) /\ Fault /\ FlushEnds(m, FALSE)
      /\ UNCHANGED given

----------------------------------------------------------------------------
(* mgridfs_open: a handle, and at once the answer if the file is in memory. *)
open(m, n, wr, h) ==
  /\ Quiet(m)
  /\ Handle!Unused(table[m], h)
  /\ table' = [table EXCEPT ![m] = Handle!WithHandle(@, h, n)]
  /\ IF buffers[m][n].there
       THEN /\ flags' = [flags EXCEPT ![m][h] = wr]
            /\ UNCHANGED call
       ELSE /\ call' = [call EXCEPT ![m] = Call("open.find", wr, n, h, 0, 0)]
            /\ UNCHANGED flags
  /\ UNCHANGED <<docs, buffers, given, faults>>

Slip_openFind(m) ==
  LET c == call[m]
  IN  /\ c.at = "open.find"
      /\ Named(c.name) = {} /\ NoFault
      /\ Return(m)
      /\ UNCHANGED <<docs, given, local>>

(* findFile: read only is served from GridFS, else createFile puts an empty *)
(* file in the map.  The kernel creates a missing file with mgridfs_create. *)
openFind(m) ==
  LET c == call[m]
  IN  /\ c.at = "open.find"
      /\ UNCHANGED <<docs, given>>
      /\ \/ /\ (Named(c.name) = {} /\ NoFault) \/ Fault
            /\ table' = [table EXCEPT ![m] = Handle!WithoutHandle(@, c.h)]
            /\ Return(m)
            /\ UNCHANGED <<flags, buffers>>
         \/ /\ Named(c.name) # {} /\ NoFault
            /\ IF c.for = "ro"
                 THEN /\ flags' = [flags EXCEPT ![m][c.h] = "ro"]
                      /\ Return(m)
                      /\ UNCHANGED <<table, buffers>>
                 ELSE /\ buffers' = [buffers EXCEPT ![m][c.name] =
                                       [data |-> Empty, dirty |-> FALSE, there |-> TRUE]]
                      /\ Goto(m, "open.load")
                      /\ UNCHANGED <<table, flags>>

(* The findFile of openRemote.  When it fails releaseFile finds the object  *)
(* clean and drops it; mgridfs_open returns -EIO and leaves the handle.     *)
openLoad(m) ==
  LET c == call[m]
  IN  /\ c.at = "open.load"
      /\ \/ \E i \in Named(c.name) :
              /\ call' = [call EXCEPT ![m].at = "open.chunks", ![m].id = i]
              /\ NoFault /\ UNCHANGED buffers
         \/ /\ (Named(c.name) = {} /\ NoFault) \/ Fault
            /\ buffers' = [buffers EXCEPT ![m][c.name] = NoBuffer]
            /\ Return(m)
      /\ UNCHANGED <<docs, table, flags, given>>

(* initLocalBuffers.  When the chunks of the document it found cannot be    *)
(* read it leaves what it has in a dirty object, and releaseFile flushes    *)
(* that.                                                                    *)
openChunks(m) ==
  LET c == call[m]
  IN  /\ c.at = "open.chunks"
      /\ \/ /\ docs[c.id].filename = c.name
            /\ buffers' = [buffers EXCEPT ![m][c.name].data = docs[c.id].data]
            /\ flags' = [flags EXCEPT ![m][c.h] = "rw"]
            /\ Return(m) /\ NoFault
         \/ /\ (docs[c.id].filename # c.name /\ NoFault) \/ Fault
            /\ buffers' = [buffers EXCEPT ![m][c.name].data = Garbage, ![m][c.name].dirty = TRUE]
            /\ call' = [call EXCEPT ![m] = Call("flush.find", "open", c.name, c.h, 0, 2)]
            /\ UNCHANGED flags
      /\ UNCHANGED <<docs, table, given>>

(* mgridfs_create, for a name the kernel has just looked up in vain: a      *)
(* document, its metadata, a handle and a file in memory.  Bound: it starts *)
(* only if an id is left.                                                   *)
create(m, n, v) ==
  /\ Quiet(m) /\ Named(n) = {} /\ Fresh # {}
  /\ call' = [call EXCEPT ![m] = [Call("create.store", "rw", n, 0, 0, 0) EXCEPT !.meta = v]]
  /\ UNCHANGED <<docs, table, flags, buffers, given, faults>>

createStore(m) ==
  LET c == call[m]
  IN  /\ c.at = "create.store"
      /\ \E i \in Fresh :
           \/ /\ Stored(i, c.name, Empty)
              /\ call' = [call EXCEPT ![m].at = "create.update", ![m].id = i]
              /\ NoFault
           \/ Perhaps(Stored(i, c.name, Empty)) /\ Fault /\ Return(m)
      /\ given' = IF docs' = docs THEN given ELSE [given EXCEPT ![c.name] = c.meta]
      /\ UNCHANGED local

(* map::insert keeps a file of that name that is in the map already. *)
createUpdate(m) ==
  LET c == call[m]
  IN  /\ c.at = "create.update"
      /\ Return(m)
      /\ \/ /\ Perhaps(Updated(c.id, c.meta)) /\ Fault
            /\ UNCHANGED local
         \/ /\ Updated(c.id, c.meta) /\ NoFault
            /\ \/ \E h \in Handles :
                    /\ Handle!Unused(table[m], h)
                    /\ table' = [table EXCEPT ![m] = Handle!WithHandle(@, h, c.name)]
                    /\ flags' = [flags EXCEPT ![m][h] = "rw"]
                    /\ buffers' = [buffers EXCEPT ![m][c.name].there = TRUE]
               \/ /\ \A h \in Handles : ~Handle!Unused(table[m], h)
                  /\ UNCHANGED local
      /\ UNCHANGED given

(* mgridfs_write, by the name of the handle; without a file in memory it    *)
(* returns -EBADF.  What a write without memory for its bytes leaves is in  *)
(* LocalMemoryGridFile.tla.                                                 *)
write(m, h, d) ==
  LET n == table[m][h]
  IN  /\ Quiet(m)
      /\ flags[m][h] = "rw" /\ ~Handle!Unused(table[m], h)
      /\ buffers[m][n].there
      /\ buffers' = [buffers EXCEPT ![m][n].data = d, ![m][n].dirty = TRUE]
      /\ UNCHANGED <<docs, table, flags, call, given, faults>>

Slip_truncate(m, n) ==
  /\ Quiet(m)
  /\ buffers' = [buffers EXCEPT ![m][n].data = Empty, ![m][n].dirty = TRUE]
  /\ UNCHANGED <<docs, table, flags, call, given, faults>>

(* mgridfs_truncate by path: only a file in memory can be truncated. *)
truncate(m, n) ==
  /\ Quiet(m)
  /\ buffers[m][n].there
  /\ buffers' = [buffers EXCEPT ![m][n].data = Empty, ![m][n].dirty = TRUE]
  /\ UNCHANGED <<docs, table, flags, call, given, faults>>

ftruncate(m, h) == ~Handle!Unused(table[m], h) /\ truncate(m, table[m][h])

(* mgridfs_fallocate makes the file end where the range ends, shorter or    *)
(* longer; what it keeps of the file is that of one of its writes.          *)
fallocate(m, h) == ~Handle!Unused(table[m], h) /\ (truncate(m, table[m][h])
                                                    \/ \E d \in Data : write(m, h, d))

(* mgridfs_flush of a file opened for writing. *)
flush(m, h) ==
  LET n == table[m][h]
  IN  /\ Quiet(m)
      /\ flags[m][h] = "rw" /\ ~Handle!Unused(table[m], h)
      /\ buffers[m][n].there /\ buffers[m][n].dirty
      /\ call' = [call EXCEPT ![m] = Call("flush.find", "flush", n, h, 0, 1)]
      /\ UNCHANGED <<docs, table, flags, buffers, given, faults>>

(* mgridfs_fsync does the same; there is no flush of the metadata alone. *)
fsync(m, h) == flush(m, h)

Slip_releaseKeepsBuffer(m, h) ==
  /\ Quiet(m) /\ h \in Open(m)
  /\ flags' = [flags EXCEPT ![m][h] = "none"]
  /\ table' = [table EXCEPT ![m] = Handle!WithoutHandle(@, h)]
  /\ UNCHANGED <<docs, buffers, call, given, faults>>

Slip_releaseWithoutFlush(m, h) ==
  /\ Quiet(m) /\ h \in Open(m)
  /\ flags' = [flags EXCEPT ![m][h] = "none"]
  /\ table' = [table EXCEPT ![m] = Handle!WithoutHandle(@, h)]
  /\ buffers' = [buffers EXCEPT ![m][table[m][h]] = NoBuffer]
  /\ UNCHANGED <<docs, call, given, faults>>

(* mgridfs_release of a handle, read only or not: the file in memory is     *)
(* flushed if dirty (by release, then by releaseFile, then by the           *)
(* destructor), and dropped.                                                *)
release(m, h) ==
  LET n == table[m][h]
  IN  /\ Quiet(m) /\ h \in Open(m)
      /\ IF ~Handle!Unused(table[m], h) /\ buffers[m][n].there /\ buffers[m][n].dirty
           THEN /\ call' = [call EXCEPT ![m] = Call("flush.find", "release", n, h, 0, 3)]
                /\ UNCHANGED local
           ELSE /\ flags' = [flags EXCEPT ![m][h] = "none"]
                /\ table' = [table EXCEPT ![m] = Handle!WithoutHandle(@, h)]
                /\ buffers' = IF Handle!Unused(table[m], h) THEN buffers
                              ELSE [buffers EXCEPT ![m][n] = NoBuffer]
                /\ UNCHANGED call
      /\ UNCHANGED <<docs, given, faults>>

(* mgridfs_unlink; of a file that is open in this mount libfuse makes a     *)
(* rename.                                                                  *)
unlink(m, n) ==
  /\ "unlink" \in Scope
  /\ Quiet(m) /\ ~IsOpen(m, n) /\ Named(n) # {}
  /\ \/ Removed(n) /\ NoFault
     \/ Perhaps(Removed(n)) /\ Fault
  /\ given' = IF docs' = docs THEN given ELSE [given EXCEPT ![n] = NoMeta]
  /\ UNCHANGED <<table, flags, buffers, call>>

(* mgridfs_rename: one document of the name gets the new one, whatever has  *)
(* that already; handles and files in memory keep the old.  libfuse makes a *)
(* rename of a target that is open as well, to a name of its own, before.   *)
rename(m, n, to) ==
  /\ "rename" \in Scope
  /\ IsOpen(m, n) \/ IsOpen(m, to) => "renameOpen" \in Scope
  /\ Named(to) # {} => "renameOnto" \in Scope
  /\ Quiet(m) /\ n # to
  /\ \E i \in Named(n) :
       LET renamed == docs' = [docs EXCEPT ![i].filename = to]
       IN  (renamed /\ NoFault) \/ (Perhaps(renamed) /\ Fault)
  /\ given' = IF docs' = docs THEN given
              ELSE [given EXCEPT ![n] = NoMeta, ![to] = given[n]]
  /\ UNCHANGED <<table, flags, buffers, call>>

(* mgridfs_chmod: one document of the name.  The metadata of a document     *)
(* without any does not become whole by a mode.                             *)
chmod(m, n, v) ==
  /\ "chmod" \in Scope
  /\ Quiet(m)
  /\ \E i \in Named(n) :
       LET set == docs' = IF docs[i].meta = NoMeta THEN docs ELSE [docs EXCEPT ![i].meta = v]
       IN  (set /\ NoFault) \/ (Perhaps(set) /\ Fault)
  /\ given' = IF docs' = docs THEN given ELSE [given EXCEPT ![n] = v]
  /\ UNCHANGED <<table, flags, buffers, call>>

(* mgridfs_chown is the same update, of uid and gid. *)
chown(m, n, v) == chmod(m, n, v)

(* The process of a mount dies and is started again. *)
crash(m) ==
  /\ Fault
  /\ table' = [table EXCEPT ![m] = [h \in Handles |-> NoName]]
  /\ flags' = [flags EXCEPT ![m] = [h \in Handles |-> "none"]]
  /\ buffers' = [buffers EXCEPT ![m] = [n \in Names |-> NoBuffer]]
  /\ Return(m)
  /\ UNCHANGED <<docs, given>>

handler(m) ==
  \/ flushFind(m) \/ flushRemove(m) \/ flushStore(m) \/ flushUpdate(m)
  \/ openFind(m) \/ openLoad(m) \/ openChunks(m)
  \/ createStore(m) \/ createUpdate(m)

request(m) ==
  \/ \E n \in Names, wr \in {"ro", "rw"}, h \in Handles : open(m, n, wr, h)
  \/ \E n \in Names : truncate(m, n) \/ unlink(m, n)
  \/ \E n \in Names, v \in Attrs : create(m, n, v) \/ chmod(m, n, v) \/ chown(m, n, v)
  \/ \E h \in Handles : \/ flush(m, h) \/ fsync(m, h) \/ release(m, h)
                       \/ ftruncate(m, h) \/ fallocate(m, h)
  \/ \E h \in Handles, d \in Data : write(m, h, d)
  \/ \E n, to \in Names : rename(m, n, to)

(* The handlers that have read a document, or stored one, and are to write. *)
Midway(m, n) ==
  /\ call[m].name = n
  /\ call[m].at \in {"flush.remove", "flush.store", "flush.update",
                    "create.store", "create.update"}

(* A document changed that one of them of another mount is about.           *)
Race(m) == \E k \in Mounts \ {m}, i \in Ids :
             docs'[i] # docs[i] /\ (Midway(k, docs[i].filename) \/ Midway(k, docs'[i].filename))

(* A rename gave a file the name of another.                                *)
Onto == \E i \in Ids : /\ docs[i] # NoDoc /\ docs'[i] # NoDoc
                       /\ docs'[i].filename # docs[i].filename
                       /\ Named(docs'[i].filename) # {}

Watch(m) ==
  excused' = excused \cup (IF Race(m) THEN {"race"} ELSE {})
                     \cup (IF Onto THEN {"onto"} ELSE {})

Next == \E m \in Mounts : (handler(m) \/ request(m) \/ crash(m)) /\ Watch(m)

Spec == Init /\ [][Next]_vars

(* A handler runs on: the mount's thread is in it, and every call of the    *)
(* database returns or throws.                                              *)
FairSpec == Spec /\ \A m \in Mounts : WF_vars(handler(m) /\ Watch(m))

----------------------------------------------------------------------------
Content == Data \cup {Empty, Garbage}

(* The shapes of the state.  Only a file in the map can hold data or be      *)
(* dirty.                                                                   *)
TypeOK ==
  /\ docs \in [Ids -> [filename : Names, data : Content, meta : Attrs \cup {NoMeta}]
                      \cup {NoDoc}]
  /\ table \in [Mounts -> [Handles -> Names \cup {NoName}]]
  /\ flags \in [Mounts -> [Handles -> {"none", "ro", "rw"}]]
  /\ buffers \in [Mounts -> [Names ->
                    [data : Content, dirty : BOOLEAN, there : {TRUE}] \cup {NoBuffer}]]
  /\ given \in [Names -> Attrs \cup {NoMeta}]
  /\ excused \subseteq {"race", "onto"} /\ faults \in 0..MaxFaults

(* A file in memory belongs to an open file of that name that may write:    *)
(* some later release will flush and free it.                               *)
BufferHasWriter ==
  \A m \in Mounts, n \in Names :
    (Quiet(m) /\ buffers[m][n].there) =>
      \E h \in Handles : table[m][h] = n /\ flags[m][h] = "rw"

(* An open file keeps its entry in the handle table until it is released.   *)
(* With one mount the table holds nothing else but what failing calls left  *)
(* there, at most one entry each: two error paths of mgridfs_open do not    *)
(* give the handle back.                                                    *)
Leaked(m) == {h \in Handles : table[m][h] # NoName /\ flags[m][h] = "none"}

HandlesMatch ==
  \A m \in Mounts :
    /\ \A h \in Handles : flags[m][h] # "none" => table[m][h] # NoName
    /\ Quiet(m) => Cardinality(Leaked(m)) <= faults

(* One mount: no name has two documents, through flushes that fail half way *)
(* and are tried again, and through crashes, until a file is renamed onto   *)
(* another.                                                                 *)
UniqueNames ==
  "onto" \notin excused => \A n \in Names : Cardinality(Named(n)) <= 1

(* One mount: a file in memory that is not dirty is what GridFS has, so     *)
(* dropping it without a flush loses nothing.                               *)
CleanIsStored ==
  \A m \in Mounts, n \in Names :
    (Quiet(m) /\ buffers[m][n].there /\ ~buffers[m][n].dirty) =>
      \E i \in Named(n) : docs[i].data = buffers[m][n].data

(* A document that has metadata has the owner and mode users gave the file  *)
(* last, through any number of flushes, each of which carries them from the *)
(* document it removes to the one it stores, through flushes that fail half *)
(* way and are tried again, and through crashes; unless a mount changed the *)
(* document of a file while another was writing it, or a file was renamed   *)
(* onto another.                                                            *)
AttributesKept ==
  excused = {} => \A i \in Ids : docs[i].meta # NoMeta => docs[i].meta = given[docs[i].filename]

(* One mount: what users wrote leaves memory only when GridFS holds it,     *)
(* whichever call of a flush fails, unless a handler that closes the file   *)
(* has failed in its last attempt or the process dies.                      *)
DirtyUntilStored ==
  [][\A m \in Mounts, n \in Names :
       (buffers[m][n].dirty /\ ~buffers'[m][n].dirty) =>
         \/ \E i \in Ids : docs'[i].filename = n /\ docs'[i].data = buffers[m][n].data
         \/ call[m].for \in {"release", "open"} /\ call[m].tries = 1
         \/ crash(m)]_vars

(* One mount and no failing call: between handlers every document has its   *)
(* metadata.                                                                *)
MetadataComplete ==
  (faults = 0 /\ \A m \in Mounts : Quiet(m)) =>
    \A i \in Ids : docs[i] # NoDoc => docs[i].meta # NoMeta

(* What the users of a mount read in a file: the file in memory, once it is *)
(* loaded, else what GridFS has.                                            *)
Loading(m, n) == call[m].name = n /\ call[m].at \in {"open.load", "open.chunks"}

InMemory(m, n) == buffers[m][n].there /\ ~Loading(m, n)

Held(m, n) ==
  IF InMemory(m, n) THEN buffers[m][n].data
  ELSE IF Named(n) = {} THEN NoName
  ELSE docs[CHOOSE i \in Named(n) : TRUE].data

Mount == CHOOSE m \in Mounts : TRUE

Files == INSTANCE FileSystem WITH
  Contents <- Data \cup {Empty, Garbage},
  Written <- Data \cup {Empty},
  NoFile <- NoName,
  files <- [n \in Names |-> Held(Mount, n)],
  unsaved <- {n \in Names : buffers[Mount][n].dirty},
  broken <- faults > 0,
  mixed <- "onto" \in excused

(* One mount: the handlers, with their handles, files in memory and calls   *)
(* of the database, are a map from names to contents that users write,      *)
(* rename to free names and remove in one step each, until they rename a    *)
(* file onto another.  A failing call or a crash loses files that were not  *)
(* flushed, and no others but one that was being opened.                    *)
ImplementsFileSystem == Files!Spec

(* A handler that has started returns. *)
CallsReturn == \A m \in Mounts : ~Quiet(m) ~> Quiet(m)

(* Without failing calls a file that exists keeps existing while nobody     *)
(* unlinks it, however the flushes and failed opens of several mounts       *)
(* remove and store it.                                                     *)
FilesSurvive ==
  (faults = 0 /\ \A m \in Mounts : Quiet(m)) =>
    \A n \in Names : given[n] # NoMeta => Named(n) # {}

----------------------------------------------------------------------------
(* "It is possible to have a file opened more than once, in which case only *)
(* the last release will mean, that no more reads/writes will happen on the *)
(* file": an open file that may write can write.  (Not so: the first        *)
(* release drops the file in memory, and later writes get -EBADF.)          *)
WritersHaveBuffer ==
  \A m \in Mounts, h \in Handles :
    (Quiet(m) /\ flags[m][h] = "rw") => buffers[m][table[m][h]].there
=============================================================================
