----------------------------- MODULE Namespace -----------------------------
(***************************************************************************)
(* The directory tree that mgridfs keeps in the documents of fs.files:     *)
(* "filename" is the whole path, by which getattr and open look a file up, *)
(* and metadata.directory and metadata.filename are its parts, by which    *)
(* readdir and rmdir find the entries of a directory.  storeFile writes    *)
(* the first, a later update the others, so the two can disagree.  The     *)
(* handlers of dir_meta_ops.cpp, mgridfs_load_or_create_root and the       *)
(* handlers of file_meta_ops.cpp that make, remove and rename names, one   *)
(* call of the database a step, in mounts that run beside each other.      *)
(***************************************************************************)
EXTENDS FiniteSets, Naturals, Sequences

CONSTANTS
  Mounts,
  Components,  \* names in a directory
  MaxDepth,    \* bound on the length of paths
  Ids,         \* _id of the documents
  Scope,       \* which renames users do: "across" directories, "onto" a name
  MaxFaults    \* bound on calls of the database that fail

RootName == ""  \* the base name of the root, and of nothing else

ASSUME NamespaceAssumption ==
  /\ MaxDepth \in Nat \ {0} /\ MaxFaults \in Nat
  /\ 0 \notin Ids
  /\ RootName \notin Components
  /\ Scope \subseteq {"across", "onto"}

VARIABLES
  docs,   \* fs.files
  state,  \* of a mount: "down", "up"
  call,   \* the handler each mount is in, and how far
  excused,\* what happened of "race", "moved" and "onto", see Watch
  faults

vars == <<docs, state, call, excused, faults>>

Root == <<>>
Paths == UNION {[1..k -> Components] : k \in 0..MaxDepth}

(* The definitions named Slip_... are mutants: each is a plausible slip in  *)
(* the definition below it, and none is part of the specification.         *)
Slip_Basename(p) == IF p = Root THEN "/" ELSE p[Len(p)]

(* getPathDirname and getPathBasename: the root is its own parent, and its  *)
(* base name is empty.                                                      *)
Dirname(p) == IF p = Root THEN Root ELSE SubSeq(p, 1, Len(p) - 1)
Basename(p) == IF p = Root THEN RootName ELSE p[Len(p)]

(* What mgridfs_create and mgridfs_symlink make is the same to the tree. *)
Kinds == {"directory", "file"}
NoDoc == [filename |-> Root, kind |-> "none", directory |-> Root, base |-> RootName]

(* What storeFile writes: no metadata, so getattr answers with no file type *)
(* and readdir and rmdir do not see it.                                     *)
Bare(p) == [filename |-> p, kind |-> "bare", directory |-> Root, base |-> RootName]

Whole(p, k) == [filename |-> p, kind |-> k, directory |-> Dirname(p), base |-> Basename(p)]

There == {i \in Ids : docs[i] # NoDoc}
Named(p) == {i \in There : docs[i].filename = p}

(* An _id that is new: not one of a document that a handler still is to     *)
(* update, though another mount has removed it.                             *)
Fresh == Ids \ (There \cup {call[m].id : m \in Mounts})

(* The query for metadata.directory of readdir and rmdir. *)
Entries(p) == {i \in There : docs[i].kind \in Kinds /\ docs[i].directory = p}

Slip_Listing(p) == {docs[i].base : i \in Entries(p)}

(* What readdir fills in: entries with an empty name are left out. *)
Listing(p) == {docs[i].base : i \in Entries(p)} \ {RootName}

IsDirectory(p) == \E i \in Named(p) : docs[i].kind = "directory"

Idle == [at |-> "idle", path |-> Root, kind |-> "none", id |-> 0]
Quiet(m) == call[m] = Idle
Ready(m) == Quiet(m) /\ state[m] = "up"
Return(m) == call' = [call EXCEPT ![m] = Idle]

Fault == faults < MaxFaults /\ faults' = faults + 1
NoFault == UNCHANGED faults
(* Bound: a handler that stores a document starts only if an id is left. *)
Room == Cardinality({m \in Mounts : call[m].at = "store"}) < Cardinality(Fresh)

Perhaps(effect) == effect \/ UNCHANGED docs

Init ==
  /\ docs = [i \in Ids |-> NoDoc]
  /\ state = [m \in Mounts |-> "down"]
  /\ call = [m \in Mounts |-> Idle]
  /\ excused = {}
  /\ faults = 0

----------------------------------------------------------------------------
(* mgridfs_load_or_create_root, before the file system is mounted. *)
loadRoot(m) ==
  /\ Quiet(m) /\ state[m] = "down" /\ Room
  /\ IF IsDirectory(Root)
       THEN state' = [state EXCEPT ![m] = "up"] /\ UNCHANGED call
       ELSE /\ call' = [call EXCEPT ![m] =
                          [at |-> "store", path |-> Root, kind |-> "directory", id |-> 0]]
            /\ UNCHANGED state
  /\ UNCHANGED <<docs, faults>>

(* mgridfs_mkdir, mgridfs_create and mgridfs_symlink, of a name the kernel  *)
(* has just looked up in vain in a directory it has looked up.              *)
make(m, p, kind) ==
  /\ Ready(m) /\ Room
  /\ p # Root /\ IsDirectory(Dirname(p)) /\ Named(p) = {}
  /\ call' = [call EXCEPT ![m] = [at |-> "store", path |-> p, kind |-> kind, id |-> 0]]
  /\ UNCHANGED <<docs, state, faults>>

Store(i, p) == docs' = [docs EXCEPT ![i] = Bare(p)]

store(m) ==
  /\ call[m].at = "store"
  /\ \E i \in Fresh :
       \/ /\ Store(i, call[m].path) /\ NoFault
          /\ call' = [call EXCEPT ![m].at = "update", ![m].id = i]
       \/ Perhaps(Store(i, call[m].path)) /\ Fault /\ Return(m)
  /\ UNCHANGED state

Slip_UpdateInserts(i, p, k) == \E j \in Fresh : docs' = [docs EXCEPT ![j] = Whole(p, k)]

(* The update by _id sets the metadata and leaves the path.  After it       *)
(* load_or_create_root looks for the root again, and mounts.                *)
Update(i, p, k) ==
  docs' = IF i \in There
            THEN [docs EXCEPT ![i] = [Whole(p, k) EXCEPT !.filename = docs[i].filename]]
            ELSE docs

update(m) ==
  LET c == call[m]
  IN  /\ c.at = "update"
      /\ \/ /\ Update(c.id, c.path, c.kind) /\ NoFault
            /\ state' = [state EXCEPT ![m] = "up"]
         \/ /\ Perhaps(Update(c.id, c.path, c.kind)) /\ Fault
            /\ UNCHANGED state
      /\ Return(m)

Slip_rmdir(m, p) ==
  /\ Ready(m)
  /\ p # Root /\ IsDirectory(p)
  /\ call' = [call EXCEPT ![m] = [at |-> "remove", path |-> p, kind |-> "none", id |-> 0]]
  /\ UNCHANGED <<docs, state, faults>>

(* mgridfs_rmdir: no entry may name this directory as its own. *)
rmdir(m, p) ==
  /\ Ready(m)
  /\ p # Root /\ IsDirectory(p)
  /\ Entries(p) = {}
  /\ call' = [call EXCEPT ![m] = [at |-> "remove", path |-> p, kind |-> "none", id |-> 0]]
  /\ UNCHANGED <<docs, state, faults>>

Remove(p) == docs' = [i \in Ids |-> IF docs[i].filename = p THEN NoDoc ELSE docs[i]]

remove(m) ==
  /\ call[m].at = "remove"
  /\ \/ Remove(call[m].path) /\ NoFault
     \/ Perhaps(Remove(call[m].path)) /\ Fault
  /\ Return(m)
  /\ UNCHANGED state

(* mgridfs_unlink *)
unlink(m, p) ==
  /\ Ready(m)
  /\ p # Root /\ Named(p) # {} /\ ~IsDirectory(p)
  /\ \/ Remove(p) /\ NoFault
     \/ Perhaps(Remove(p)) /\ Fault
  /\ UNCHANGED <<state, call>>

Slip_Rename(i, to) == docs' = [docs EXCEPT ![i].filename = to]

(* The update of mgridfs_rename: metadata.directory stays. *)
Rename(i, to) ==
  docs' = [docs EXCEPT ![i].filename = to,
                       ![i].base = Basename(to)]

(* mgridfs_rename of a file ("only single file", README.md). *)
rename(m, p, to) ==
  /\ Ready(m)
  /\ p # to /\ to # Root /\ ~IsDirectory(p) /\ ~IsDirectory(to)
  /\ IsDirectory(Dirname(to))
  /\ Dirname(p) # Dirname(to) => "across" \in Scope
  /\ Named(to) # {} => "onto" \in Scope
  /\ \E i \in Named(p) :
       \/ Rename(i, to) /\ NoFault
       \/ Perhaps(Rename(i, to)) /\ Fault
  /\ UNCHANGED <<state, call>>

handler(m) ==
  \/ loadRoot(m) \/ store(m) \/ update(m) \/ remove(m)
  \/ \E p \in Paths : rmdir(m, p) \/ unlink(m, p)
  \/ \E p \in Paths, kind \in Kinds : make(m, p, kind)
  \/ \E p, to \in Paths : rename(m, p, to)

(* A step changed a document at, above or below the path a handler of       *)
(* another mount has looked at and is about to change.                      *)
Near(p, q) == p = q \/ Dirname(p) = q \/ Dirname(q) = p

Race(m) ==
  \E k \in Mounts \ {m}, i \in Ids :
    ~Quiet(k) /\ docs'[i] # docs[i] /\
      \/ docs[i] # NoDoc /\ Near(docs[i].filename, call[k].path)
      \/ docs'[i] # NoDoc /\ Near(docs'[i].filename, call[k].path)

(* A rename took the document that a handler of another mount has stored    *)
(* and is about to update.                                                  *)
Moved(m) ==
  \E k \in Mounts \ {m}, i \in There :
    /\ call[k].at = "update" /\ call[k].id = i
    /\ docs'[i] # NoDoc /\ docs'[i].filename # docs[i].filename

(* A rename gave a file the name of another. *)
Onto ==
  \E i \in There : /\ docs'[i] # NoDoc /\ docs'[i].filename # docs[i].filename
                   /\ Named(docs'[i].filename) # {}

Watch(m) ==
  excused' = excused \cup (IF Race(m) THEN {"race"} ELSE {})
                     \cup (IF Moved(m) THEN {"moved"} ELSE {})
                     \cup (IF Onto THEN {"onto"} ELSE {})

Next == \E m \in Mounts : handler(m) /\ Watch(m)

Spec == Init /\ [][Next]_vars

----------------------------------------------------------------------------
AllQuiet == \A m \in Mounts : Quiet(m)

(* The shapes of the documents: getPathBasename never makes a name that is   *)
(* not one of a directory, and the root has none.                           *)
TypeOK ==
  /\ docs \in [Ids -> [filename : Paths, kind : Kinds \cup {"bare"}, directory : Paths,
                       base : Components \cup {RootName}] \cup {NoDoc}]
  /\ state \in [Mounts -> {"down", "up"}]
  /\ faults \in 0..MaxFaults

(* A name that readdir lists can be looked up, whatever call failed and     *)
(* whatever other mounts do meanwhile, but for a rename of a file that is   *)
(* still being made: its update then gives the new path the old name.       *)
ListedIsThere ==
  "moved" \notin excused => \A p \in Paths : \A c \in Listing(p) : Named(Append(p, c)) # {}

(* Without failing calls readdir lists every file that can be looked up,    *)
(* and no other, but for such a rename.                                     *)
ListingMatchesLookup ==
  (faults = 0 /\ "moved" \notin excused /\ AllQuiet) =>
    \A p \in Paths : Listing(p) = {Basename(docs[i].filename) :
                                     i \in {j \in There : /\ docs[j].filename # Root
                                                          /\ Dirname(docs[j].filename) = p}}

(* Without failing calls every file is in a directory that exists, through  *)
(* any order of making, removing and renaming in any of the mounts, but for *)
(* a race for the file or its directory.                                    *)
NoOrphans ==
  (faults = 0 /\ "race" \notin excused /\ AllQuiet) =>
    \A i \in There : IsDirectory(Dirname(docs[i].filename))

(* A path has one document, also when a call fails and the user tries       *)
(* again, but for a race for the path and a rename onto another file.       *)
UniquePaths == excused = {} => \A p \in Paths \ {Root} : Cardinality(Named(p)) <= 1
=============================================================================
