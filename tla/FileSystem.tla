----------------------------- MODULE FileSystem -----------------------------
(***************************************************************************)
(* What the users of one mount are promised of its regular files: a map    *)
(* from names to contents.  A file that was written is unsaved until a     *)
(* flush has put it into GridFS.  As long as no call of the database fails *)
(* and the process does not die, nothing but their own operations changes  *)
(* the map; after that, unsaved files can be lost, and an open can spoil   *)
(* the file it opens.  No crash and no failing call harms another file.    *)
(* Nothing is promised once a file was renamed onto another.               *)
(***************************************************************************)
CONSTANTS
  Names,
  Contents,
  Written, \* the contents that users can give a file, some of Contents
  Empty,   \* the content of a new file, one of them
  NoFile   \* not one of Contents

VARIABLES
  files,    \* what a file holds, or NoFile
  unsaved,  \* the names of the files that memory alone holds
  broken,   \* some call has failed, or the process has died
  mixed     \* two files have got one name

vars == <<files, unsaved, broken, mixed>>

Exists(n) == files[n] # NoFile

Init ==
  /\ files \in [Names -> Contents \cup {NoFile}]
  /\ unsaved = {}
  /\ broken = FALSE
  /\ mixed = FALSE

Create(n) ==
  /\ ~Exists(n)
  /\ files' = [files EXCEPT ![n] = Empty]
  /\ UNCHANGED unsaved

(* Writing and truncating. *)
Write(n, c) ==
  /\ Exists(n)
  /\ files' = [files EXCEPT ![n] = c]
  /\ unsaved' = unsaved \cup {n}

Save(n) ==
  /\ unsaved' = unsaved \ {n}
  /\ UNCHANGED files

Remove(n) ==
  /\ Exists(n) /\ n \notin unsaved
  /\ files' = [files EXCEPT ![n] = NoFile]
  /\ UNCHANGED unsaved

Rename(n, to) ==
  /\ Exists(n) /\ ~Exists(to) /\ n \notin unsaved
  /\ files' = [files EXCEPT ![n] = NoFile, ![to] = files[n]]
  /\ UNCHANGED unsaved

Operation ==
  \/ \E n \in Names : Create(n) \/ Save(n) \/ Remove(n)
  \/ \E n \in Names, c \in Written : Write(n, c)
  \/ \E n, to \in Names : Rename(n, to)

(* The process dies, or gives up a file it could not flush: some of the     *)
(* unsaved files are no longer what they were.                              *)
Lose ==
  /\ broken'
  /\ files' \in [Names -> Contents \cup {NoFile}]
  /\ \A n \in Names \ unsaved : files'[n] = files[n]
  /\ unsaved' \subseteq unsaved

(* An open that fails leaves a part of the file in memory, to be flushed. *)
Spoil(n) ==
  /\ broken'
  /\ n \notin unsaved
  /\ \E c \in Contents : Write(n, c)

(* A file is renamed onto another: both are there, and which of them a name *)
(* stands for is open from then on.                                         *)
Mix == mixed'

Next ==
  /\ broken => broken'
  /\ \/ UNCHANGED mixed /\ (Operation \/ Lose \/ \E n \in Names : Spoil(n))
     \/ Mix

Spec == Init /\ [][Next]_vars
=============================================================================
