--------------------------- MODULE MGridFSProofs ---------------------------
(***************************************************************************)
(* Proofs about MGridFS.tla for any number of mounts, names, handles,      *)
(* documents, contents, owners and failing calls.                          *)
(***************************************************************************)
EXTENDS MGridFS, TLAPS

Flushing == {"flush.find", "flush.remove", "flush.store", "flush.update"}
Opening == {"open.find", "open.load", "open.chunks"}
Creating == {"create.store", "create.update"}

CallType ==
  [at : {"idle"} \cup Flushing \cup Opening \cup Creating,
   for : {"none", "ro", "rw", "flush", "release", "open"},
   name : Names \cup {NoName},
   h : Handles \cup {0},
   id : Ids \cup {0},
   tries : Nat,
   meta : Attrs \cup {NoMeta}]

File == [data : Content, dirty : BOOLEAN, there : {TRUE}]

(* The shapes of what one mount keeps: its handles t, their flags f, its    *)
(* files in memory b and the handler c it is in.                            *)
Shaped(t, f, b, c) ==
  /\ t \in [Handles -> Names \cup {NoName}]
  /\ f \in [Handles -> {"none", "ro", "rw"}]
  /\ b \in [Names -> File \cup {NoBuffer}]
  /\ c \in CallType

(* A handler knows the file it is for; one that flushes has a dirty file in *)
(* memory, and one that opens or closes a file has its handle.              *)
InHandler(t, f, b, c) ==
  /\ c.at = "idle" => c = Idle
  /\ c.at # "idle" => c.name \in Names
  /\ c.at \in Flushing =>
       /\ b[c.name].there /\ b[c.name].dirty
       /\ c.for \in {"flush", "release", "open"}
       /\ c.for # "flush" => /\ c.h \in Handles /\ t[c.h] = c.name
                             /\ c.tries > 0
       /\ c.for = "open" => f[c.h] = "none"
  /\ c.at \in Opening =>
       /\ c.h \in Handles /\ t[c.h] = c.name /\ f[c.h] = "none"
       /\ c.for \in {"ro", "rw"}
  /\ c.at = "open.find" => ~b[c.name].there
  /\ c.at \in {"open.load", "open.chunks"} => b[c.name].there /\ ~b[c.name].dirty
  /\ c.at \in Creating => c.meta \in Attrs
  /\ c.at \in {"flush.update", "create.update", "open.chunks"} => c.id \in Ids

(* Open files have their entry in the table, and files in memory their      *)
(* writer, or a handler that is about to make one or to drop the file.      *)
Owned(t, f, b, c) ==
  /\ \A h \in Handles : f[h] # "none" => t[h] # NoName
  /\ \A n \in Names : b[n].there =>
       \/ \E h \in Handles : t[h] = n /\ f[h] = "rw"
       \/ /\ c.name = n
          /\ \/ c.at \in {"open.load", "open.chunks"}
             \/ c.at \in Flushing /\ c.for = "open"

MountOK(t, f, b, c) == Shaped(t, f, b, c) /\ InHandler(t, f, b, c) /\ Owned(t, f, b, c)

DocType == [filename : Names, data : Content, meta : Attrs \cup {NoMeta}] \cup {NoDoc}

MountsOK ==
  /\ table \in [Mounts -> [Handles -> Names \cup {NoName}]]
  /\ flags \in [Mounts -> [Handles -> {"none", "ro", "rw"}]]
  /\ buffers \in [Mounts -> [Names -> File \cup {NoBuffer}]]
  /\ call \in [Mounts -> CallType]
  /\ \A m \in Mounts : MountOK(table[m], flags[m], buffers[m], call[m])

DocsOK ==
  /\ docs \in [Ids -> DocType]
  /\ given \in [Names -> Attrs \cup {NoMeta}]
  /\ excused \subseteq {"race", "onto"} /\ faults \in 0..MaxFaults

(* Without failing calls a file is missing only while a flush is about to   *)
(* store it.                                                                *)
Missing(n) == given[n] # NoMeta /\ Named(n) = {}

Storing(m, n) == call[m].at = "flush.store" /\ call[m].name = n

Surviving ==
  faults = 0 => \A n \in Names : Missing(n) => \E m \in Mounts : Storing(m, n)

(* Without a race or a rename onto another file a name has one document, a  *)
(* handler that has removed it stores the only one, and owner and mode are  *)
(* the given ones, in the document or on their way from the old one to the  *)
(* new.                                                                     *)
KeptBy(c) ==
  /\ c.at \in {"flush.store", "create.store"} => Named(c.name) = {}
  /\ c.at \in {"flush.remove", "flush.store", "flush.update"} =>
       c.meta \in {NoMeta, given[c.name]}
  /\ c.at \in {"flush.update", "create.update"} => docs[c.id].filename = c.name
  /\ c.at = "create.update" => c.meta = given[c.name]

Unique ==
  \A i, j \in Ids : docs[i] # NoDoc /\ docs[i].filename = docs[j].filename => i = j

GivenMeta == \A i \in Ids : docs[i].meta # NoMeta => docs[i].meta = given[docs[i].filename]

Kept == excused = {} => Unique /\ GivenMeta /\ \A m \in Mounts : KeptBy(call[m])

IInv == MountsOK /\ DocsOK /\ Surviving /\ Kept

----------------------------------------------------------------------------
(* The step leaves mount m with t, f, b and c, and the others alone. *)
Becomes(m, t, f, b, c) ==
  /\ table' = [table EXCEPT ![m] = t]
  /\ flags' = [flags EXCEPT ![m] = f]
  /\ buffers' = [buffers EXCEPT ![m] = b]
  /\ call' = [call EXCEPT ![m] = c]

LEMMA BecomesOK ==
  ASSUME MountsOK, NEW m \in Mounts, NEW t, NEW f, NEW b, NEW c,
         MountOK(t, f, b, c), Becomes(m, t, f, b, c)
  PROVE  MountsOK'
<1>1. /\ table' \in [Mounts -> [Handles -> Names \cup {NoName}]]
      /\ flags' \in [Mounts -> [Handles -> {"none", "ro", "rw"}]]
      /\ buffers' \in [Mounts -> [Names -> File \cup {NoBuffer}]]
      /\ call' \in [Mounts -> CallType]
  BY DEF Becomes, MountsOK, MountOK, Shaped
<1>2. ASSUME NEW k \in Mounts
      PROVE  MountOK(table'[k], flags'[k], buffers'[k], call'[k])
  <2>1. CASE k = m
    BY <2>1 DEF Becomes, MountsOK
  <2>2. CASE k # m
    BY <2>2 DEF Becomes, MountsOK
  <2> QED
    BY <2>1, <2>2
<1> QED
  BY <1>1, <1>2 DEF MountsOK

----------------------------------------------------------------------------
(* Fields of the constant records. *)
LEMMA NoBufferFields == NoBuffer.there = FALSE /\ NoBuffer.dirty = FALSE /\ NoBuffer.data = Empty
BY Zenon DEF NoBuffer

LEMMA NoBufferIsNoFile == NoBuffer \notin File
<1>1. \A x \in File : x.there = TRUE
  BY DEF File
<1> QED
  BY <1>1, NoBufferFields, Zenon

(* What is there is a file. *)
LEMMA ThereIsFile ==
  ASSUME NEW x \in File \cup {NoBuffer}, x.there \/ x.dirty
  PROVE  x \in File /\ x.there
<1>1. x # NoBuffer
  BY NoBufferFields, Zenon
<1>2. x \in File
  BY <1>1
<1>3. x.there = TRUE
  BY <1>2 DEF File
<1> QED
  BY <1>2, <1>3, Zenon

(* A file keeps its shape when its data or its flag changes, and so does    *)
(* its mount.                                                               *)
LEMMA FileChanges ==
  ASSUME NEW x \in File, NEW v \in Content, NEW d \in BOOLEAN
  PROVE  /\ [x EXCEPT !.dirty = d] \in File
         /\ [x EXCEPT !.data = v, !.dirty = d] \in File
         /\ [x EXCEPT !.data = v] \in File
BY DEF File

LEMMA IdleIsCall == Idle \in CallType
BY DEF Idle, CallType

(* A file in memory that stays one, in a mount whose handler returns. *)
LEMMA ReturnsWith ==
  ASSUME NEW t, NEW f, NEW b, NEW c, MountOK(t, f, b, c),
         c.at \in Flushing => c.for # "open",
         c.at \notin {"open.load", "open.chunks"},
         NEW n \in Names, b[n].there, NEW x \in File
  PROVE  MountOK(t, f, [b EXCEPT ![n] = x], Idle)
<1> DEFINE b2 == [b EXCEPT ![n] = x]
<1>1. b2 \in [Names -> File \cup {NoBuffer}]
  BY DEF MountOK, Shaped
<1>2. \A k \in Names : b2[k].there => b[k].there
  BY DEF MountOK, Shaped
<1> HIDE DEF b2
<1>3. Shaped(t, f, b2, Idle)
  BY <1>1, IdleIsCall DEF MountOK, Shaped
<1>4. InHandler(t, f, b2, Idle)
  BY DEF InHandler, Idle, Flushing, Opening, Creating
<1>5. Owned(t, f, b2, Idle)
  BY <1>2 DEF MountOK, Owned
<1> QED
  BY <1>3, <1>4, <1>5 DEF MountOK, b2

(* A file that is dropped with its handle h. *)
LEMMA Drops ==
  ASSUME NEW t, NEW f, NEW b, NEW c, MountOK(t, f, b, c),
         NEW h \in Handles, NEW n \in Names, t[h] = n,
         c.at \in Flushing \cup Opening => c.name = n,
         NEW t2, NEW f2, NEW b2, Shaped(t2, f2, b2, Idle),
         f2[h] = "none", ~b2[n].there,
         \A g \in Handles \ {h} : t2[g] = t[g] /\ f2[g] = f[g],
         \A k \in Names \ {n} : b2[k] = b[k]
  PROVE  MountOK(t2, f2, b2, Idle)
<1>1. InHandler(t2, f2, b2, Idle)
  BY DEF InHandler, Idle, Flushing, Opening, Creating
<1>2. Owned(t2, f2, b2, Idle)
  <2>1. \A g \in Handles : f2[g] # "none" => t2[g] # NoName
    BY DEF MountOK, Owned
  <2>2. ASSUME NEW k \in Names, b2[k].there
        PROVE  \E g \in Handles : t2[g] = k /\ f2[g] = "rw"
    <3>1. k # n /\ b[k].there
      BY <2>2
    <3>2. PICK g \in Handles : t[g] = k /\ f[g] = "rw"
      BY <3>1 DEF MountOK, Owned, Opening
    <3> QED
      BY <3>1, <3>2
  <2> QED
    BY <2>1, <2>2 DEF Owned
<1> QED
  BY <1>1, <1>2 DEF MountOK

(* The next call of a flush, or the next flush. *)
LEMMA FlushesOn ==
  ASSUME NEW t, NEW f, NEW b, NEW c, MountOK(t, f, b, c), c.at \in Flushing,
         NEW c2 \in CallType, c2.at \in Flushing,
         c2.for = c.for, c2.name = c.name, c2.h = c.h, 
         c2.for # "flush" => c2.tries > 0,
         c2.at = "flush.update" => c2.id \in Ids
  PROVE  MountOK(t, f, b, c2)
<1>1. Shaped(t, f, b, c2)
  BY DEF MountOK, Shaped
<1>2. InHandler(t, f, b, c2)
  BY DEF MountOK, InHandler, Flushing, Opening, Creating
<1>3. Owned(t, f, b, c2)
  BY DEF MountOK, Owned, Flushing
<1> QED
  BY <1>1, <1>2, <1>3 DEF MountOK

----------------------------------------------------------------------------
(* What MountsOK says of the mount of a handler. *)
LEMMA MountOf ==
  ASSUME MountsOK, NEW m \in Mounts
  PROVE  /\ MountOK(table[m], flags[m], buffers[m], call[m])
         /\ table[m] \in [Handles -> Names \cup {NoName}]
         /\ flags[m] \in [Handles -> {"none", "ro", "rw"}]
         /\ buffers[m] \in [Names -> File \cup {NoBuffer}]
         /\ call[m] \in CallType
         /\ call[m].at # "idle" => call[m].name \in Names
BY DEF MountsOK, MountOK, InHandler

(* A handler that flushes has a dirty file in memory. *)
LEMMA FlushingFile ==
  ASSUME MountsOK, NEW m \in Mounts, call[m].at \in Flushing
  PROVE  /\ call[m].name \in Names
         /\ buffers[m][call[m].name] \in File
         /\ buffers[m][call[m].name].there /\ buffers[m][call[m].name].dirty
<1>1. call[m].name \in Names
  BY MountOf DEF Flushing
<1> QED
  BY <1>1, MountOf, ThereIsFile DEF MountOK, InHandler

(* The end of a flush. *)
LEMMA FlushEndsOK ==
  ASSUME MountsOK, NEW m \in Mounts, call[m].at \in Flushing, NEW ok \in BOOLEAN, FlushEnds(m, ok)
  PROVE  MountsOK'
<1> DEFINE t == table[m]
           f == flags[m]
           b == buffers[m]
           c == call[m]
<1>0. /\ MountOK(t, f, b, c) /\ c.name \in Names /\ b[c.name] \in File /\ b[c.name].there
      /\ c \in CallType
  BY MountOf, FlushingFile
<1>1. CASE c.for = "flush"
  <2> DEFINE x == [b[c.name] EXCEPT !.dirty = @ /\ ~ok]
  <2>1. Becomes(m, t, f, [b EXCEPT ![c.name] = x], Idle)
    BY <1>1 DEF FlushEnds, Return, Becomes, MountsOK
  <2>2. x \in File
    <3>1. (b[c.name].dirty /\ ~ok) \in BOOLEAN
      OBVIOUS
    <3>2. \A v \in BOOLEAN : [b[c.name] EXCEPT !.dirty = v] \in File
      BY <1>0 DEF File
    <3> QED
      BY <3>1, <3>2, Zenon
  <2> HIDE DEF x
  <2>3. MountOK(t, f, [b EXCEPT ![c.name] = x], Idle)
    BY <1>0, <1>1, <2>2, ReturnsWith DEF Flushing
  <2> QED
    BY <2>1, <2>3, BecomesOK
<1>2. CASE c.for # "flush" /\ ~ok /\ c.tries > 1
  <2> DEFINE c2 == Call("flush.find", c.for, c.name, c.h, 0, c.tries - 1)
  <2>1. Becomes(m, t, f, b, c2)
    BY <1>2 DEF FlushEnds, local, Becomes, MountsOK
  <2>2. /\ c2 \in CallType /\ c2.at = "flush.find" /\ c2.tries > 0
        /\ c2.for = c.for /\ c2.name = c.name /\ c2.h = c.h
    BY <1>0, <1>2 DEF CallType, Call, Flushing
  <2> HIDE DEF c2
  <2>3. MountOK(t, f, b, c2)
    BY <1>0, <2>2, FlushesOn DEF Flushing
  <2> QED
    BY <2>1, <2>3, BecomesOK
<1>3. CASE c.for # "flush" /\ ~(~ok /\ c.tries > 1)
  <2> DEFINE b2 == [b EXCEPT ![c.name] = NoBuffer]
             f2 == [f EXCEPT ![c.h] = "none"]
             t2 == IF c.for = "release" THEN [t EXCEPT ![c.h] = NoName] ELSE t
  <2>1. Becomes(m, t2, f2, b2, Idle)
    BY <1>3 DEF FlushEnds, Return, Becomes, MountsOK, Handle!WithoutHandle
  <2>2. c.h \in Handles /\ t[c.h] = c.name
    BY <1>0, <1>3 DEF MountOK, InHandler
  <2>3. /\ Shaped(t2, f2, b2, Idle)
        /\ f2[c.h] = "none" /\ ~b2[c.name].there
        /\ \A g \in Handles \ {c.h} : t2[g] = t[g] /\ f2[g] = f[g]
        /\ \A k \in Names \ {c.name} : b2[k] = b[k]
    BY <1>0, <2>2, MountOf, IdleIsCall, NoBufferFields DEF Shaped
  <2> HIDE DEF t2, f2, b2
  <2>4. MountOK(t2, f2, b2, Idle)
    BY <1>0, <2>2, <2>3, Drops
  <2> QED
    BY <2>1, <2>4, BecomesOK
<1> QED
  BY <1>1, <1>2, <1>3

(* A handler that goes on to the next call of its flush. *)
LEMMA FlushGoesOn ==
  ASSUME MountsOK, NEW m \in Mounts, call[m].at \in Flushing,
         NEW at \in Flushing, NEW v \in Attrs \cup {NoMeta}, NEW i \in Ids \cup {0},
         at = "flush.update" => i \in Ids,
         call' = [call EXCEPT ![m] = [call[m] EXCEPT !.at = at, !.meta = v, !.id = i]],
         UNCHANGED local
  PROVE  MountsOK'
<1> DEFINE c == call[m]
           c2 == [c EXCEPT !.at = at, !.meta = v, !.id = i]
<1>1. MountOK(table[m], flags[m], buffers[m], c) /\ c \in CallType
  BY MountOf
<1>2. /\ c2 \in CallType /\ c2.at = at /\ c2.tries = c.tries /\ c2.id = i
      /\ c2.for = c.for /\ c2.name = c.name /\ c2.h = c.h
  BY <1>1 DEF CallType
<1>3. Becomes(m, table[m], flags[m], buffers[m], c2)
  BY DEF local, MountsOK, Becomes
<1>4. c2.for # "flush" => c2.tries > 0
  BY <1>1, <1>2 DEF MountOK, InHandler
<1> HIDE DEF c2
<1>5. MountOK(table[m], flags[m], buffers[m], c2)
  BY <1>1, <1>2, <1>4, FlushesOn
<1> QED
  BY <1>3, <1>5, BecomesOK

LEMMA flushFindOK ==
  ASSUME MountsOK, DocsOK, NEW m \in Mounts, flushFind(m)
  PROVE  MountsOK'
<1>1. CASE FlushEnds(m, FALSE)
  BY <1>1, FlushEndsOK DEF flushFind, Flushing
<1>2. ASSUME NEW i \in Named(call[m].name),
             call' = [call EXCEPT ![m].at = "flush.remove", ![m].meta = docs[i].meta],
             UNCHANGED local
      PROVE  MountsOK'
  <2>1. docs[i].meta \in Attrs \cup {NoMeta}
    BY DEF DocsOK, DocType, NoDoc, Named
  <2>2. call[m] \in CallType /\ call[m].id \in Ids \cup {0}
    BY MountOf DEF CallType
  <2>3. call' = [call EXCEPT ![m] = [call[m] EXCEPT !.at = "flush.remove", !.meta = docs[i].meta,
                                                    !.id = call[m].id]]
    BY <1>2, <2>2 DEF MountsOK, CallType
  <2> QED
    BY <1>2, <2>1, <2>2, <2>3, FlushGoesOn DEF flushFind, Flushing
<1> QED
  BY <1>1, <1>2 DEF flushFind

LEMMA flushRemoveOK ==
  ASSUME MountsOK, NEW m \in Mounts, flushRemove(m)
  PROVE  MountsOK'
<1>1. CASE FlushEnds(m, FALSE)
  BY <1>1, FlushEndsOK DEF flushRemove, Flushing
<1>2. CASE Goto(m, "flush.store") /\ UNCHANGED local
  <2>1. call[m] \in CallType /\ call[m].id \in Ids \cup {0} /\ call[m].meta \in Attrs \cup {NoMeta}
    BY MountOf DEF CallType
  <2>2. call' = [call EXCEPT ![m] = [call[m] EXCEPT !.at = "flush.store", !.meta = call[m].meta,
                                                    !.id = call[m].id]]
    BY <1>2, <2>1 DEF MountsOK, CallType, Goto
  <2> QED
    BY <1>2, <2>1, <2>2, FlushGoesOn DEF flushRemove, Flushing
<1> QED
  BY <1>1, <1>2 DEF flushRemove

LEMMA GoesOnWithDoc ==
  ASSUME MountsOK, NEW m \in Mounts, call[m].at \in Flushing, NEW i \in Ids,
         call' = [call EXCEPT ![m].at = "flush.update", ![m].id = i],
         UNCHANGED local
  PROVE  MountsOK'
<1> DEFINE c == call[m]
           c2 == [c EXCEPT !.at = "flush.update", !.id = i]
<1>1. MountOK(table[m], flags[m], buffers[m], c) /\ c \in CallType
  BY MountOf
<1>2. /\ c2 \in CallType /\ c2.at = "flush.update" /\ c2.tries = c.tries /\ c2.id = i
      /\ c2.for = c.for /\ c2.name = c.name /\ c2.h = c.h
  BY <1>1 DEF CallType, Flushing
<1>3. Becomes(m, table[m], flags[m], buffers[m], c2)
  BY DEF local, MountsOK, Becomes
<1>4. c2.for # "flush" => c2.tries > 0
  BY <1>1, <1>2 DEF MountOK, InHandler
<1> HIDE DEF c2
<1>5. MountOK(table[m], flags[m], buffers[m], c2)
  BY <1>1, <1>2, <1>4, FlushesOn DEF Flushing
<1> QED
  BY <1>3, <1>5, BecomesOK

LEMMA flushStoreOK ==
  ASSUME MountsOK, NEW m \in Mounts, flushStore(m)
  PROVE  MountsOK'
<1>1. call[m].at \in Flushing
  BY DEF flushStore, Flushing
<1>2. \/ FlushEnds(m, FALSE)
      \/ \E i \in Ids : call' = [call EXCEPT ![m].at = "flush.update", ![m].id = i] /\ UNCHANGED local
  BY DEF flushStore, Fresh
<1> QED
  BY <1>1, <1>2, FlushEndsOK, GoesOnWithDoc

LEMMA flushUpdateOK ==
  ASSUME MountsOK, NEW m \in Mounts, flushUpdate(m)
  PROVE  MountsOK'
<1>1. FlushEnds(m, TRUE) \/ FlushEnds(m, FALSE)
  BY DEF flushUpdate
<1> QED
  BY <1>1, FlushEndsOK DEF flushUpdate, Flushing

----------------------------------------------------------------------------
(* A mount between handlers, and one whose handler opens a file. *)
LEMMA QuietMount ==
  ASSUME MountsOK, NEW m \in Mounts, Quiet(m)
  PROVE  call[m] = Idle /\ MountOK(table[m], flags[m], buffers[m], Idle)
BY MountOf DEF Quiet, MountOK, InHandler

LEMMA OpeningFile ==
  ASSUME MountsOK, NEW m \in Mounts, call[m].at \in Opening
  PROVE  /\ call[m].name \in Names /\ call[m].name # NoName
         /\ call[m].h \in Handles
         /\ table[m][call[m].h] = call[m].name
         /\ flags[m][call[m].h] = "none"
         /\ call[m].for \in {"ro", "rw"}
         /\ call[m].at = "open.find" => ~buffers[m][call[m].name].there
         /\ call[m].at # "open.find" =>
              /\ buffers[m][call[m].name].there /\ ~buffers[m][call[m].name].dirty
              /\ buffers[m][call[m].name] \in File
<1>1. /\ call[m].name \in Names
      /\ MountOK(table[m], flags[m], buffers[m], call[m])
      /\ buffers[m] \in [Names -> File \cup {NoBuffer}]
  BY MountOf DEF Opening
<1> QED
  BY <1>1, ThereIsFile, MGridFSAssumption DEF MountOK, InHandler, Opening

(* A handle becomes open, for a file of the name it has in the table. *)
LEMMA Opens ==
  ASSUME NEW t, NEW f, NEW b, NEW c, MountOK(t, f, b, c),
         NEW h \in Handles, NEW n \in Names, f[h] = "none", t[h] \in {NoName, n},
         c.at \in {"idle", "open.find", "open.chunks", "create.update"},
         c.at = "open.chunks" => c.name = n,
         NEW t2, NEW f2, NEW b2, Shaped(t2, f2, b2, Idle),
         t2[h] = n, f2[h] \in {"ro", "rw"},
         \A g \in Handles \ {h} : t2[g] = t[g] /\ f2[g] = f[g],
         \A k \in Names \ {n} : b2[k] = b[k],
         b2[n].there => f2[h] = "rw" \/ (b[n].there /\ c.at = "idle")
  PROVE  MountOK(t2, f2, b2, Idle)
<1>1. InHandler(t2, f2, b2, Idle)
  BY DEF InHandler, Idle, Flushing, Opening, Creating
<1>2. n # NoName
  BY MGridFSAssumption
<1>3. \A g \in Handles : f[g] # "none" => t2[g] = t[g] /\ f2[g] = f[g]
  OBVIOUS
<1>4. \A g \in Handles : f2[g] # "none" => t2[g] # NoName
  BY <1>2 DEF MountOK, Owned
<1>5. ASSUME NEW k \in Names, b2[k].there
      PROVE  \E g \in Handles : t2[g] = k /\ f2[g] = "rw"
  <2>1. CASE k = n /\ f2[h] = "rw"
    BY <2>1
  <2>2. CASE ~(k = n /\ f2[h] = "rw")
    <3>1. b[k].there /\ ~(c.name = k /\ c.at \in {"open.load", "open.chunks"}) /\ c.at \notin Flushing
      BY <1>5, <2>2 DEF Flushing
    <3>2. PICK g \in Handles : t[g] = k /\ f[g] = "rw"
      BY <3>1 DEF MountOK, Owned
    <3> QED
      BY <3>2, <1>3
  <2> QED
    BY <2>1, <2>2
<1> QED
  BY <1>1, <1>4, <1>5 DEF MountOK, Owned

LEMMA openOK ==
  ASSUME MountsOK, NEW m \in Mounts, NEW n \in Names, NEW wr \in {"ro", "rw"}, NEW h \in Handles,
         open(m, n, wr, h)
  PROVE  MountsOK'
<1> DEFINE t == table[m]
           f == flags[m]
           b == buffers[m]
           t2 == [t EXCEPT ![h] = n]
<1>1. call[m] = Idle /\ MountOK(t, f, b, Idle) /\ Shaped(t, f, b, Idle)
  BY QuietMount DEF open, MountOK
<1>2. t[h] = NoName /\ f[h] = "none"
  BY <1>1 DEF open, MountOK, Owned, Handle!Unused
<1>3. t2 \in [Handles -> Names \cup {NoName}] /\ t2[h] = n
      /\ \A g \in Handles \ {h} : t2[g] = t[g]
  BY <1>1 DEF Shaped
<1>4. CASE b[n].there
  <2> DEFINE f2 == [f EXCEPT ![h] = wr]
  <2>1. Becomes(m, t2, f2, b, Idle)
    BY <1>1, <1>4 DEF open, Becomes, MountsOK, Handle!WithHandle
  <2>2. Shaped(t2, f2, b, Idle) /\ f2[h] = wr /\ \A g \in Handles \ {h} : f2[g] = f[g]
    BY <1>1, <1>3 DEF Shaped
  <2> HIDE DEF t2, f2
  <2>3. Idle.at = "idle"
    BY DEF Idle
  <2>4. MountOK(t2, f2, b, Idle)
    BY <1>1, <1>2, <1>3, <1>4, <2>2, <2>3, Opens
  <2> QED
    BY <2>1, <2>4, BecomesOK
<1>5. CASE ~b[n].there
  <2> DEFINE c2 == Call("open.find", wr, n, h, 0, 0)
  <2>1. Becomes(m, t2, f, b, c2)
    BY <1>1, <1>5 DEF open, Becomes, MountsOK, Handle!WithHandle
  <2>2. c2 \in CallType /\ c2.at = "open.find" /\ c2.for = wr /\ c2.name = n /\ c2.h = h
    BY DEF Call, CallType, Opening
  <2> HIDE DEF t2, c2
  <2>3. InHandler(t2, f, b, c2)
    BY <1>2, <1>3, <1>5, <2>2 DEF InHandler, Opening, Flushing, Creating
  <2>4. Owned(t2, f, b, c2)
    <3>1. \A g \in Handles : f[g] # "none" => t2[g] = t[g]
      BY <1>2, <1>3
    <3>2. Owned(t, f, b, Idle) /\ Idle.at = "idle"
      BY <1>1, Zenon DEF MountOK, Idle
    <3>3. \A k \in Names : b[k].there => \E g \in Handles : t[g] = k /\ f[g] = "rw"
      BY <3>2 DEF Owned, Flushing
    <3> QED
      BY <3>1, <3>2, <3>3 DEF Owned
  <2>5. MountOK(t2, f, b, c2)
    BY <1>1, <1>3, <2>2, <2>3, <2>4 DEF MountOK, Shaped
  <2> QED
    BY <2>1, <2>5, BecomesOK
<1> QED
  BY <1>4, <1>5

(* A handler that gives up the handle of a file that is not in memory. *)
LEMMA openFindOK ==
  ASSUME MountsOK, NEW m \in Mounts, openFind(m)
  PROVE  MountsOK'
<1> DEFINE t == table[m]
           f == flags[m]
           b == buffers[m]
           c == call[m]
<1>1. /\ MountOK(t, f, b, c) /\ Shaped(t, f, b, c) /\ c \in CallType /\ c.at = "open.find"
      /\ c.name \in Names /\ c.name # NoName /\ c.h \in Handles /\ t[c.h] = c.name /\ f[c.h] = "none"
      /\ ~b[c.name].there
  BY MountOf, OpeningFile DEF openFind, MountOK, Opening
<1>2. CASE /\ table' = [table EXCEPT ![m] = Handle!WithoutHandle(@, c.h)]
           /\ Return(m) /\ UNCHANGED <<flags, buffers>>
  <2> DEFINE t2 == [t EXCEPT ![c.h] = NoName]
  <2>1. Becomes(m, t2, f, b, Idle)
    BY <1>2 DEF Return, Becomes, MountsOK, Handle!WithoutHandle
  <2>2. Shaped(t2, f, b, Idle) /\ \A g \in Handles \ {c.h} : t2[g] = t[g]
    BY <1>1, IdleIsCall DEF Shaped
  <2> HIDE DEF t2
  <2>3. MountOK(t2, f, b, Idle)
    BY <1>1, <2>2, Drops
  <2> QED
    BY <2>1, <2>3, BecomesOK
<1>3. CASE /\ flags' = [flags EXCEPT ![m][c.h] = "ro"]
           /\ Return(m) /\ UNCHANGED <<table, buffers>>
  <2> DEFINE f2 == [f EXCEPT ![c.h] = "ro"]
  <2>1. Becomes(m, t, f2, b, Idle)
    BY <1>3 DEF Return, Becomes, MountsOK
  <2>2. Shaped(t, f2, b, Idle) /\ f2[c.h] = "ro" /\ \A g \in Handles \ {c.h} : f2[g] = f[g]
    BY <1>1, IdleIsCall DEF Shaped
  <2> HIDE DEF f2
  <2>3. MountOK(t, f2, b, Idle)
    BY <1>1, <2>2, Opens
  <2> QED
    BY <2>1, <2>3, BecomesOK
<1>4. CASE /\ buffers' = [buffers EXCEPT ![m][c.name] = [data |-> Empty, dirty |-> FALSE, there |-> TRUE]]
           /\ Goto(m, "open.load") /\ UNCHANGED <<table, flags>>
           /\ c.for # "ro"
  <2> DEFINE x == [data |-> Empty, dirty |-> FALSE, there |-> TRUE]
             b2 == [b EXCEPT ![c.name] = x]
             c2 == [c EXCEPT !.at = "open.load"]
  <2>1. Becomes(m, t, f, b2, c2)
    BY <1>4 DEF Goto, Becomes, MountsOK
  <2>2. x \in File /\ x.there = TRUE /\ x.dirty = FALSE
    <3>1. x.there = TRUE /\ x.dirty = FALSE
      BY Zenon
    <3>2. x \in File
      BY DEF File, Content
    <3> QED
      BY <3>1, <3>2
  <2> HIDE DEF x
  <2>3. /\ b2 \in [Names -> File \cup {NoBuffer}] /\ b2[c.name] = x
        /\ \A k \in Names \ {c.name} : b2[k] = b[k]
    BY <1>1, <2>2 DEF Shaped
  <2>4. /\ c2 \in CallType /\ c2.at = "open.load" /\ c2.name = c.name /\ c2.h = c.h /\ c2.for = c.for
    BY <1>1 DEF CallType, Opening
  <2> HIDE DEF b2, c2
  <2>5. InHandler(t, f, b2, c2)
    BY <1>1, <2>2, <2>3, <2>4 DEF MountOK, InHandler, Opening, Flushing, Creating
  <2>6. Owned(t, f, b2, c2)
    BY <1>1, <2>3, <2>4 DEF MountOK, Owned, Flushing
  <2>7. MountOK(t, f, b2, c2)
    BY <1>1, <2>3, <2>4, <2>5, <2>6 DEF MountOK, Shaped
  <2> QED
    BY <2>1, <2>7, BecomesOK
<1> QED
  BY <1>2, <1>3, <1>4 DEF openFind

LEMMA openLoadOK ==
  ASSUME MountsOK, NEW m \in Mounts, openLoad(m)
  PROVE  MountsOK'
<1> DEFINE t == table[m]
           f == flags[m]
           b == buffers[m]
           c == call[m]
<1>1. /\ MountOK(t, f, b, c) /\ Shaped(t, f, b, c) /\ c \in CallType /\ c.at = "open.load"
      /\ c.name \in Names /\ c.h \in Handles /\ t[c.h] = c.name /\ f[c.h] = "none"
  BY MountOf, OpeningFile DEF openLoad, MountOK, Opening
<1>2. ASSUME NEW i \in Ids, call' = [call EXCEPT ![m].at = "open.chunks", ![m].id = i],
             UNCHANGED local
      PROVE  MountsOK'
  <2> DEFINE c2 == [c EXCEPT !.at = "open.chunks", !.id = i]
  <2>1. Becomes(m, t, f, b, c2)
    BY <1>2 DEF local, Becomes, MountsOK
  <2>2. /\ c2 \in CallType /\ c2.at = "open.chunks" /\ c2.name = c.name /\ c2.h = c.h
        /\ c2.for = c.for /\ c2.id = i
    BY <1>1 DEF CallType, Opening
  <2> HIDE DEF c2
  <2>3. InHandler(t, f, b, c2)
    BY <1>1, <2>2 DEF MountOK, InHandler, Opening, Flushing, Creating
  <2>4. Owned(t, f, b, c2)
    BY <1>1, <2>2 DEF MountOK, Owned, Flushing
  <2>5. MountOK(t, f, b, c2)
    BY <1>1, <2>2, <2>3, <2>4 DEF MountOK, Shaped
  <2> QED
    BY <2>1, <2>5, BecomesOK
<1>3. CASE /\ buffers' = [buffers EXCEPT ![m][c.name] = NoBuffer]
           /\ Return(m) /\ UNCHANGED <<table, flags>>
  <2> DEFINE b2 == [b EXCEPT ![c.name] = NoBuffer]
  <2>1. Becomes(m, t, f, b2, Idle)
    BY <1>3 DEF Return, Becomes, MountsOK
  <2>2. /\ Shaped(t, f, b2, Idle) /\ ~b2[c.name].there
        /\ \A k \in Names \ {c.name} : b2[k] = b[k]
    BY <1>1, IdleIsCall, NoBufferFields DEF Shaped
  <2> HIDE DEF b2
  <2>3. MountOK(t, f, b2, Idle)
    BY <1>1, <2>2, Drops
  <2> QED
    BY <2>1, <2>3, BecomesOK
<1> QED
  BY <1>2, <1>3 DEF openLoad, Named, local

LEMMA openChunksOK ==
  ASSUME MountsOK, DocsOK, NEW m \in Mounts, openChunks(m)
  PROVE  MountsOK'
<1> DEFINE t == table[m]
           f == flags[m]
           b == buffers[m]
           c == call[m]
<1>1. /\ MountOK(t, f, b, c) /\ Shaped(t, f, b, c) /\ c \in CallType /\ c.at = "open.chunks"
      /\ c.name \in Names /\ c.h \in Handles /\ t[c.h] = c.name /\ f[c.h] = "none"
      /\ b[c.name] \in File /\ c.id \in Ids
  BY MountOf, OpeningFile DEF openChunks, MountOK, Opening, InHandler
<1>2. CASE /\ buffers' = [buffers EXCEPT ![m][c.name].data = docs[c.id].data]
           /\ flags' = [flags EXCEPT ![m][c.h] = "rw"]
           /\ Return(m) /\ UNCHANGED table
  <2> DEFINE x == [b[c.name] EXCEPT !.data = docs[c.id].data]
             b2 == [b EXCEPT ![c.name] = x]
             f2 == [f EXCEPT ![c.h] = "rw"]
  <2>1. Becomes(m, t, f2, b2, Idle)
    BY <1>2 DEF Return, Becomes, MountsOK
  <2>2. x \in File
    <3>1. docs[c.id].data \in Content
      BY <1>1 DEF DocsOK, DocType, NoDoc, Content
    <3> QED
      BY <1>1, <3>1, FileChanges
  <2> HIDE DEF x
  <2>3. /\ Shaped(t, f2, b2, Idle) /\ f2[c.h] = "rw"
        /\ \A g \in Handles \ {c.h} : f2[g] = f[g]
        /\ \A k \in Names \ {c.name} : b2[k] = b[k]
    BY <1>1, <2>2, IdleIsCall DEF Shaped
  <2> HIDE DEF b2, f2
  <2>4. MountOK(t, f2, b2, Idle)
    BY <1>1, <2>3, Opens
  <2> QED
    BY <2>1, <2>4, BecomesOK
<1>3. CASE /\ buffers' = [buffers EXCEPT ![m][c.name].data = Garbage, ![m][c.name].dirty = TRUE]
           /\ call' = [call EXCEPT ![m] = Call("flush.find", "open", c.name, c.h, 0, 2)]
           /\ UNCHANGED <<table, flags>>
  <2> DEFINE x == [b[c.name] EXCEPT !.data = Garbage, !.dirty = TRUE]
             b2 == [b EXCEPT ![c.name] = x]
             c2 == Call("flush.find", "open", c.name, c.h, 0, 2)
  <2>1. Becomes(m, t, f, b2, c2)
    BY <1>1, <1>3 DEF Becomes, MountsOK, Shaped
  <2>2. x \in File /\ x.there /\ x.dirty
    <3>1. x \in File
      BY <1>1, FileChanges DEF Content
    <3>2. x.dirty = TRUE
      BY <1>1 DEF File
    <3>3. x.there = TRUE
      BY <3>1 DEF File
    <3> HIDE DEF x
    <3> QED
      BY <3>1, <3>2, <3>3, Zenon
  <2> HIDE DEF x
  <2>3. /\ b2 \in [Names -> File \cup {NoBuffer}] /\ b2[c.name] = x
        /\ \A k \in Names \ {c.name} : b2[k] = b[k]
    BY <1>1, <2>2 DEF Shaped
  <2>4. /\ c2 \in CallType /\ c2.at = "flush.find" /\ c2.name = c.name /\ c2.h = c.h
        /\ c2.for = "open" /\ c2.tries = 2
    BY <1>1 DEF CallType, Call, Flushing
  <2> HIDE DEF b2, c2
  <2>5. InHandler(t, f, b2, c2)
    BY <1>1, <2>2, <2>3, <2>4 DEF InHandler, Opening, Flushing, Creating
  <2>6. Owned(t, f, b2, c2)
    BY <1>1, <2>3, <2>4 DEF MountOK, Owned, Flushing
  <2>7. MountOK(t, f, b2, c2)
    BY <1>1, <2>3, <2>4, <2>5, <2>6 DEF MountOK, Shaped
  <2> QED
    BY <2>1, <2>7, BecomesOK
<1> QED
  BY <1>2, <1>3 DEF openChunks

(* A quiet mount starts a handler that creates or flushes a file. *)
LEMMA Starts ==
  ASSUME MountsOK, NEW m \in Mounts, Quiet(m), UNCHANGED local,
         NEW c2 \in CallType, call' = [call EXCEPT ![m] = c2],
         InHandler(table[m], flags[m], buffers[m], c2)
  PROVE  MountsOK'
<1>1. MountOK(table[m], flags[m], buffers[m], Idle)
  BY QuietMount
<1>2. Owned(table[m], flags[m], buffers[m], c2)
  <2>1. Idle.at = "idle"
    BY DEF Idle
  <2> QED
    BY <1>1, <2>1 DEF MountOK, Owned, Flushing
<1>3. Becomes(m, table[m], flags[m], buffers[m], c2)
  BY DEF local, Becomes, MountsOK
<1>4. MountOK(table[m], flags[m], buffers[m], c2)
  BY <1>1, <1>2 DEF MountOK, Shaped
<1> QED
  BY <1>3, <1>4, BecomesOK

LEMMA createOK ==
  ASSUME MountsOK, NEW m \in Mounts, NEW n \in Names, NEW v \in Attrs, create(m, n, v)
  PROVE  MountsOK'
<1> DEFINE c2 == [Call("create.store", "rw", n, 0, 0, 0) EXCEPT !.meta = v]
<1>1. /\ c2 \in CallType /\ c2.at = "create.store" /\ c2.name = n /\ c2.meta = v
  BY DEF CallType, Call, Creating
<1>2. call' = [call EXCEPT ![m] = c2]
  BY DEF create
<1> HIDE DEF c2
<1>3. InHandler(table[m], flags[m], buffers[m], c2)
  BY <1>1 DEF InHandler, Opening, Flushing, Creating
<1> QED
  BY <1>1, <1>2, <1>3, Starts DEF create, local

LEMMA flushOK ==
  ASSUME MountsOK, NEW m \in Mounts, NEW h \in Handles, flush(m, h)
  PROVE  MountsOK'
<1> DEFINE n == table[m][h]
           c2 == Call("flush.find", "flush", n, h, 0, 1)
<1>1. n \in Names
  BY MountOf DEF flush, Handle!Unused
<1>2. /\ c2 \in CallType /\ c2.at = "flush.find" /\ c2.for = "flush" /\ c2.name = n
  BY <1>1 DEF CallType, Call, Flushing
<1>3. call' = [call EXCEPT ![m] = c2] /\ buffers[m][n].there /\ buffers[m][n].dirty
  BY DEF flush
<1> HIDE DEF c2
<1>4. InHandler(table[m], flags[m], buffers[m], c2)
  BY <1>1, <1>2, <1>3 DEF InHandler, Opening, Flushing, Creating
<1> QED
  BY <1>2, <1>3, <1>4, Starts DEF flush, local

LEMMA releaseOK ==
  ASSUME MountsOK, NEW m \in Mounts, NEW h \in Handles, release(m, h)
  PROVE  MountsOK'
<1> DEFINE t == table[m]
           f == flags[m]
           b == buffers[m]
           n == t[h]
<1>1. call[m] = Idle /\ MountOK(t, f, b, Idle) /\ Shaped(t, f, b, Idle)
  BY QuietMount DEF release, MountOK
<1>2. f[h] # "none" /\ n \in Names /\ n # NoName
  BY <1>1 DEF release, Open, MountOK, Owned, Shaped
<1>3. CASE b[n].there /\ b[n].dirty
  <2> DEFINE c2 == Call("flush.find", "release", n, h, 0, 3)
  <2>1. /\ c2 \in CallType /\ c2.at = "flush.find" /\ c2.for = "release" /\ c2.name = n
        /\ c2.h = h /\ c2.tries = 3
    BY <1>2 DEF CallType, Call, Flushing
  <2>2. call' = [call EXCEPT ![m] = c2] /\ UNCHANGED local
    BY <1>2, <1>3 DEF release, Handle!Unused
  <2> HIDE DEF c2
  <2>3. InHandler(t, f, b, c2)
    BY <1>2, <1>3, <2>1 DEF InHandler, Opening, Flushing, Creating
  <2> QED
    BY <2>1, <2>2, <2>3, Starts DEF release
<1>4. CASE ~(b[n].there /\ b[n].dirty)
  <2> DEFINE t2 == [t EXCEPT ![h] = NoName]
             f2 == [f EXCEPT ![h] = "none"]
             b2 == [b EXCEPT ![n] = NoBuffer]
  <2>1. Becomes(m, t2, f2, b2, Idle)
    BY <1>1, <1>2, <1>4 DEF release, Becomes, MountsOK, Handle!WithoutHandle, Handle!Unused
  <2>2. /\ Shaped(t2, f2, b2, Idle) /\ f2[h] = "none" /\ ~b2[n].there
        /\ \A g \in Handles \ {h} : t2[g] = t[g] /\ f2[g] = f[g]
        /\ \A k \in Names \ {n} : b2[k] = b[k]
    BY <1>1, <1>2, NoBufferFields DEF Shaped
  <2>3. Idle.at = "idle"
    BY DEF Idle
  <2> HIDE DEF t2, f2, b2
  <2>4. MountOK(t2, f2, b2, Idle)
    BY <1>1, <1>2, <2>2, <2>3, Drops DEF Flushing, Opening
  <2> QED
    BY <2>1, <2>4, BecomesOK
<1> QED
  BY <1>3, <1>4

LEMMA createStoreOK ==
  ASSUME MountsOK, NEW m \in Mounts, createStore(m)
  PROVE  MountsOK'
<1> DEFINE t == table[m]
           f == flags[m]
           b == buffers[m]
           c == call[m]
<1>1. MountOK(t, f, b, c) /\ c \in CallType /\ c.at = "create.store"
  BY MountOf DEF createStore
<1>2. CASE Return(m)
  <2>1. Becomes(m, t, f, b, Idle)
    BY <1>2 DEF createStore, local, Return, Becomes, MountsOK
  <2>2. InHandler(t, f, b, Idle)
    BY DEF InHandler, Idle, Flushing, Opening, Creating
  <2>3. MountOK(t, f, b, Idle)
    BY <1>1, <2>2, IdleIsCall DEF MountOK, Shaped, Owned, Flushing
  <2> QED
    BY <2>1, <2>3, BecomesOK
<1>3. ASSUME NEW i \in Ids, call' = [call EXCEPT ![m].at = "create.update", ![m].id = i]
      PROVE  MountsOK'
  <2> DEFINE c2 == [c EXCEPT !.at = "create.update", !.id = i]
  <2>1. Becomes(m, t, f, b, c2)
    BY <1>3 DEF createStore, local, Becomes, MountsOK
  <2>2. /\ c2 \in CallType /\ c2.at = "create.update" /\ c2.id = i /\ c2.name = c.name
        /\ c2.meta = c.meta
    BY <1>1 DEF CallType, Creating
  <2> HIDE DEF c2
  <2>3. MountOK(t, f, b, c2)
    BY <1>1, <2>2 DEF MountOK, Shaped, InHandler, Owned, Flushing, Opening, Creating
  <2> QED
    BY <2>1, <2>3, BecomesOK
<1> QED
  BY <1>2, <1>3 DEF createStore, Fresh

LEMMA createUpdateOK ==
  ASSUME MountsOK, NEW m \in Mounts, createUpdate(m)
  PROVE  MountsOK'
<1> DEFINE t == table[m]
           f == flags[m]
           b == buffers[m]
           c == call[m]
           n == c.name
<1>1. /\ MountOK(t, f, b, c) /\ Shaped(t, f, b, c) /\ c \in CallType /\ c.at = "create.update"
      /\ n \in Names
  BY MountOf DEF createUpdate, MountOK
<1>2. CASE UNCHANGED local
  <2>1. Becomes(m, t, f, b, Idle)
    BY <1>2 DEF createUpdate, local, Return, Becomes, MountsOK
  <2>2. InHandler(t, f, b, Idle)
    BY DEF InHandler, Idle, Flushing, Opening, Creating
  <2>3. MountOK(t, f, b, Idle)
    BY <1>1, <2>2, IdleIsCall DEF MountOK, Shaped, Owned, Flushing
  <2> QED
    BY <2>1, <2>3, BecomesOK
<1>3. ASSUME NEW h \in Handles, Handle!Unused(t, h),
             table' = [table EXCEPT ![m] = Handle!WithHandle(@, h, n)],
             flags' = [flags EXCEPT ![m][h] = "rw"],
             buffers' = [buffers EXCEPT ![m][n].there = TRUE]
      PROVE  MountsOK'
  <2> DEFINE x == [b[n] EXCEPT !.there = TRUE]
             t2 == [t EXCEPT ![h] = n]
             f2 == [f EXCEPT ![h] = "rw"]
             b2 == [b EXCEPT ![n] = x]
  <2>1. Becomes(m, t2, f2, b2, Idle)
    BY <1>3 DEF createUpdate, Return, Becomes, MountsOK, Handle!WithHandle
  <2>2. x \in File
    <3>1. \A y \in [data : Content, dirty : BOOLEAN, there : BOOLEAN] : [y EXCEPT !.there = TRUE] \in File
      BY DEF File
    <3>2. b[n] \in [data : Content, dirty : BOOLEAN, there : BOOLEAN]
      <4>1. NoBuffer \in [data : Content, dirty : BOOLEAN, there : BOOLEAN]
        BY DEF NoBuffer, Content
      <4>2. \A y \in File : y \in [data : Content, dirty : BOOLEAN, there : BOOLEAN]
        BY DEF File
      <4>3. b[n] \in File \cup {NoBuffer}
        BY <1>1 DEF Shaped
      <4> QED
        BY <4>1, <4>2, <4>3
    <3> QED
      BY <3>1, <3>2
  <2> HIDE DEF x
  <2>3. /\ Shaped(t2, f2, b2, Idle) /\ t2[h] = n /\ f2[h] = "rw"
        /\ \A g \in Handles \ {h} : t2[g] = t[g] /\ f2[g] = f[g]
        /\ \A k \in Names \ {n} : b2[k] = b[k]
    BY <1>1, <2>2, IdleIsCall DEF Shaped
  <2>4. t[h] = NoName /\ f[h] = "none"
    BY <1>1, <1>3 DEF MountOK, Owned, Handle!Unused
  <2> HIDE DEF t2, f2, b2, n
  <2>5. MountOK(t2, f2, b2, Idle)
    BY <1>1, <2>3, <2>4, Opens
  <2> QED
    BY <2>1, <2>5, BecomesOK
<1> QED
  BY <1>2, <1>3 DEF createUpdate

(* A write or a truncation of a file in memory. *)
LEMMA ChangesFile ==
  ASSUME MountsOK, NEW m \in Mounts, Quiet(m), NEW n \in Names, buffers[m][n].there,
         NEW d \in Content,
         buffers' = [buffers EXCEPT ![m][n].data = d, ![m][n].dirty = TRUE],
         UNCHANGED <<table, flags, call>>
  PROVE  MountsOK'
<1> DEFINE b == buffers[m]
           x == [b[n] EXCEPT !.data = d, !.dirty = TRUE]
<1>1. call[m] = Idle /\ MountOK(table[m], flags[m], b, Idle) /\ b \in [Names -> File \cup {NoBuffer}]
  BY QuietMount, MountOf
<1>2. x \in File
  BY <1>1, ThereIsFile, FileChanges
<1>3. Becomes(m, table[m], flags[m], [b EXCEPT ![n] = x], Idle)
  BY <1>1 DEF Becomes, MountsOK
<1> HIDE DEF x
<1>4. Idle.at = "idle"
  BY DEF Idle
<1>5. MountOK(table[m], flags[m], [b EXCEPT ![n] = x], Idle)
  BY <1>1, <1>2, <1>4, ReturnsWith DEF Flushing
<1> QED
  BY <1>3, <1>5, BecomesOK

LEMMA writeOK ==
  ASSUME MountsOK, NEW m \in Mounts, NEW h \in Handles, NEW d \in Data, write(m, h, d)
  PROVE  MountsOK'
<1>1. table[m][h] \in Names
  BY MountOf DEF write, Handle!Unused
<1>2. d \in Content
  BY DEF Content
<1> QED
  BY <1>1, <1>2, ChangesFile DEF write

LEMMA truncateOK ==
  ASSUME MountsOK, NEW m \in Mounts, NEW n \in Names, truncate(m, n)
  PROVE  MountsOK'
<1>1. Empty \in Content
  BY DEF Content
<1> QED
  BY <1>1, ChangesFile DEF truncate

LEMMA crashOK ==
  ASSUME MountsOK, NEW m \in Mounts, crash(m)
  PROVE  MountsOK'
<1> DEFINE t == [h \in Handles |-> NoName]
           f == [h \in Handles |-> "none"]
           b == [n \in Names |-> NoBuffer]
<1>1. Becomes(m, t, f, b, Idle)
  BY DEF crash, Return, Becomes
<1>2. MountOK(t, f, b, Idle)
  <2>1. Shaped(t, f, b, Idle)
    BY IdleIsCall DEF Shaped
  <2>2. InHandler(t, f, b, Idle)
    BY DEF InHandler, Idle, Flushing, Opening, Creating
  <2>3. Owned(t, f, b, Idle)
    BY NoBufferFields DEF Owned
  <2> QED
    BY <2>1, <2>2, <2>3 DEF MountOK
<1> QED
  BY <1>1, <1>2, BecomesOK

LEMMA handlerOK ==
  ASSUME MountsOK, DocsOK, NEW m \in Mounts, handler(m)
  PROVE  MountsOK'
BY flushFindOK, flushRemoveOK, flushStoreOK, flushUpdateOK, openFindOK, openLoadOK, openChunksOK,
   createStoreOK, createUpdateOK DEF handler

LEMMA requestOK ==
  ASSUME MountsOK, NEW m \in Mounts, request(m)
  PROVE  MountsOK'
<1>1. ASSUME NEW n \in Names, NEW wr \in {"ro", "rw"}, NEW h \in Handles, open(m, n, wr, h)
      PROVE  MountsOK'
  BY <1>1, openOK
<1>2. ASSUME NEW n \in Names, truncate(m, n)
      PROVE  MountsOK'
  BY <1>2, truncateOK
<1>3. ASSUME NEW n \in Names, NEW v \in Attrs, create(m, n, v)
      PROVE  MountsOK'
  BY <1>3, createOK
<1>4. ASSUME NEW h \in Handles, flush(m, h) \/ fsync(m, h) \/ release(m, h)
      PROVE  MountsOK'
  BY <1>4, flushOK, releaseOK DEF fsync
<1>5. ASSUME NEW h \in Handles, NEW d \in Data, write(m, h, d)
      PROVE  MountsOK'
  BY <1>5, writeOK
<1>6. ASSUME NEW h \in Handles, ftruncate(m, h) \/ fallocate(m, h)
      PROVE  MountsOK'
  <2>1. ~Handle!Unused(table[m], h) /\ table[m][h] \in Names
    BY <1>6, MountOf DEF ftruncate, fallocate, Handle!Unused
  <2> QED
    BY <1>6, <2>1, truncateOK, writeOK DEF ftruncate, fallocate
<1>7. CASE \/ \E n \in Names : unlink(m, n)
           \/ \E n \in Names, v \in Attrs : chmod(m, n, v) \/ chown(m, n, v)
           \/ \E n, to \in Names : rename(m, n, to)
  <2>1. UNCHANGED <<table, flags, buffers, call>>
    BY <1>7 DEF unlink, chmod, chown, rename
  <2> QED
    BY <2>1 DEF MountsOK
<1> QED
  BY <1>1, <1>2, <1>3, <1>4, <1>5, <1>6, <1>7 DEF request

----------------------------------------------------------------------------
(* Documents that are not there have no name users know, and no metadata. *)
LEMMA NoDocFields ==
  /\ NoDoc.filename = NoName /\ NoDoc.meta = NoMeta
  /\ \A n \in Names : n # NoName
  /\ NoDoc.filename \notin Names
BY MGridFSAssumption DEF NoDoc

LEMMA DocIsThere ==
  ASSUME DocsOK, NEW i \in Ids
  PROVE  /\ docs[i] \in DocType
         /\ docs[i] # NoDoc => /\ docs[i].filename \in Names
                               /\ docs[i] \in [filename : Names, data : Content,
                                               meta : Attrs \cup {NoMeta}]
         /\ docs[i].filename \in Names => docs[i] # NoDoc
         /\ docs[i].meta \in Attrs \cup {NoMeta}
         /\ docs[i].data \in Content
BY NoDocFields DEF DocsOK, DocType, NoDoc, Content

(* What each call of the database does to the documents. *)
LEMMA StoredDocs ==
  ASSUME DocsOK, NEW i \in Ids, NEW n \in Names, NEW d \in Content, Stored(i, n, d)
  PROVE  /\ docs' \in [Ids -> DocType]
         /\ docs'[i] # NoDoc /\ docs'[i].filename = n /\ docs'[i].meta = NoMeta
         /\ docs'[i].data = d
         /\ \A j \in Ids \ {i} : docs'[j] = docs[j]
<1> DEFINE x == [filename |-> n, data |-> d, meta |-> NoMeta]
<1>1. x \in DocType /\ x.filename = n /\ x.meta = NoMeta /\ x.data = d
  BY DEF DocType
<1>2. x # NoDoc
  BY <1>1, NoDocFields
<1>3. docs' = [docs EXCEPT ![i] = x]
  BY DEF Stored
<1> HIDE DEF x
<1> QED
  BY <1>1, <1>2, <1>3 DEF DocsOK

LEMMA UpdatedDocs ==
  ASSUME DocsOK, NEW i \in Ids, NEW v \in Attrs, Updated(i, v)
  PROVE  /\ docs' \in [Ids -> DocType]
         /\ \A j \in Ids : docs'[j].filename = docs[j].filename /\ docs'[j].data = docs[j].data
         /\ \A j \in Ids : (docs'[j] = NoDoc) <=> (docs[j] = NoDoc)
         /\ docs[i] # NoDoc => docs'[i].meta = v
         /\ \A j \in Ids \ {i} : docs'[j] = docs[j]
<1>1. CASE docs[i] = NoDoc
  BY <1>1 DEF Updated, DocsOK
<1>2. CASE docs[i] # NoDoc
  <2> DEFINE x == [docs[i] EXCEPT !.meta = v]
  <2>1. /\ x \in DocType /\ x.filename = docs[i].filename /\ x.meta = v /\ x.data = docs[i].data
        /\ x.filename \in Names
    BY <1>2, DocIsThere DEF DocType
  <2>2. x # NoDoc
    BY <2>1, NoDocFields
  <2>3. docs' = [docs EXCEPT ![i] = x]
    BY <1>2 DEF Updated
  <2> HIDE DEF x
  <2> QED
    BY <1>2, <2>1, <2>2, <2>3 DEF DocsOK
<1> QED
  BY <1>1, <1>2

LEMMA RemovedDocs ==
  ASSUME DocsOK, NEW n \in Names, Removed(n)
  PROVE  /\ docs' \in [Ids -> DocType]
         /\ \A j \in Ids : docs[j].filename = n => docs'[j] = NoDoc
         /\ \A j \in Ids : docs[j].filename # n => docs'[j] = docs[j]
BY DEF DocsOK, Removed, DocType

LEMMA RenamedDocs ==
  ASSUME DocsOK, NEW i \in Ids, NEW to \in Names, docs[i] # NoDoc,
         docs' = [docs EXCEPT ![i].filename = to]
  PROVE  /\ docs' \in [Ids -> DocType]
         /\ docs'[i] # NoDoc /\ docs'[i].filename = to
         /\ docs'[i].meta = docs[i].meta /\ docs'[i].data = docs[i].data
         /\ \A j \in Ids \ {i} : docs'[j] = docs[j]
<1> DEFINE x == [docs[i] EXCEPT !.filename = to]
<1>1. x \in DocType /\ x.filename = to /\ x.meta = docs[i].meta /\ x.data = docs[i].data
  BY DocIsThere DEF DocType
<1>2. x # NoDoc
  BY <1>1, NoDocFields
<1>3. docs' = [docs EXCEPT ![i] = x]
  OBVIOUS
<1> HIDE DEF x
<1> QED
  BY <1>1, <1>2, <1>3 DEF DocsOK

LEMMA ChmodDocs ==
  ASSUME DocsOK, NEW i \in Ids, NEW v \in Attrs, docs[i] # NoDoc,
         docs' = IF docs[i].meta = NoMeta THEN docs ELSE [docs EXCEPT ![i].meta = v]
  PROVE  /\ docs' \in [Ids -> DocType]
         /\ \A j \in Ids : docs'[j].filename = docs[j].filename /\ docs'[j].data = docs[j].data
         /\ \A j \in Ids : (docs'[j] = NoDoc) <=> (docs[j] = NoDoc)
         /\ docs'[i].meta \in {NoMeta, v}
         /\ docs'[i].meta = NoMeta <=> docs[i].meta = NoMeta
         /\ \A j \in Ids \ {i} : docs'[j] = docs[j]
<1>1. CASE docs[i].meta = NoMeta
  BY <1>1 DEF DocsOK
<1>2. CASE docs[i].meta # NoMeta
  <2>1. docs' = [docs EXCEPT ![i].meta = v]
    BY <1>2
  <2>2. Updated(i, v)
    BY <2>1 DEF Updated
  <2>3. docs'[i].meta = v /\ v # NoMeta
    BY <2>2, UpdatedDocs, MGridFSAssumption
  <2> QED
    BY <1>2, <2>2, <2>3, UpdatedDocs
<1> QED
  BY <1>1, <1>2

----------------------------------------------------------------------------
(* A step changes the given owner and mode of a name only together with a   *)
(* document of that name: what a race for it would be noticed by.           *)
GivenFollows ==
  \A n \in Names : given'[n] # given[n] =>
    \E i \in Ids : docs'[i] # docs[i] /\ n \in {docs[i].filename, docs'[i].filename}

DocsKept ==
  /\ docs' \in [Ids -> DocType]
  /\ given' \in [Names -> Attrs \cup {NoMeta}]
  /\ GivenFollows

LEMMA NothingKeeps ==
  ASSUME DocsOK, UNCHANGED <<docs, given>>
  PROVE  DocsKept /\ (Unique => Unique') /\ (GivenMeta => GivenMeta')
BY DEF DocsKept, GivenFollows, DocsOK, Unique, GivenMeta

LEMMA RemovedKeeps ==
  ASSUME DocsOK, NEW n \in Names, Removed(n),
         given' = given \/ (given' = [given EXCEPT ![n] = NoMeta] /\ Named(n) # {})
  PROVE  DocsKept /\ (Unique => Unique') /\ (GivenMeta => GivenMeta')
<1>1. /\ docs' \in [Ids -> DocType]
      /\ \A j \in Ids : docs[j].filename = n => docs'[j] = NoDoc
      /\ \A j \in Ids : docs[j].filename # n => docs'[j] = docs[j]
  BY RemovedDocs
<1>2. given' \in [Names -> Attrs \cup {NoMeta}] /\ \A k \in Names \ {n} : given'[k] = given[k]
  BY DEF DocsOK
<1>3. GivenFollows
  <2> SUFFICES ASSUME NEW k \in Names, given'[k] # given[k]
               PROVE  \E i \in Ids : docs'[i] # docs[i] /\ k \in {docs[i].filename, docs'[i].filename}
    BY DEF GivenFollows
  <2>1. k = n /\ Named(n) # {}
    BY <1>2
  <2>2. PICK i \in Ids : docs[i].filename = n
    BY <2>1 DEF Named
  <2> QED
    BY <1>1, <2>1, <2>2, DocIsThere
<1>4. ASSUME Unique
      PROVE  Unique'
  <2> SUFFICES ASSUME NEW i \in Ids, NEW j \in Ids, docs'[i] # NoDoc,
                      docs'[i].filename = docs'[j].filename
               PROVE  i = j
    BY DEF Unique
  <2>1. docs'[i] = docs[i] /\ docs[i] # NoDoc
    BY <1>1
  <2>2. docs[i].filename # NoDoc.filename
    BY <2>1, DocIsThere, NoDocFields
  <2>3. docs'[j] = docs[j]
    BY <1>1, <2>1, <2>2
  <2> QED
    BY <1>4, <2>1, <2>3 DEF Unique
<1>5. GivenMeta => GivenMeta'
  <2> SUFFICES ASSUME GivenMeta, NEW i \in Ids, docs'[i].meta # NoMeta
               PROVE  docs'[i].meta = given'[docs'[i].filename]
    BY DEF GivenMeta
  <2>1. docs[i].filename # n /\ docs'[i] = docs[i]
    BY <1>1, NoDocFields
  <2>2. docs[i].filename \in Names
    BY <2>1, DocIsThere, NoDocFields
  <2> QED
    BY <1>2, <2>1, <2>2 DEF GivenMeta
<1> QED
  BY <1>1, <1>2, <1>3, <1>4, <1>5 DEF DocsKept

LEMMA StoredKeeps ==
  ASSUME DocsOK, NEW i \in Fresh, NEW n \in Names, NEW d \in Content, Stored(i, n, d),
         NEW v \in Attrs \cup {NoMeta}, given' \in {given, [given EXCEPT ![n] = v]}
  PROVE  DocsKept /\ (Unique /\ Named(n) = {} => Unique')
                  /\ (GivenMeta /\ Named(n) = {} => GivenMeta')
<1>1. /\ docs' \in [Ids -> DocType]
      /\ docs'[i] # NoDoc /\ docs'[i].filename = n /\ docs'[i].meta = NoMeta
      /\ \A j \in Ids \ {i} : docs'[j] = docs[j]
      /\ i \in Ids /\ docs[i] = NoDoc
  BY StoredDocs DEF Fresh
<1>2. given' \in [Names -> Attrs \cup {NoMeta}] /\ \A k \in Names \ {n} : given'[k] = given[k]
  BY DEF DocsOK
<1>3. GivenFollows
  BY <1>1, <1>2 DEF GivenFollows
<1>4. Unique /\ Named(n) = {} => Unique'
  BY <1>1, NoDocFields DEF Unique, Named
<1>5. ASSUME GivenMeta, Named(n) = {}
      PROVE  GivenMeta'
  <2> SUFFICES ASSUME NEW j \in Ids, docs'[j].meta # NoMeta
               PROVE  docs'[j].meta = given'[docs'[j].filename]
    BY DEF GivenMeta
  <2>1. j # i /\ docs'[j] = docs[j]
    BY <1>1
  <2>2. docs[j].filename \in Names /\ docs[j].filename # n
    BY <1>5, <2>1, DocIsThere, NoDocFields DEF Named
  <2> QED
    BY <1>2, <1>5, <2>1, <2>2 DEF GivenMeta
<1> QED
  BY <1>1, <1>2, <1>3, <1>4, <1>5 DEF DocsKept

LEMMA UpdatedKeeps ==
  ASSUME DocsOK, NEW i \in Ids, NEW v \in Attrs, Updated(i, v), given' = given
  PROVE  DocsKept /\ (Unique => Unique')
                  /\ (GivenMeta /\ v = given[docs[i].filename] => GivenMeta')
<1>1. /\ docs' \in [Ids -> DocType]
      /\ \A j \in Ids : docs'[j].filename = docs[j].filename /\ docs'[j].data = docs[j].data
      /\ \A j \in Ids : (docs'[j] = NoDoc) <=> (docs[j] = NoDoc)
      /\ docs[i] # NoDoc => docs'[i].meta = v
      /\ \A j \in Ids \ {i} : docs'[j] = docs[j]
  BY UpdatedDocs
<1>2. GivenMeta /\ v = given[docs[i].filename] => GivenMeta'
  BY <1>1, NoDocFields DEF GivenMeta
<1> QED
  BY <1>1, <1>2 DEF DocsKept, GivenFollows, DocsOK, Unique

LEMMA RenamedKeeps ==
  ASSUME DocsOK, NEW n \in Names, NEW i \in Named(n), NEW to \in Names, n # to,
         docs' = [docs EXCEPT ![i].filename = to],
         given' = [given EXCEPT ![n] = NoMeta, ![to] = given[n]]
  PROVE  DocsKept /\ (Named(to) = {} <=> ~Onto)
         /\ (Unique /\ ~Onto => Unique') /\ (Unique /\ GivenMeta /\ ~Onto => GivenMeta')
<1>1. i \in Ids /\ docs[i].filename = n /\ docs[i] # NoDoc
  BY DocIsThere DEF Named
<1>2. /\ docs' \in [Ids -> DocType]
      /\ docs'[i] # NoDoc /\ docs'[i].filename = to /\ docs'[i].meta = docs[i].meta
      /\ \A j \in Ids \ {i} : docs'[j] = docs[j]
  BY <1>1, RenamedDocs
<1>3. /\ given' \in [Names -> Attrs \cup {NoMeta}]
      /\ given'[to] = given[n]
      /\ \A k \in Names \ {n, to} : given'[k] = given[k]
  BY <1>1 DEF DocsOK
<1>4. GivenFollows
  BY <1>1, <1>2, <1>3 DEF GivenFollows
<1>0. Named(to) = {} <=> ~Onto
  BY <1>1, <1>2 DEF Onto
<1>5. ASSUME Unique, ~Onto
      PROVE  Unique'
  <2>1. \A j \in Ids \ {i} : docs'[j].filename # to
    BY <1>0, <1>2, <1>5 DEF Named
  <2> SUFFICES ASSUME NEW j \in Ids, NEW k \in Ids, docs'[j] # NoDoc,
                      docs'[j].filename = docs'[k].filename
               PROVE  j = k
    BY DEF Unique
  <2>2. CASE j = i \/ k = i
    BY <2>1, <2>2, <1>2
  <2>3. CASE j # i /\ k # i
    BY <2>3, <1>2, <1>5 DEF Unique
  <2> QED
    BY <2>2, <2>3
<1>6. ASSUME Unique, GivenMeta, ~Onto
      PROVE  GivenMeta'
  <2> SUFFICES ASSUME NEW j \in Ids, docs'[j].meta # NoMeta
               PROVE  docs'[j].meta = given'[docs'[j].filename]
    BY DEF GivenMeta
  <2>1. CASE j = i
    BY <2>1, <1>1, <1>2, <1>3, <1>6 DEF GivenMeta
  <2>2. CASE j # i
    <3>1. docs'[j] = docs[j] /\ docs[j].filename \in Names /\ docs[j].filename \notin {n, to}
      BY <2>2, <1>0, <1>1, <1>2, <1>6, DocIsThere, NoDocFields DEF Named, Unique
    <3> QED
      BY <3>1, <1>3, <1>6 DEF GivenMeta
  <2> QED
    BY <2>1, <2>2
<1> QED
  BY <1>0, <1>2, <1>3, <1>4, <1>5, <1>6 DEF DocsKept

LEMMA ChmodKeeps ==
  ASSUME DocsOK, NEW n \in Names, NEW i \in Named(n), NEW v \in Attrs, docs' # docs,
         docs' = IF docs[i].meta = NoMeta THEN docs ELSE [docs EXCEPT ![i].meta = v],
         given' = [given EXCEPT ![n] = v]
  PROVE  DocsKept /\ (Unique => Unique') /\ (Unique /\ GivenMeta => GivenMeta')
<1>1. i \in Ids /\ docs[i].filename = n /\ docs[i] # NoDoc
  BY DocIsThere DEF Named
<1>2. /\ docs' \in [Ids -> DocType]
      /\ \A j \in Ids : docs'[j].filename = docs[j].filename
      /\ \A j \in Ids : (docs'[j] = NoDoc) <=> (docs[j] = NoDoc)
      /\ docs'[i].meta \in {NoMeta, v}
      /\ \A j \in Ids \ {i} : docs'[j] = docs[j]
  BY <1>1, ChmodDocs
<1>3. /\ given' \in [Names -> Attrs \cup {NoMeta}]
      /\ given'[n] = v
      /\ \A k \in Names \ {n} : given'[k] = given[k]
  BY DEF DocsOK
<1>4. docs'[i] # docs[i]
  BY <1>1, <1>2 DEF DocsOK
<1>5. GivenFollows
  BY <1>1, <1>3, <1>4 DEF GivenFollows
<1>6. Unique => Unique'
  BY <1>2 DEF Unique
<1>7. ASSUME Unique, GivenMeta
      PROVE  GivenMeta'
  <2> SUFFICES ASSUME NEW j \in Ids, docs'[j].meta # NoMeta
               PROVE  docs'[j].meta = given'[docs'[j].filename]
    BY DEF GivenMeta
  <2>1. CASE j = i
    BY <2>1, <1>1, <1>2, <1>3
  <2>2. CASE j # i
    <3>1. docs'[j] = docs[j] /\ docs[j].filename \in Names /\ docs[j].filename # n
      BY <2>2, <1>1, <1>2, <1>7, DocIsThere, NoDocFields DEF Unique
    <3> QED
      BY <3>1, <1>3, <1>7 DEF GivenMeta
  <2> QED
    BY <2>1, <2>2
<1> QED
  BY <1>2, <1>3, <1>5, <1>6, <1>7 DEF DocsKept

----------------------------------------------------------------------------
(* What a step of mount m does to the documents and to the other mounts,    *)
(* and what it keeps of Kept and Surviving as far as they are about m.      *)
KeptByStep(m) ==
  (Unique /\ GivenMeta /\ KeptBy(call[m]) /\ ~Onto) => (Unique' /\ GivenMeta' /\ KeptBy(call[m])')

MissingByStep(m) ==
  \A n \in Names : Missing(n)' => \/ Storing(m, n)'
                                  \/ Missing(n) /\ ~Storing(m, n)

StepOK(m) ==
  /\ DocsKept
  /\ faults' \in 0..MaxFaults /\ faults' >= faults
  /\ \A k \in Mounts \ {m} : call'[k] = call[k]
  /\ KeptByStep(m)
  /\ faults' = 0 => MissingByStep(m)

LEMMA FaultCounts ==
  ASSUME DocsOK, Fault \/ NoFault
  PROVE  faults' \in 0..MaxFaults /\ faults' >= faults /\ (Fault => faults' # 0)
BY MGridFSAssumption DEF DocsOK, Fault, NoFault

(* A handler that has nothing left to remember of the documents. *)
LEMMA Forgets ==
  ASSUME NEW m, call'[m].at \in {"idle", "flush.find", "open.find", "open.load", "open.chunks"}
  PROVE  KeptBy(call[m])'
BY DEF KeptBy

LEMMA CallOfOne ==
  ASSUME MountsOK, NEW m \in Mounts, NEW c, call' = [call EXCEPT ![m] = c]
  PROVE  call'[m] = c /\ \A k \in Mounts \ {m} : call'[k] = call[k]
BY DEF MountsOK

LEMMA FlushEndsCall ==
  ASSUME MountsOK, NEW m \in Mounts, NEW ok, FlushEnds(m, ok)
  PROVE  /\ call'[m].at \in {"idle", "flush.find"}
         /\ \A k \in Mounts \ {m} : call'[k] = call[k]
<1> DEFINE again == Call("flush.find", call[m].for, call[m].name, call[m].h, 0, call[m].tries - 1)
<1>1. call' = [call EXCEPT ![m] = Idle] \/ call' = [call EXCEPT ![m] = again]
  BY DEF FlushEnds, Return
<1>2. Idle.at = "idle" /\ again.at = "flush.find"
  BY DEF Idle, Call
<1> HIDE DEF again
<1> QED
  BY <1>1, <1>2, CallOfOne

(* The documents do not change, and m is not about to store. *)
LEMMA SameDocs ==
  ASSUME DocsOK, NEW m \in Mounts, UNCHANGED <<docs, given>>, Fault \/ NoFault,
         \A k \in Mounts \ {m} : call'[k] = call[k],
         KeptBy(call[m]) => KeptBy(call[m])',
         Fault \/ call[m].at # "flush.store"
  PROVE  StepOK(m)
<1>1. MissingByStep(m) \/ faults' # 0
  BY FaultCounts DEF MissingByStep, Missing, Storing, Named
<1>2. KeptByStep(m)
  BY NothingKeeps DEF KeptByStep
<1> QED
  BY <1>1, <1>2, NothingKeeps, FaultCounts DEF StepOK

LEMMA flushFindStep ==
  ASSUME MountsOK, DocsOK, NEW m \in Mounts, flushFind(m)
  PROVE  StepOK(m)
<1>1. CASE FlushEnds(m, FALSE)
  <2>1. call'[m].at \in {"idle", "flush.find"} /\ \A k \in Mounts \ {m} : call'[k] = call[k]
    BY <1>1, FlushEndsCall
  <2>2. KeptBy(call[m])'
    BY <2>1, Forgets
  <2>3. Fault \/ NoFault
    BY DEF flushFind
  <2>4. UNCHANGED <<docs, given>> /\ call[m].at # "flush.store"
    BY DEF flushFind
  <2> QED
    BY <2>1, <2>2, <2>3, <2>4, SameDocs
<1>2. ASSUME NEW i \in Named(call[m].name),
             call' = [call EXCEPT ![m].at = "flush.remove", ![m].meta = docs[i].meta]
      PROVE  StepOK(m)
  <2>1. call[m].name \in Names /\ call[m] \in CallType
    BY MountOf DEF flushFind
  <2>2. /\ call'[m].at = "flush.remove" /\ call'[m].meta = docs[i].meta
        /\ call'[m].name = call[m].name
        /\ \A k \in Mounts \ {m} : call'[k] = call[k]
    BY <1>2, <2>1 DEF MountsOK, CallType
  <2>3. GivenMeta => KeptBy(call[m])'
    BY <2>1, <2>2 DEF flushFind, GivenMeta, KeptBy, Named
  <2>4. KeptByStep(m)
    BY <2>3, NothingKeeps DEF KeptByStep, flushFind
  <2>5. MissingByStep(m)
    BY DEF flushFind, MissingByStep, Missing, Storing, Named
  <2> QED
    BY <2>2, <2>4, <2>5, NothingKeeps, FaultCounts DEF StepOK, flushFind
<1> QED
  BY <1>1, <1>2 DEF flushFind

LEMMA flushRemoveStep ==
  ASSUME MountsOK, DocsOK, NEW m \in Mounts, flushRemove(m)
  PROVE  StepOK(m)
<1> DEFINE n == call[m].name
<1>0. n \in Names /\ call[m] \in CallType
  BY MountOf DEF flushRemove
<1>1. CASE FlushEnds(m, FALSE) /\ Fault
  <2>1. call'[m].at \in {"idle", "flush.find"} /\ \A k \in Mounts \ {m} : call'[k] = call[k]
    BY <1>1, FlushEndsCall
  <2>2. KeptBy(call[m])'
    BY <2>1, Forgets
  <2>3. DocsKept /\ (Unique => Unique') /\ (GivenMeta => GivenMeta')
    <3>1. Removed(n) \/ UNCHANGED docs
      BY <1>1 DEF flushRemove, Perhaps
    <3> QED
      BY <1>0, <3>1, RemovedKeeps, NothingKeeps DEF flushRemove
  <2> QED
    BY <1>1, <2>1, <2>2, <2>3, FaultCounts DEF StepOK, KeptByStep
<1>2. CASE Removed(n) /\ Goto(m, "flush.store") /\ NoFault
  <2>1. /\ call'[m].at = "flush.store" /\ call'[m].meta = call[m].meta /\ call'[m].name = n
        /\ \A k \in Mounts \ {m} : call'[k] = call[k]
    BY <1>0, <1>2 DEF MountsOK, CallType, Goto
  <2>2. DocsKept /\ (Unique => Unique') /\ (GivenMeta => GivenMeta')
    BY <1>0, <1>2, RemovedKeeps DEF flushRemove
  <2>3. \A j \in Ids : docs'[j].filename # n
    BY <1>0, <1>2, RemovedDocs, NoDocFields
  <2>4. KeptBy(call[m]) => KeptBy(call[m])'
    BY <2>1, <2>3 DEF flushRemove, KeptBy, Named
  <2>5. MissingByStep(m)
    <3> SUFFICES ASSUME NEW k \in Names, k # n, Missing(k)'
                 PROVE  Missing(k)
      BY <2>1 DEF MissingByStep, Storing, flushRemove
    <3>1. \A j \in Ids : docs[j].filename = k => docs'[j].filename = k
      BY <1>0, <1>2, RemovedDocs
    <3> QED
      BY <3>1 DEF Missing, Named, flushRemove
  <2> QED
    BY <1>2, <2>1, <2>2, <2>4, <2>5, FaultCounts DEF StepOK, KeptByStep
<1> QED
  BY <1>1, <1>2 DEF flushRemove

LEMMA flushStoreStep ==
  ASSUME MountsOK, DocsOK, NEW m \in Mounts, flushStore(m)
  PROVE  StepOK(m)
<1> DEFINE n == call[m].name
           d == buffers[m][n].data
<1>0. n \in Names /\ call[m] \in CallType /\ d \in Content
  <2>1. buffers[m][n] \in File
    BY FlushingFile DEF flushStore, Flushing
  <2> QED
    BY <2>1, MountOf DEF flushStore, File
<1>1. PICK i \in Fresh :
        \/ /\ Stored(i, n, d)
           /\ call' = [call EXCEPT ![m].at = "flush.update", ![m].id = i]
           /\ NoFault
        \/ Perhaps(Stored(i, n, d)) /\ Fault /\ FlushEnds(m, FALSE)
  BY DEF flushStore
<1> HIDE DEF d
<1>2. Stored(i, n, d) => DocsKept /\ (Unique /\ Named(n) = {} => Unique')
                                  /\ (GivenMeta /\ Named(n) = {} => GivenMeta')
  BY <1>0, StoredKeeps DEF flushStore
<1>3. KeptBy(call[m]) => Named(n) = {}
  BY DEF KeptBy, flushStore
<1>4. CASE Perhaps(Stored(i, n, d)) /\ Fault /\ FlushEnds(m, FALSE)
  <2>1. call'[m].at \in {"idle", "flush.find"} /\ \A k \in Mounts \ {m} : call'[k] = call[k]
    BY <1>4, FlushEndsCall
  <2>2. KeptBy(call[m])'
    BY <2>1, Forgets
  <2>3. DocsKept /\ (Unique /\ Named(n) = {} => Unique')
                 /\ (GivenMeta /\ Named(n) = {} => GivenMeta')
    BY <1>2, <1>4, NothingKeeps DEF Perhaps, flushStore
  <2> QED
    BY <1>3, <1>4, <2>1, <2>2, <2>3, FaultCounts DEF StepOK, KeptByStep
<1>5. CASE /\ Stored(i, n, d)
           /\ call' = [call EXCEPT ![m].at = "flush.update", ![m].id = i]
           /\ NoFault
  <2>1. /\ call'[m].at = "flush.update" /\ call'[m].meta = call[m].meta /\ call'[m].name = n
        /\ call'[m].id = i
        /\ \A k \in Mounts \ {m} : call'[k] = call[k]
    BY <1>0, <1>5 DEF MountsOK, CallType
  <2>2. i \in Ids /\ docs[i] = NoDoc /\ docs'[i].filename = n
        /\ \A j \in Ids \ {i} : docs'[j] = docs[j]
    BY <1>0, <1>5, StoredDocs DEF Fresh
  <2>3. KeptBy(call[m]) => KeptBy(call[m])'
    BY <2>1, <2>2 DEF flushStore, KeptBy
  <2>4. MissingByStep(m)
    <3> SUFFICES ASSUME NEW k \in Names, Missing(k)'
                 PROVE  Missing(k) /\ k # n
      BY DEF MissingByStep, Storing
    <3>1. k # n
      BY <2>2 DEF Missing, Named
    <3>2. \A j \in Ids : docs[j].filename = k => docs'[j].filename = k
      BY <2>2, NoDocFields
    <3> QED
      BY <3>1, <3>2 DEF Missing, Named, flushStore
  <2> QED
    BY <1>2, <1>3, <1>5, <2>1, <2>3, <2>4, FaultCounts DEF StepOK, KeptByStep
<1> QED
  BY <1>1, <1>4, <1>5

LEMMA flushUpdateStep ==
  ASSUME MountsOK, DocsOK, NEW m \in Mounts, flushUpdate(m)
  PROVE  StepOK(m)
<1> DEFINE c == call[m]
<1>0. c \in CallType /\ c.id \in Ids /\ c.name \in Names
  BY MountOf DEF flushUpdate, MountOK, InHandler
<1>1. PICK ok \in BOOLEAN : FlushEnds(m, ok)
  BY DEF flushUpdate
<1>2. call'[m].at \in {"idle", "flush.find"} /\ \A k \in Mounts \ {m} : call'[k] = call[k]
  BY <1>1, FlushEndsCall
<1>3. KeptBy(call[m])'
  BY <1>2, Forgets
<1>4. Fault \/ NoFault
  BY DEF flushUpdate
<1>5. CASE UNCHANGED docs
  BY <1>2, <1>3, <1>4, <1>5, SameDocs DEF flushUpdate
<1>6. CASE Updated(c.id, c.meta) /\ c.meta # NoMeta
  <2>1. c.meta \in Attrs
    BY <1>0, <1>6 DEF CallType
  <2>2. DocsKept /\ (Unique => Unique') /\ (GivenMeta /\ c.meta = given[docs[c.id].filename] => GivenMeta')
    BY <1>0, <1>6, <2>1, UpdatedKeeps DEF flushUpdate
  <2>3. KeptBy(c) => c.meta = given[docs[c.id].filename]
    BY <1>6 DEF KeptBy, flushUpdate
  <2>4. MissingByStep(m)
    <3>1. \A j \in Ids : docs'[j].filename = docs[j].filename
      BY <1>0, <1>6, <2>1, UpdatedDocs
    <3> QED
      BY <3>1 DEF MissingByStep, Missing, Storing, Named, flushUpdate
  <2> QED
    BY <1>2, <1>3, <1>4, <2>2, <2>3, <2>4, FaultCounts DEF StepOK, KeptByStep
<1> QED
  BY <1>5, <1>6 DEF flushUpdate, Perhaps

(* A step that starts a handler, or a step of one, and leaves the documents *)
(* alone.                                                                   *)
LEMMA NotWriting ==
  ASSUME MountsOK, DocsOK, NEW m \in Mounts, UNCHANGED <<docs, given>>, Fault \/ NoFault,
         NEW c, call' = [call EXCEPT ![m] = c],
         c.at \in {"idle", "flush.find", "open.find", "open.load", "open.chunks"},
         Fault \/ call[m].at # "flush.store"
  PROVE  StepOK(m)
<1>1. call'[m] = c /\ \A k \in Mounts \ {m} : call'[k] = call[k]
  BY CallOfOne
<1>2. KeptBy(call[m])'
  BY <1>1, Forgets
<1> QED
  BY <1>1, <1>2, SameDocs

LEMMA Returns ==
  ASSUME MountsOK, NEW m \in Mounts, Return(m)
  PROVE  call'[m].at = "idle" /\ \A k \in Mounts \ {m} : call'[k] = call[k]
<1>1. call' = [call EXCEPT ![m] = Idle]
  BY DEF Return
<1>2. Idle.at = "idle"
  BY DEF Idle
<1> QED
  BY <1>1, <1>2, CallOfOne

LEMMA SameCall ==
  ASSUME MountsOK, DocsOK, NEW m \in Mounts, Quiet(m), UNCHANGED <<docs, given, call>>,
         Fault \/ NoFault
  PROVE  StepOK(m)
<1>1. KeptBy(call[m])'
  BY Forgets DEF Quiet
<1> QED
  BY <1>1, SameDocs DEF Quiet

LEMMA openingStep ==
  ASSUME MountsOK, DocsOK, NEW m \in Mounts, openFind(m) \/ openLoad(m) \/ openChunks(m)
  PROVE  StepOK(m)
<1> DEFINE find == Call("flush.find", "open", call[m].name, call[m].h, 0, 2)
           load == [call[m] EXCEPT !.at = "open.load"]
           chunks(i) == [call[m] EXCEPT !.at = "open.chunks", !.id = i]
<1>0. /\ call[m] \in CallType
      /\ UNCHANGED <<docs, given>> /\ (Fault \/ NoFault) /\ call[m].at # "flush.store"
  BY MountOf DEF openFind, openLoad, openChunks
<1>1. /\ Idle.at = "idle" /\ find.at = "flush.find" /\ load.at = "open.load"
      /\ \A i \in Ids : chunks(i).at = "open.chunks"
  BY <1>0 DEF Idle, Call, CallType
<1>2. \/ call' = [call EXCEPT ![m] = Idle]
      \/ call' = [call EXCEPT ![m] = find]
      \/ call' = [call EXCEPT ![m] = load]
      \/ \E i \in Ids : call' = [call EXCEPT ![m] = chunks(i)]
  <2>1. CASE openFind(m)
    <3>1. Return(m) \/ Goto(m, "open.load")
      BY <2>1 DEF openFind
    <3> QED
      BY <3>1 DEF Return, Goto, MountsOK
  <2>2. CASE openLoad(m)
    BY <2>2 DEF openLoad, Return, Named, MountsOK
  <2>3. CASE openChunks(m)
    BY <2>3 DEF openChunks, Return
  <2> QED
    BY <2>1, <2>2, <2>3
<1> HIDE DEF find, load, chunks
<1>3. CASE call' = [call EXCEPT ![m] = Idle]
  BY <1>0, <1>1, <1>3, NotWriting
<1>4. CASE call' = [call EXCEPT ![m] = find]
  BY <1>0, <1>1, <1>4, NotWriting
<1>5. CASE call' = [call EXCEPT ![m] = load]
  BY <1>0, <1>1, <1>5, NotWriting
<1>6. ASSUME NEW i \in Ids, call' = [call EXCEPT ![m] = chunks(i)]
      PROVE  StepOK(m)
  BY <1>0, <1>1, <1>6, NotWriting
<1> QED
  BY <1>2, <1>3, <1>4, <1>5, <1>6

LEMMA createStoreStep ==
  ASSUME MountsOK, DocsOK, NEW m \in Mounts, createStore(m)
  PROVE  StepOK(m)
<1> DEFINE n == call[m].name
           v == call[m].meta
<1>0. n \in Names /\ call[m] \in CallType /\ v \in Attrs /\ call[m].at = "create.store"
  BY MountOf DEF createStore, MountOK, InHandler, Creating
<1>1. PICK i \in Fresh :
        \/ /\ Stored(i, n, Empty)
           /\ call' = [call EXCEPT ![m].at = "create.update", ![m].id = i]
           /\ NoFault
        \/ Perhaps(Stored(i, n, Empty)) /\ Fault /\ Return(m)
  BY DEF createStore
<1>2. Stored(i, n, Empty) => docs' # docs /\ i \in Ids /\ docs[i] = NoDoc /\ docs'[i].filename = n
                             /\ \A j \in Ids \ {i} : docs'[j] = docs[j]
  <2>1. Empty \in Content
    BY DEF Content
  <2> QED
    BY <1>0, <2>1, StoredDocs DEF Fresh
<1>3. Stored(i, n, Empty) => DocsKept /\ (Unique /\ Named(n) = {} => Unique')
                                      /\ (GivenMeta /\ Named(n) = {} => GivenMeta')
  <2>1. Empty \in Content /\ v \in Attrs \cup {NoMeta}
    BY <1>0 DEF Content
  <2>2. given' \in {given, [given EXCEPT ![n] = v]}
    BY DEF createStore
  <2> QED
    BY <1>0, <2>1, <2>2, StoredKeeps
<1>4. KeptBy(call[m]) => Named(n) = {}
  BY <1>0 DEF KeptBy
<1>5. CASE Perhaps(Stored(i, n, Empty)) /\ Fault /\ Return(m)
  <2>1. call'[m].at = "idle" /\ \A k \in Mounts \ {m} : call'[k] = call[k]
    BY <1>5, Returns
  <2>2. KeptBy(call[m])'
    BY <2>1, Forgets
  <2>3. DocsKept /\ (Unique /\ Named(n) = {} => Unique')
                 /\ (GivenMeta /\ Named(n) = {} => GivenMeta')
    <3>1. UNCHANGED docs => UNCHANGED given
      BY DEF createStore
    <3> QED
      BY <1>3, <1>5, <3>1, NothingKeeps DEF Perhaps
  <2> QED
    BY <1>4, <1>5, <2>1, <2>2, <2>3, FaultCounts DEF StepOK, KeptByStep
<1>6. CASE /\ Stored(i, n, Empty)
           /\ call' = [call EXCEPT ![m].at = "create.update", ![m].id = i]
           /\ NoFault
  <2>1. /\ call'[m].at = "create.update" /\ call'[m].meta = v /\ call'[m].name = n
        /\ call'[m].id = i
        /\ \A k \in Mounts \ {m} : call'[k] = call[k]
    BY <1>0, <1>6 DEF MountsOK, CallType
  <2>2. given' = [given EXCEPT ![n] = v]
    BY <1>2, <1>6 DEF createStore
  <2>3. given'[n] = v
    BY <1>0, <2>2 DEF DocsOK
  <2>4. KeptBy(call[m])'
    BY <1>2, <1>6, <2>1, <2>3 DEF KeptBy
  <2>5. MissingByStep(m)
    <3> SUFFICES ASSUME NEW k \in Names, Missing(k)'
                 PROVE  Missing(k) /\ ~Storing(m, k)
      BY DEF MissingByStep
    <3>1. k # n
      BY <1>2, <1>6 DEF Missing, Named
    <3>2. \A j \in Ids : docs[j].filename = k => docs'[j].filename = k
      BY <1>2, <1>6, NoDocFields
    <3>3. given'[k] = given[k]
      BY <2>2, <3>1 DEF DocsOK
    <3> QED
      BY <1>0, <3>1, <3>2, <3>3 DEF Missing, Named, Storing
  <2> QED
    BY <1>3, <1>4, <1>6, <2>1, <2>4, <2>5, FaultCounts DEF StepOK, KeptByStep
<1> QED
  BY <1>1, <1>5, <1>6

LEMMA createUpdateStep ==
  ASSUME MountsOK, DocsOK, NEW m \in Mounts, createUpdate(m)
  PROVE  StepOK(m)
<1> DEFINE c == call[m]
<1>0. c.id \in Ids /\ c.name \in Names /\ c.meta \in Attrs /\ c.at = "create.update"
  BY MountOf DEF createUpdate, MountOK, InHandler, Creating
<1>1. call'[m].at = "idle" /\ \A k \in Mounts \ {m} : call'[k] = call[k]
  BY Returns DEF createUpdate
<1>2. KeptBy(call[m])'
  BY <1>1, Forgets
<1>3. (Fault \/ NoFault) /\ given' = given
  BY DEF createUpdate
<1>4. CASE UNCHANGED docs
  BY <1>0, <1>1, <1>2, <1>3, <1>4, SameDocs
<1>5. CASE Updated(c.id, c.meta)
  <2>1. DocsKept /\ (Unique => Unique') /\ (GivenMeta /\ c.meta = given[docs[c.id].filename] => GivenMeta')
    BY <1>0, <1>3, <1>5, UpdatedKeeps
  <2>2. KeptBy(c) => c.meta = given[docs[c.id].filename]
    BY <1>0 DEF KeptBy
  <2>3. MissingByStep(m)
    <3>1. \A j \in Ids : docs'[j].filename = docs[j].filename
      BY <1>0, <1>5, UpdatedDocs
    <3> QED
      BY <1>0, <1>3, <3>1 DEF MissingByStep, Missing, Storing, Named
  <2> QED
    BY <1>1, <1>2, <1>3, <2>1, <2>2, <2>3, FaultCounts DEF StepOK, KeptByStep
<1> QED
  BY <1>4, <1>5 DEF createUpdate, Perhaps

LEMMA handlerStep ==
  ASSUME MountsOK, DocsOK, NEW m \in Mounts, handler(m)
  PROVE  StepOK(m)
BY flushFindStep, flushRemoveStep, flushStoreStep, flushUpdateStep, openingStep,
   createStoreStep, createUpdateStep DEF handler

LEMMA createStep ==
  ASSUME MountsOK, DocsOK, NEW m \in Mounts, NEW n \in Names, NEW v \in Attrs, create(m, n, v)
  PROVE  StepOK(m)
<1> DEFINE c2 == [Call("create.store", "rw", n, 0, 0, 0) EXCEPT !.meta = v]
<1>1. c2.at = "create.store" /\ c2.name = n
  BY DEF Call
<1>2. call' = [call EXCEPT ![m] = c2]
  BY DEF create
<1> HIDE DEF c2
<1>3. call'[m] = c2 /\ \A k \in Mounts \ {m} : call'[k] = call[k]
  BY <1>2, CallOfOne
<1>4. KeptBy(call[m])'
  BY <1>1, <1>3 DEF KeptBy, create, Named
<1> QED
  BY <1>3, <1>4, SameDocs DEF create, Quiet, NoFault

LEMMA flushStep ==
  ASSUME MountsOK, DocsOK, NEW m \in Mounts, NEW h \in Handles, flush(m, h) \/ release(m, h)
  PROVE  StepOK(m)
<1> DEFINE c(for, tries) == Call("flush.find", for, table[m][h], h, 0, tries)
<1>1. c("flush", 1).at = "flush.find" /\ c("release", 3).at = "flush.find"
  BY DEF Call
<1>2. /\ Quiet(m) /\ UNCHANGED <<docs, given>> /\ NoFault
      /\ \/ call' = [call EXCEPT ![m] = c("flush", 1)]
         \/ call' = [call EXCEPT ![m] = c("release", 3)]
         \/ UNCHANGED call
  BY DEF flush, release, NoFault
<1> HIDE DEF c
<1>3. CASE call' = [call EXCEPT ![m] = c("flush", 1)]
  BY <1>1, <1>2, <1>3, NotWriting DEF Quiet
<1>4. CASE call' = [call EXCEPT ![m] = c("release", 3)]
  BY <1>1, <1>2, <1>4, NotWriting DEF Quiet
<1>5. CASE UNCHANGED call
  BY <1>2, <1>5, SameCall
<1> QED
  BY <1>2, <1>3, <1>4, <1>5

LEMMA openStep ==
  ASSUME MountsOK, DocsOK, NEW m \in Mounts, NEW n \in Names, NEW wr \in {"ro", "rw"},
         NEW h \in Handles, open(m, n, wr, h)
  PROVE  StepOK(m)
<1> DEFINE c == Call("open.find", wr, n, h, 0, 0)
<1>1. c.at = "open.find"
  BY DEF Call
<1>2. /\ Quiet(m) /\ UNCHANGED <<docs, given>> /\ NoFault
      /\ call' = [call EXCEPT ![m] = c] \/ UNCHANGED call
  BY DEF open, NoFault
<1> HIDE DEF c
<1>3. CASE call' = [call EXCEPT ![m] = c]
  BY <1>1, <1>2, <1>3, NotWriting DEF Quiet
<1>4. CASE UNCHANGED call
  BY <1>2, <1>4, SameCall
<1> QED
  BY <1>2, <1>3, <1>4

LEMMA unlinkStep ==
  ASSUME MountsOK, DocsOK, NEW m \in Mounts, NEW n \in Names, unlink(m, n)
  PROVE  StepOK(m)
<1>1. CASE UNCHANGED docs
  <2>1. Quiet(m) /\ UNCHANGED <<docs, given, call>> /\ (Fault \/ NoFault)
    BY <1>1 DEF unlink
  <2> QED
    BY <2>1, SameCall
<1>2. CASE Removed(n) /\ docs' # docs
  <2>1. /\ Quiet(m) /\ UNCHANGED call /\ (Fault \/ NoFault)
        /\ given' = [given EXCEPT ![n] = NoMeta] /\ Named(n) # {}
    BY <1>2 DEF unlink
  <2>2. DocsKept /\ (Unique => Unique') /\ (GivenMeta => GivenMeta')
    BY <1>2, <2>1, RemovedKeeps
  <2>3. KeptBy(call[m])'
    BY <2>1, Forgets DEF Quiet
  <2>4. MissingByStep(m)
    <3> SUFFICES ASSUME NEW k \in Names, Missing(k)'
                 PROVE  Missing(k) /\ ~Storing(m, k)
      BY DEF MissingByStep
    <3>1. k # n /\ given'[k] = given[k]
      BY <2>1 DEF Missing, DocsOK
    <3>2. \A j \in Ids : docs[j].filename = k => docs'[j].filename = k
      BY <1>2, <3>1, RemovedDocs
    <3> QED
      BY <2>1, <3>1, <3>2 DEF Missing, Named, Storing, Quiet
  <2> QED
    BY <2>1, <2>2, <2>3, <2>4, FaultCounts DEF StepOK, KeptByStep
<1> QED
  BY <1>1, <1>2 DEF unlink, Perhaps

LEMMA renameStep ==
  ASSUME MountsOK, DocsOK, NEW m \in Mounts, NEW n \in Names, NEW to \in Names, rename(m, n, to)
  PROVE  StepOK(m)
<1>1. CASE UNCHANGED docs
  <2>1. Quiet(m) /\ UNCHANGED <<docs, given, call>> /\ (Fault \/ NoFault)
    BY <1>1 DEF rename
  <2> QED
    BY <2>1, SameCall
<1>2. ASSUME NEW i \in Named(n), docs' = [docs EXCEPT ![i].filename = to], docs' # docs
      PROVE  StepOK(m)
  <2>1. /\ Quiet(m) /\ UNCHANGED call /\ (Fault \/ NoFault)
        /\ given' = [given EXCEPT ![n] = NoMeta, ![to] = given[n]] /\ n # to
    BY <1>2 DEF rename
  <2>2. /\ DocsKept /\ (Unique /\ ~Onto => Unique')
        /\ (Unique /\ GivenMeta /\ ~Onto => GivenMeta')
    BY <1>2, <2>1, RenamedKeeps
  <2>3. KeptBy(call[m])'
    BY <2>1, Forgets DEF Quiet
  <2>4. MissingByStep(m)
    <3> SUFFICES ASSUME NEW k \in Names, Missing(k)'
                 PROVE  Missing(k) /\ ~Storing(m, k)
      BY DEF MissingByStep
    <3>1. i \in Ids /\ docs[i].filename = n /\ docs[i] # NoDoc
      BY DocIsThere DEF Named
    <3>2. /\ docs'[i].filename = to
          /\ \A j \in Ids \ {i} : docs'[j] = docs[j]
      BY <1>2, <3>1, RenamedDocs
    <3>3. k # to
      BY <3>1, <3>2 DEF Missing, Named
    <3>4. k # n /\ given'[k] = given[k]
      BY <2>1, <3>3 DEF Missing, DocsOK
    <3>5. \A j \in Ids : docs[j].filename = k => docs'[j].filename = k
      BY <3>1, <3>2, <3>4
    <3> QED
      BY <2>1, <3>4, <3>5 DEF Missing, Named, Storing, Quiet
  <2> QED
    BY <2>1, <2>2, <2>3, <2>4, FaultCounts DEF StepOK, KeptByStep
<1> QED
  BY <1>1, <1>2 DEF rename, Perhaps

LEMMA chmodStep ==
  ASSUME MountsOK, DocsOK, NEW m \in Mounts, NEW n \in Names, NEW v \in Attrs, chmod(m, n, v)
  PROVE  StepOK(m)
<1>1. CASE UNCHANGED docs
  <2>1. Quiet(m) /\ UNCHANGED <<docs, given, call>> /\ (Fault \/ NoFault)
    BY <1>1 DEF chmod
  <2> QED
    BY <2>1, SameCall
<1>2. ASSUME NEW i \in Named(n), docs' # docs,
             docs' = IF docs[i].meta = NoMeta THEN docs ELSE [docs EXCEPT ![i].meta = v]
      PROVE  StepOK(m)
  <2>1. /\ Quiet(m) /\ UNCHANGED call /\ (Fault \/ NoFault)
        /\ given' = [given EXCEPT ![n] = v]
    BY <1>2 DEF chmod
  <2>2. DocsKept /\ (Unique => Unique') /\ (Unique /\ GivenMeta => GivenMeta')
    BY <1>2, <2>1, ChmodKeeps
  <2>3. KeptBy(call[m])'
    BY <2>1, Forgets DEF Quiet
  <2>4. MissingByStep(m)
    <3> SUFFICES ASSUME NEW k \in Names, Missing(k)'
                 PROVE  Missing(k) /\ ~Storing(m, k)
      BY DEF MissingByStep
    <3>1. i \in Ids /\ docs[i].filename = n /\ docs[i] # NoDoc
      BY DocIsThere DEF Named
    <3>2. \A j \in Ids : docs'[j].filename = docs[j].filename
      BY <1>2, <3>1, ChmodDocs
    <3>3. k # n
      BY <3>1, <3>2 DEF Missing, Named
    <3>4. given'[k] = given[k]
      BY <2>1, <3>3 DEF DocsOK
    <3> QED
      BY <2>1, <3>2, <3>4 DEF Missing, Named, Storing, Quiet
  <2> QED
    BY <2>1, <2>2, <2>3, <2>4, FaultCounts DEF StepOK, KeptByStep
<1> QED
  BY <1>1, <1>2 DEF chmod, Perhaps

LEMMA crashStep ==
  ASSUME MountsOK, DocsOK, NEW m \in Mounts, crash(m)
  PROVE  StepOK(m)
<1>1. call' = [call EXCEPT ![m] = Idle] /\ UNCHANGED <<docs, given>> /\ Fault
  BY DEF crash, Return
<1>2. Idle.at = "idle"
  BY DEF Idle
<1> QED
  BY <1>1, <1>2, NotWriting

LEMMA requestStep ==
  ASSUME MountsOK, DocsOK, NEW m \in Mounts, request(m)
  PROVE  StepOK(m)
<1>1. ASSUME NEW n \in Names, NEW wr \in {"ro", "rw"}, NEW h \in Handles, open(m, n, wr, h)
      PROVE  StepOK(m)
  BY <1>1, openStep
<1>2. ASSUME NEW n \in Names, truncate(m, n)
      PROVE  StepOK(m)
  BY <1>2, SameCall DEF truncate, NoFault
<1>3. ASSUME NEW n \in Names, unlink(m, n)
      PROVE  StepOK(m)
  BY <1>3, unlinkStep
<1>4. ASSUME NEW n \in Names, NEW v \in Attrs, create(m, n, v) \/ chmod(m, n, v) \/ chown(m, n, v)
      PROVE  StepOK(m)
  BY <1>4, createStep, chmodStep DEF chown
<1>5. ASSUME NEW h \in Handles, flush(m, h) \/ fsync(m, h) \/ release(m, h)
      PROVE  StepOK(m)
  BY <1>5, flushStep DEF fsync
<1>6. ASSUME NEW h \in Handles, ftruncate(m, h) \/ fallocate(m, h)
      PROVE  StepOK(m)
  BY <1>6, SameCall DEF ftruncate, fallocate, truncate, write, NoFault
<1>7. ASSUME NEW h \in Handles, NEW d \in Data, write(m, h, d)
      PROVE  StepOK(m)
  BY <1>7, SameCall DEF write, NoFault
<1>8. ASSUME NEW n \in Names, NEW to \in Names, rename(m, n, to)
      PROVE  StepOK(m)
  BY <1>8, renameStep
<1> QED
  BY <1>1, <1>2, <1>3, <1>4, <1>5, <1>6, <1>7, <1>8 DEF request

----------------------------------------------------------------------------
(* A step that is no race leaves the documents alone that a handler of      *)
(* another mount has read or stored, and their owners and modes.            *)
LEMMA OthersKept ==
  ASSUME MountsOK, NEW m \in Mounts, StepOK(m), ~Race(m),
         NEW k \in Mounts \ {m}, KeptBy(call[k])
  PROVE  KeptBy(call[k])'
<1> DEFINE c == call[k]
           n == c.name
<1>1. call'[k] = c
  BY DEF StepOK
<1>2. CASE c.at \notin {"flush.remove", "flush.store", "flush.update", "create.store", "create.update"}
  BY <1>1, <1>2 DEF KeptBy
<1>3. CASE c.at \in {"flush.remove", "flush.store", "flush.update", "create.store", "create.update"}
  <2>1. n \in Names
    BY <1>3, MountOf
  <2>2. \A i \in Ids : docs[i].filename = n \/ docs'[i].filename = n => docs'[i] = docs[i]
    BY <1>3 DEF Race, Midway
  <2>3. given'[n] = given[n]
    BY <2>1, <2>2 DEF StepOK, DocsKept, GivenFollows
  <2>4. c.at \in {"flush.update", "create.update"} => c.id \in Ids
    BY MountOf DEF MountOK, InHandler
  <2>5. Named(n) = {} => {i \in Ids : docs'[i].filename = n} = {}
    BY <2>2 DEF Named
  <2>6. c.at \in {"flush.update", "create.update"} /\ docs[c.id].filename = n => docs'[c.id].filename = n
    BY <2>2, <2>4
  <2>7. Named(call[k].name)' = {i \in Ids : docs'[i].filename = n}
    BY <1>1 DEF Named
  <2> QED
    BY <1>1, <2>3, <2>5, <2>6, <2>7 DEF KeptBy
<1> QED
  BY <1>2, <1>3

LEMMA WatchSees ==
  ASSUME NEW m \in Mounts, Watch(m), excused' = {}
  PROVE  excused = {} /\ ~Race(m) /\ ~Onto
BY Zenon DEF Watch

LEMMA WatchType ==
  ASSUME NEW m \in Mounts, Watch(m), excused \subseteq {"race", "onto"}
  PROVE  excused' \subseteq {"race", "onto"}
<1> DEFINE race == IF Race(m) THEN {"race"} ELSE {}
           onto == IF Onto THEN {"onto"} ELSE {}
<1>1. race \subseteq {"race", "onto"} /\ onto \subseteq {"race", "onto"}
  OBVIOUS
<1>2. excused' = excused \cup race \cup onto
  BY DEF Watch
<1> HIDE DEF race, onto
<1> QED
  BY <1>1, <1>2

LEMMA NextKeeps ==
  ASSUME IInv, NEW m \in Mounts, handler(m) \/ request(m) \/ crash(m), Watch(m)
  PROVE  IInv'
<1>1. MountsOK /\ DocsOK /\ Surviving /\ Kept
  BY DEF IInv
<1>2. MountsOK'
  BY <1>1, handlerOK, requestOK, crashOK
<1>3. StepOK(m)
  BY <1>1, handlerStep, requestStep, crashStep
<1>4. DocsOK'
  <2>1. excused' \subseteq {"race", "onto"}
    BY <1>1, WatchType DEF DocsOK
  <2> QED
    BY <1>3, <2>1 DEF DocsOK, StepOK, DocsKept
<1>5. Surviving'
  <2> SUFFICES ASSUME faults' = 0, NEW n \in Names, Missing(n)'
               PROVE  \E k \in Mounts : Storing(k, n)'
    BY DEF Surviving
  <2>1. faults = 0
    BY <1>1, <1>3 DEF StepOK, DocsOK
  <2>2. CASE Storing(m, n)'
    BY <2>2
  <2>3. CASE Missing(n) /\ ~Storing(m, n)
    <3>1. PICK k \in Mounts : Storing(k, n)
      BY <1>1, <2>1, <2>3 DEF Surviving
    <3>2. k # m
      BY <2>3, <3>1
    <3> QED
      BY <1>3, <3>1, <3>2 DEF StepOK, Storing
  <2> QED
    BY <1>3, <2>2, <2>3 DEF StepOK, MissingByStep
<1>6. Kept'
  <2> SUFFICES ASSUME excused' = {}
               PROVE  Unique' /\ GivenMeta' /\ \A k \in Mounts : KeptBy(call[k])'
    BY DEF Kept
  <2>1. excused = {} /\ ~Race(m) /\ ~Onto
    BY WatchSees
  <2>2. Unique /\ GivenMeta /\ \A k \in Mounts : KeptBy(call[k])
    BY <1>1, <2>1 DEF Kept
  <2>3. Unique' /\ GivenMeta' /\ KeptBy(call[m])'
    BY <1>3, <2>1, <2>2 DEF StepOK, KeptByStep
  <2>4. ASSUME NEW k \in Mounts, k # m
        PROVE  KeptBy(call[k])'
    BY <1>1, <1>3, <2>1, <2>2, <2>4, OthersKept
  <2> QED
    BY <2>3, <2>4
<1> QED
  BY <1>2, <1>4, <1>5, <1>6 DEF IInv

LEMMA InitKeeps == Init => IInv
<1> SUFFICES ASSUME Init
             PROVE  IInv
  OBVIOUS
<1>1. PICK i \in Ids, n \in Names, d \in Data, v \in Attrs :
        /\ docs = [j \in Ids |-> IF j = i THEN [filename |-> n, data |-> d, meta |-> v]
                                         ELSE NoDoc]
        /\ given = [k \in Names |-> IF k = n THEN v ELSE NoMeta]
  BY DEF Init
<1> DEFINE x == [filename |-> n, data |-> d, meta |-> v]
<1>2. x \in DocType /\ x.filename = n /\ x.meta = v
  BY DEF DocType, Content
<1>3. docs = [j \in Ids |-> IF j = i THEN x ELSE NoDoc]
  BY <1>1
<1> HIDE DEF x
<1>4. DocsOK
  <2>1. docs \in [Ids -> DocType]
    BY <1>2, <1>3 DEF DocType
  <2>2. faults \in 0..MaxFaults
    BY MGridFSAssumption DEF Init
  <2>3. excused \subseteq {"race", "onto"}
    BY DEF Init
  <2> QED
    BY <1>1, <2>1, <2>2, <2>3 DEF DocsOK
<1>5. Surviving
  BY <1>1, <1>2, <1>3 DEF Surviving, Missing, Named
<1>6. MountsOK
  <2> DEFINE t == [h \in Handles |-> NoName]
             f == [h \in Handles |-> "none"]
             b == [k \in Names |-> NoBuffer]
  <2>1. /\ table = [m \in Mounts |-> t] /\ flags = [m \in Mounts |-> f]
        /\ buffers = [m \in Mounts |-> b] /\ call = [m \in Mounts |-> Idle]
    BY DEF Init
  <2>2. MountOK(t, f, b, Idle)
    <3>1. Shaped(t, f, b, Idle)
      BY IdleIsCall DEF Shaped
    <3>2. InHandler(t, f, b, Idle)
      BY DEF InHandler, Idle, Flushing, Opening, Creating
    <3>3. Owned(t, f, b, Idle)
      BY NoBufferFields DEF Owned
    <3> QED
      BY <3>1, <3>2, <3>3 DEF MountOK
  <2> HIDE DEF t, f, b
  <2> QED
    BY <2>1, <2>2 DEF MountsOK, MountOK, Shaped
<1>7. Kept
  <2>1. Unique
    BY <1>2, <1>3, NoDocFields DEF Unique
  <2>2. GivenMeta
    BY <1>1, <1>2, <1>3, NoDocFields DEF GivenMeta
  <2>3. ASSUME NEW m \in Mounts
        PROVE  KeptBy(call[m])
    BY DEF Init, Idle, KeptBy
  <2> QED
    BY <2>1, <2>2, <2>3 DEF Kept
<1> QED
  BY <1>4, <1>5, <1>6, <1>7 DEF IInv

LEMMA StutterKeeps ==
  ASSUME IInv, UNCHANGED vars
  PROVE  IInv'
BY DEF IInv, vars, MountsOK, DocsOK, Surviving, Missing, Named, Storing,
       Kept, Unique, GivenMeta, KeptBy

(* The invariant. *)
THEOREM Inductive == Spec => []IInv
<1>1. Init => IInv
  BY InitKeeps
<1>2. IInv /\ [Next]_vars => IInv'
  BY NextKeeps, StutterKeeps DEF Next
<1> QED
  BY <1>1, <1>2, PTL DEF Spec

(* The state has its shapes.  A handler that flushes finds its file in      *)
(* memory at every call of the database, and one that ends a release or a   *)
(* failed open has the handle it is to give back.                           *)
THEOREM TypeCorrect == Spec => []TypeOK
<1>1. IInv => TypeOK
  BY DEF IInv, MountsOK, DocsOK, TypeOK, DocType, File
<1> QED
  BY <1>1, Inductive, PTL

(* A file in memory is that of an open file that may write, whatever        *)
(* mounts, failing calls and crashes do.                                    *)
THEOREM BuffersHaveWriters == Spec => []BufferHasWriter
<1>1. IInv => BufferHasWriter
  BY DEF IInv, MountsOK, MountOK, Owned, BufferHasWriter, Quiet, Flushing
<1> QED
  BY <1>1, Inductive, PTL

(* An open file has its entry in the handle table of its mount. *)
THEOREM OpenHandlesNamed ==
  Spec => [](\A m \in Mounts, h \in Handles : flags[m][h] # "none" => table[m][h] # NoName)
<1>1. IInv => \A m \in Mounts, h \in Handles : flags[m][h] # "none" => table[m][h] # NoName
  BY DEF IInv, MountsOK, MountOK, Owned
<1> QED
  BY <1>1, Inductive, PTL

(* Owner and mode follow the file through flushes of any mounts, through    *)
(* flushes that fail half way and through crashes, until a mount changes a  *)
(* document while another is writing the file of that name, or a file is    *)
(* renamed onto another.                                                    *)
THEOREM OwnerAndModeKept == Spec => []AttributesKept
<1>1. IInv => AttributesKept
  BY DEF IInv, Kept, GivenMeta, AttributesKept
<1> QED
  BY <1>1, Inductive, PTL

(* Without failing calls a file survives the flushes and failed opens of    *)
(* any mounts until somebody unlinks or renames it.                         *)
THEOREM FilesKeepExisting == Spec => []FilesSurvive
<1>1. IInv => FilesSurvive
  BY DEF IInv, Surviving, Missing, Storing, FilesSurvive, Quiet
<1> QED
  BY <1>1, Inductive, PTL
=============================================================================
