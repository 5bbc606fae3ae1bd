--------------------------- MODULE OneMountProofs ---------------------------
(***************************************************************************)
(* Proofs about MGridFS.tla for a single mount: what it promises when no   *)
(* other mount changes the documents behind its back.                      *)
(***************************************************************************)
EXTENDS MGridFSProofs, FiniteSetTheorems

OneMount == \E m : Mounts = {m}

NoRenameOfOpen == "renameOpen" \notin Scope

(* What the document a handler has found or stored is like at its next call *)
(* of the database.                                                         *)
Finds(c, b) ==
  /\ c.at \in {"open.load", "flush.remove"} => Named(c.name) # {}
  /\ c.at \in {"open.chunks", "flush.update", "create.update"} => docs[c.id].filename = c.name
  /\ c.at = "flush.update" => docs[c.id].data = b[c.name].data
  /\ c.at = "create.update" => docs[c.id].data = Empty

(* Without failing calls no open fails once it has found the file, and a    *)
(* document without metadata is about to get them.                          *)
Clears(c) ==
  /\ c.at \in Flushing => c.for # "open"
  /\ c.at \in {"flush.remove", "flush.store", "flush.update"} => c.meta # NoMeta

Completes(c) ==
  \A i \in Ids : docs[i] # NoDoc /\ docs[i].meta = NoMeta =>
    c.at \in {"flush.update", "create.update"} /\ c.id = i

Alone(m) ==
  /\ Finds(call[m], buffers[m])
  /\ faults = 0 => Clears(call[m]) /\ Completes(call[m])

(* The handles of the table that no file has open and no handler opens: one *)
(* of a failing call each.                                                  *)
Lost(m) ==
  {h \in Handles : /\ table[m][h] # NoName /\ flags[m][h] = "none"
                   /\ ~(call[m].at \in Opening /\ call[m].h = h)}

Few(m) == IsFiniteSet(Lost(m)) /\ Cardinality(Lost(m)) <= faults

LosesOne(m) ==
  \/ Lost(m)' \subseteq Lost(m)
  \/ Fault /\ \E h \in Handles : Lost(m)' \subseteq Lost(m) \cup {h}

(* A clean file in memory is what GridFS has, and without failing calls a   *)
(* file in memory is in GridFS unless a flush is about to store it.         *)
CleanName(m, n) ==
  buffers[m][n].there =>
    /\ (~buffers[m][n].dirty /\ ~Loading(m, n)) =>
         \E i \in Named(n) : docs[i].data = buffers[m][n].data
    /\ faults = 0 => Named(n) # {} \/ Storing(m, n)

OneInv == IInv /\ "race" \notin excused /\ \A m \in Mounts : Alone(m) /\ Few(m)

CleanInv == \A m \in Mounts, n \in Names : CleanName(m, n)

----------------------------------------------------------------------------
(* What the end of a flush of the handler c of mount m leaves of the mount. *)
LEMMA FlushEndsCases ==
  ASSUME MountsOK, NEW m \in Mounts, call[m].at \in Flushing,
         NEW ok \in BOOLEAN, FlushEnds(m, ok)
  PROVE  LET c == call[m]
         IN  /\ \A k \in Names \ {c.name} : buffers'[m][k] = buffers[m][k]
             /\ \/ /\ c.for = "flush"
                   /\ table'[m] = table[m] /\ flags'[m] = flags[m] /\ call'[m] = Idle
                   /\ buffers'[m][c.name].there /\ buffers'[m][c.name].data = buffers[m][c.name].data
                   /\ (ok => ~buffers'[m][c.name].dirty) /\ (~ok => buffers'[m][c.name].dirty)
                \/ /\ ~ok
                   /\ UNCHANGED local
                   /\ call'[m].at = "flush.find" /\ call'[m].for = c.for /\ call'[m].name = c.name
                \/ /\ c.for # "flush" /\ (ok \/ c.tries = 1)
                   /\ c.h \in Handles /\ table[m][c.h] = c.name
                   /\ buffers'[m][c.name] = NoBuffer
                   /\ call'[m] = Idle /\ flags'[m][c.h] = "none"
                   /\ \A g \in Handles \ {c.h} : flags'[m][g] = flags[m][g] /\ table'[m][g] = table[m][g]
                   /\ table'[m][c.h] = IF c.for = "release" THEN NoName ELSE table[m][c.h]
<1> DEFINE c == call[m]
           n == c.name
           b == buffers[m]
<1>0. /\ c.name \in Names /\ b[c.name] \in File /\ b[n].there /\ b[n].dirty
      /\ MountOK(table[m], flags[m], b, c)
      /\ table[m] \in [Handles -> Names \cup {NoName}]
      /\ flags[m] \in [Handles -> {"none", "ro", "rw"}]
      /\ b \in [Names -> File \cup {NoBuffer}]
  BY FlushingFile, MountOf
<1>1. CASE c.for = "flush"
  <2> DEFINE x == [b[n] EXCEPT !.dirty = @ /\ ~ok]
  <2>1. /\ buffers' = [buffers EXCEPT ![m] = [b EXCEPT ![n] = x]]
        /\ call' = [call EXCEPT ![m] = Idle] /\ UNCHANGED <<table, flags>>
    BY <1>1 DEF FlushEnds, Return, MountsOK
  <2>2. x.data = b[n].data /\ x.there = b[n].there /\ x.dirty = (b[n].dirty /\ ~ok)
    BY <1>0 DEF File
  <2>3. x.there /\ (ok => ~x.dirty) /\ (~ok => x.dirty)
    BY <1>0, <2>2, Zenon
  <2> HIDE DEF x
  <2>4. buffers'[m] = [b EXCEPT ![n] = x] /\ call'[m] = Idle
    BY <2>1 DEF MountsOK
  <2> QED
    BY <1>0, <1>1, <2>1, <2>2, <2>3, <2>4
<1>2. CASE c.for # "flush" /\ ~ok /\ c.tries > 1
  <2> DEFINE again == Call("flush.find", c.for, c.name, c.h, 0, c.tries - 1)
  <2>1. call' = [call EXCEPT ![m] = again] /\ UNCHANGED local
    BY <1>2 DEF FlushEnds
  <2>2. again.at = "flush.find" /\ again.for = c.for /\ again.name = c.name
    BY DEF Call
  <2> HIDE DEF again
  <2>3. call'[m] = again
    BY <2>1 DEF MountsOK
  <2> QED
    BY <1>2, <2>1, <2>2, <2>3 DEF local
<1>3. CASE c.for # "flush" /\ ~(~ok /\ c.tries > 1)
  <2>1. /\ buffers' = [buffers EXCEPT ![m][n] = NoBuffer]
        /\ call' = [call EXCEPT ![m] = Idle]
        /\ flags' = [flags EXCEPT ![m][c.h] = "none"]
        /\ table' = IF c.for = "release" THEN [table EXCEPT ![m] = [table[m] EXCEPT ![c.h] = NoName]]
                    ELSE table
    BY <1>3 DEF FlushEnds, Return, Handle!WithoutHandle
  <2>2. c.h \in Handles /\ table[m][c.h] = c.name /\ c.tries > 0 /\ c.tries \in Nat
    BY <1>0, <1>3 DEF MountOK, InHandler, Shaped, CallType
  <2>3. ok \/ c.tries = 1
    BY <1>3, <2>2
  <2>4. /\ buffers'[m] = [b EXCEPT ![n] = NoBuffer] /\ call'[m] = Idle
        /\ flags'[m] = [flags[m] EXCEPT ![c.h] = "none"]
        /\ table'[m] = IF c.for = "release" THEN [table[m] EXCEPT ![c.h] = NoName] ELSE table[m]
    BY <2>1 DEF MountsOK
  <2> QED
    BY <1>0, <1>3, <2>2, <2>3, <2>4
<1> QED
  BY <1>1, <1>2, <1>3

(* A handler that has to look for a document first, or to store one. *)
LEMMA NothingFound ==
  ASSUME NEW m, call'[m].at \in {"idle", "flush.find", "flush.store", "open.find", "create.store"}
  PROVE  Finds(call[m], buffers[m])'
BY DEF Finds

(* What is still clear when a flush has ended. *)
LEMMA FlushEndsAlone ==
  ASSUME MountsOK, DocsOK, NEW m \in Mounts, Alone(m), call[m].at \in Flushing,
         NEW ok \in BOOLEAN, FlushEnds(m, ok), Fault \/ NoFault,
         faults' = 0 => \A i \in Ids : docs'[i] # NoDoc => docs'[i].meta # NoMeta
  PROVE  Alone(m)' /\ LosesOne(m)
<1> DEFINE c == call[m]
<1>1. Idle.at = "idle"
  BY DEF Idle
<1>2. call'[m] = Idle \/ call'[m].at = "flush.find"
  BY FlushEndsCases
<1>3. Finds(call[m], buffers[m])'
  BY <1>1, <1>2, NothingFound
<1>4. ASSUME faults' = 0
      PROVE  Clears(call[m])' /\ Completes(call[m])'
  <2>1. c.for # "open"
    BY <1>4, FaultCounts DEF Alone, Clears, NoFault
  <2>2. call'[m].at \in Flushing => call'[m].for # "open"
    BY <1>1, <2>1, FlushEndsCases DEF Flushing
  <2>3. Completes(call[m])'
    BY <1>4 DEF Completes
  <2> QED
    BY <1>1, <1>2, <2>2, <2>3 DEF Clears
<1>5. Lost(m)' \subseteq Lost(m)
  <2>1. c.at \notin Opening
    BY DEF Flushing, Opening
  <2>2. ASSUME NEW h \in Handles, table'[m][h] # NoName, flags'[m][h] = "none"
        PROVE  table[m][h] # NoName /\ flags[m][h] = "none"
    <3>1. c.for \in {"flush", "release", "open"} /\ (c.for = "open" => flags[m][c.h] = "none")
      BY MountOf DEF MountOK, InHandler
    <3> QED
      BY <2>2, <3>1, FlushEndsCases DEF local
  <2> QED
    BY <2>1, <2>2 DEF Lost
<1> QED
  BY <1>3, <1>4, <1>5 DEF Alone, LosesOne

LEMMA flushFindAlone ==
  ASSUME MountsOK, DocsOK, NEW m \in Mounts, Alone(m), flushFind(m)
  PROVE  Alone(m)' /\ LosesOne(m)
<1>0. /\ call[m].at = "flush.find" /\ call[m].at \in Flushing /\ (Fault \/ NoFault)
      /\ UNCHANGED <<docs, given>> /\ call[m] \in CallType /\ call[m].name \in Names
  BY MountOf DEF flushFind, Flushing
<1>1. faults' = 0 => faults = 0 /\ \A i \in Ids : docs[i] # NoDoc => docs[i].meta # NoMeta
  BY <1>0, FaultCounts DEF Alone, Completes, NoFault
<1>2. CASE FlushEnds(m, FALSE)
  BY <1>0, <1>1, <1>2, FlushEndsAlone
<1>3. ASSUME NEW i \in Named(call[m].name),
             call' = [call EXCEPT ![m].at = "flush.remove", ![m].meta = docs[i].meta],
             UNCHANGED local
      PROVE  Alone(m)' /\ LosesOne(m)
  <2>1. /\ call'[m].at = "flush.remove" /\ call'[m].meta = docs[i].meta
        /\ call'[m].name = call[m].name /\ call'[m].for = call[m].for
    BY <1>0, <1>3 DEF MountsOK, CallType
  <2>2. i \in Ids /\ docs[i].filename = call[m].name /\ docs[i] # NoDoc
    BY <1>0, DocIsThere DEF Named
  <2>3. Finds(call[m], buffers[m])'
    BY <1>0, <2>1, <2>2 DEF Finds, Named
  <2> QED
    BY <1>0, <1>1, <1>3, <2>1, <2>2, <2>3
       DEF Alone, Clears, Completes, Lost, LosesOne, Flushing, Opening, local
<1> QED
  BY <1>2, <1>3 DEF flushFind

LEMMA flushRemoveAlone ==
  ASSUME MountsOK, DocsOK, NEW m \in Mounts, Alone(m), flushRemove(m)
  PROVE  Alone(m)' /\ LosesOne(m)
<1>0. /\ call[m].at = "flush.remove" /\ call[m].at \in Flushing
      /\ call[m] \in CallType /\ call[m].name \in Names
  BY MountOf DEF flushRemove, Flushing
<1>1. CASE Fault /\ FlushEnds(m, FALSE)
  BY <1>0, <1>1, FaultCounts, FlushEndsAlone
<1>2. CASE Removed(call[m].name) /\ Goto(m, "flush.store") /\ NoFault /\ UNCHANGED local
  <2>1. /\ call'[m].at = "flush.store" /\ call'[m].meta = call[m].meta
        /\ call'[m].name = call[m].name /\ call'[m].for = call[m].for
    BY <1>0, <1>2 DEF MountsOK, CallType, Goto
  <2>2. Finds(call[m], buffers[m])'
    BY <2>1, NothingFound
  <2>3. \A i \in Ids : docs'[i] # NoDoc => docs'[i] = docs[i]
    BY <1>0, <1>2, RemovedDocs
  <2> QED
    BY <1>0, <1>2, <2>1, <2>2, <2>3 DEF Alone, Clears, Completes, Lost, LosesOne, Flushing, Opening, local, NoFault
<1> QED
  BY <1>1, <1>2 DEF flushRemove

LEMMA flushStoreAlone ==
  ASSUME MountsOK, DocsOK, NEW m \in Mounts, Alone(m), flushStore(m)
  PROVE  Alone(m)' /\ LosesOne(m)
<1> DEFINE n == call[m].name
           d == buffers[m][n].data
<1>0. /\ call[m].at = "flush.store" /\ call[m].at \in Flushing
      /\ call[m] \in CallType /\ n \in Names /\ d \in Content
  <2>1. buffers[m][n] \in File
    BY FlushingFile DEF flushStore, Flushing
  <2> QED
    BY <2>1, MountOf DEF flushStore, File, Flushing
<1>1. CASE Fault /\ FlushEnds(m, FALSE)
  BY <1>0, <1>1, FaultCounts, FlushEndsAlone
<1>2. ASSUME NEW i \in Fresh, Stored(i, n, d), NoFault, UNCHANGED local,
             call' = [call EXCEPT ![m].at = "flush.update", ![m].id = i]
      PROVE  Alone(m)' /\ LosesOne(m)
  <2>1. /\ call'[m].at = "flush.update" /\ call'[m].meta = call[m].meta
        /\ call'[m].name = n /\ call'[m].for = call[m].for /\ call'[m].id = i
    BY <1>0, <1>2 DEF MountsOK, CallType
  <2>2. /\ i \in Ids /\ docs'[i].filename = n /\ docs'[i].data = d
        /\ \A j \in Ids \ {i} : docs'[j] = docs[j]
    <3>1. i \in Ids
      BY DEF Fresh
    <3> QED
      BY <1>0, <1>2, <3>1, StoredDocs
  <2>3. buffers'[m] = buffers[m]
    BY <1>2 DEF local
  <2>4. Finds(call[m], buffers[m])'
    BY <2>1, <2>2, <2>3 DEF Finds
  <2> QED
    BY <1>0, <1>2, <2>1, <2>2, <2>4 DEF Alone, Clears, Completes, Lost, LosesOne, Flushing, Opening, local, NoFault
<1> QED
  BY <1>1, <1>2 DEF flushStore

LEMMA flushUpdateAlone ==
  ASSUME MountsOK, DocsOK, NEW m \in Mounts, Alone(m), flushUpdate(m)
  PROVE  Alone(m)' /\ LosesOne(m)
<1> DEFINE c == call[m]
<1>0. /\ c.at = "flush.update" /\ c.at \in Flushing /\ (Fault \/ NoFault)
      /\ c \in CallType /\ c.name \in Names /\ c.id \in Ids
  BY MountOf DEF flushUpdate, Flushing, MountOK, InHandler
<1>1. PICK ok \in BOOLEAN : FlushEnds(m, ok)
  BY DEF flushUpdate
<1>2. ASSUME faults' = 0
      PROVE  \A i \in Ids : docs'[i] # NoDoc => docs'[i].meta # NoMeta
  <2>1. faults = 0 /\ c.meta # NoMeta /\ NoFault /\ ~Fault
    BY <1>0, <1>2, FaultCounts DEF Alone, Clears, NoFault
  <2>2. Updated(c.id, c.meta) /\ c.meta \in Attrs
    BY <1>0, <2>1 DEF flushUpdate, CallType
  <2>3. /\ docs[c.id] # NoDoc => docs'[c.id].meta = c.meta
        /\ \A j \in Ids \ {c.id} : docs'[j] = docs[j]
        /\ \A j \in Ids : (docs'[j] = NoDoc) <=> (docs[j] = NoDoc)
    BY <1>0, <2>2, UpdatedDocs
  <2> QED
    BY <2>1, <2>3 DEF Alone, Completes
<1> QED
  BY <1>0, <1>1, <1>2, FlushEndsAlone

----------------------------------------------------------------------------
LEMMA openAlone ==
  ASSUME MountsOK, DocsOK, NEW m \in Mounts, Alone(m), NEW n \in Names,
         NEW wr \in {"ro", "rw"}, NEW h \in Handles, open(m, n, wr, h)
  PROVE  Alone(m)' /\ LosesOne(m)
<1> DEFINE c2 == Call("open.find", wr, n, h, 0, 0)
<1>0. call[m].at = "idle" /\ UNCHANGED <<docs, faults, buffers>>
  BY DEF open, Quiet
<1>1. /\ c2.at = "open.find" /\ c2.h = h /\ c2.at \in Opening
  BY DEF Call, Opening
<1>2. /\ table'[m][h] = n /\ \A g \in Handles \ {h} : table'[m][g] = table[m][g]
  BY MountOf DEF open, Handle!WithHandle, MountsOK
<1>3. \/ /\ call'[m] = call[m] /\ flags'[m][h] = wr
         /\ \A g \in Handles \ {h} : flags'[m][g] = flags[m][g]
      \/ call' = [call EXCEPT ![m] = c2] /\ flags'[m] = flags[m]
  BY MountOf DEF open, MountsOK
<1> HIDE DEF c2
<1>4. \/ /\ call'[m] = call[m] /\ flags'[m][h] = wr
         /\ \A g \in Handles \ {h} : flags'[m][g] = flags[m][g]
      \/ call'[m] = c2 /\ flags'[m] = flags[m]
  BY <1>3, CallOfOne
<1>5. Finds(call[m], buffers[m])'
  BY <1>0, <1>1, <1>4, NothingFound
<1>6. faults' = 0 => Clears(call[m])'
  BY <1>0, <1>1, <1>2, <1>4 DEF Alone, Clears, Opening, Flushing
<1>7. faults' = 0 => Completes(call[m])'
  BY <1>0, <1>1, <1>4 DEF Alone, Completes
<1>8. Lost(m)' \subseteq Lost(m)
  BY <1>0, <1>1, <1>2, <1>4 DEF Lost, Opening
<1> QED
  BY <1>5, <1>6, <1>7, <1>8 DEF Alone, LosesOne

LEMMA openFindAlone ==
  ASSUME MountsOK, DocsOK, NEW m \in Mounts, Alone(m), openFind(m)
  PROVE  Alone(m)' /\ LosesOne(m)
<1> DEFINE c == call[m]
<1>0. /\ c.at = "open.find" /\ c \in CallType /\ c.h \in Handles /\ (Fault \/ NoFault)
      /\ UNCHANGED <<docs, given>> /\ c.name \in Names /\ c.at \in Opening
  BY OpeningFile, MountOf DEF openFind, Opening
<1>1. Idle.at = "idle"
  BY DEF Idle
<1>2. faults' = 0 => faults = 0
  BY <1>0, FaultCounts DEF NoFault
<1>3. \/ /\ call'[m] = Idle /\ flags'[m] = flags[m]
         /\ table'[m][c.h] = NoName /\ \A g \in Handles \ {c.h} : table'[m][g] = table[m][g]
      \/ /\ call'[m] = Idle /\ table'[m] = table[m]
         /\ flags'[m][c.h] = "ro" /\ \A g \in Handles \ {c.h} : flags'[m][g] = flags[m][g]
      \/ /\ call'[m].at = "open.load" /\ call'[m].name = c.name /\ call'[m].h = c.h
         /\ Named(c.name) # {}
         /\ table'[m] = table[m] /\ flags'[m] = flags[m]
  <2>1. CASE /\ table' = [table EXCEPT ![m] = Handle!WithoutHandle(@, c.h)]
             /\ Return(m)
             /\ UNCHANGED <<flags, buffers>>
    BY <1>0, <2>1, MountOf DEF MountsOK, Return, Handle!WithoutHandle
  <2>2. CASE /\ flags' = [flags EXCEPT ![m][c.h] = "ro"]
             /\ Return(m)
             /\ UNCHANGED <<table, buffers>>
    BY <1>0, <2>2, MountOf DEF MountsOK, Return
  <2>3. CASE Goto(m, "open.load") /\ UNCHANGED <<table, flags>> /\ Named(c.name) # {}
    BY <1>0, <2>3 DEF MountsOK, Goto, CallType
  <2> QED
    BY <2>1, <2>2, <2>3 DEF openFind
<1>4. Finds(call[m], buffers[m])'
  BY <1>0, <1>1, <1>3 DEF Finds, Named
<1>5. faults' = 0 => Clears(call[m])'
  BY <1>0, <1>1, <1>2, <1>3 DEF Alone, Clears, Opening, Flushing
<1>6. faults' = 0 => Completes(call[m])'
  BY <1>0, <1>2, <1>3 DEF Alone, Completes
<1>7. Lost(m)' \subseteq Lost(m)
  BY <1>0, <1>1, <1>3 DEF Lost, Opening
<1> QED
  BY <1>4, <1>5, <1>6, <1>7 DEF Alone, LosesOne

LEMMA openLoadAlone ==
  ASSUME MountsOK, DocsOK, NEW m \in Mounts, Alone(m), openLoad(m)
  PROVE  Alone(m)' /\ LosesOne(m)
<1> DEFINE c == call[m]
<1>0. /\ c.at = "open.load" /\ c \in CallType /\ c.h \in Handles /\ (Fault \/ NoFault)
      /\ UNCHANGED <<docs, table, flags, given>> /\ c.name \in Names /\ c.at \in Opening
  BY OpeningFile, MountOf DEF openLoad, Opening
<1>1. Idle.at = "idle"
  BY DEF Idle
<1>2. faults' = 0 => faults = 0
  BY <1>0, FaultCounts DEF NoFault
<1>3. Named(c.name) # {}
  BY <1>0 DEF Alone, Finds
<1>4. \/ \E i \in Named(c.name) : /\ call'[m].at = "open.chunks" /\ call'[m].name = c.name
                                  /\ call'[m].h = c.h /\ call'[m].id = i
      \/ call'[m] = Idle /\ faults' # 0 /\ Fault
  <2>1. CASE Return(m) /\ Fault
    BY <2>1, FaultCounts DEF Return, MountsOK
  <2>2. ASSUME NEW i \in Named(c.name), call' = [call EXCEPT ![m].at = "open.chunks", ![m].id = i]
        PROVE  /\ call'[m].at = "open.chunks" /\ call'[m].name = c.name
               /\ call'[m].h = c.h /\ call'[m].id = i
    BY <1>0, <2>2 DEF MountsOK, CallType
  <2> QED
    BY <1>3, <2>1, <2>2 DEF openLoad
<1>5. Finds(call[m], buffers[m])'
  BY <1>0, <1>1, <1>4 DEF Finds, Named
<1>6. faults' = 0 => Clears(call[m])'
  BY <1>0, <1>2, <1>4 DEF Alone, Clears, Opening, Flushing
<1>7. faults' = 0 => Completes(call[m])'
  BY <1>0, <1>2, <1>4 DEF Alone, Completes
<1>8. LosesOne(m)
  BY <1>0, <1>1, <1>4 DEF Lost, LosesOne, Opening
<1> QED
  BY <1>5, <1>6, <1>7, <1>8 DEF Alone

LEMMA openChunksAlone ==
  ASSUME MountsOK, DocsOK, NEW m \in Mounts, Alone(m), openChunks(m)
  PROVE  Alone(m)' /\ LosesOne(m)
<1> DEFINE c == call[m]
           find == Call("flush.find", "open", c.name, c.h, 0, 2)
<1>0. /\ c.at = "open.chunks" /\ c.h \in Handles /\ (Fault \/ NoFault) /\ c.at \in Opening
      /\ UNCHANGED <<docs, table, given>>
  BY OpeningFile DEF openChunks, Opening
<1>1. Idle.at = "idle" /\ find.at = "flush.find"
  BY DEF Idle, Call
<1>2. faults' = 0 => faults = 0
  BY <1>0, FaultCounts DEF NoFault
<1>3. docs[c.id].filename = c.name
  BY <1>0 DEF Alone, Finds
<1>4. \/ /\ call'[m] = Idle /\ flags'[m][c.h] = "rw"
         /\ \A g \in Handles \ {c.h} : flags'[m][g] = flags[m][g]
      \/ call'[m] = find /\ faults' # 0 /\ Fault /\ UNCHANGED flags
  BY <1>0, <1>3, FaultCounts, MountOf DEF openChunks, Return, MountsOK
<1> HIDE DEF find
<1>5. Finds(call[m], buffers[m])'
  BY <1>1, <1>4, NothingFound
<1>6. faults' = 0 => Clears(call[m])'
  BY <1>0, <1>1, <1>2, <1>4 DEF Alone, Clears, Opening, Flushing
<1>7. faults' = 0 => Completes(call[m])'
  BY <1>0, <1>2, <1>4 DEF Alone, Completes
<1>8. LosesOne(m)
  BY <1>0, <1>1, <1>4 DEF Lost, LosesOne, Opening
<1> QED
  BY <1>5, <1>6, <1>7, <1>8 DEF Alone

LEMMA createStoreAlone ==
  ASSUME MountsOK, DocsOK, NEW m \in Mounts, Alone(m), createStore(m)
  PROVE  Alone(m)' /\ LosesOne(m)
<1> DEFINE c == call[m]
<1>0. c.at = "create.store" /\ c.name \in Names /\ c \in CallType /\ UNCHANGED local
  BY MountOf DEF createStore
<1>1. Idle.at = "idle" /\ Empty \in Content
  BY DEF Idle, Content
<1>2. CASE Fault /\ Return(m)
  <2>1. call'[m] = Idle
    BY <1>2 DEF Return, MountsOK
  <2>2. faults' # 0
    BY <1>2, FaultCounts
  <2>3. Finds(call[m], buffers[m])'
    BY <1>1, <2>1, NothingFound
  <2> QED
    BY <1>0, <1>1, <2>1, <2>2, <2>3 DEF Alone, Lost, LosesOne, Opening, local
<1>3. ASSUME NEW i \in Fresh, Stored(i, c.name, Empty), NoFault,
             call' = [call EXCEPT ![m].at = "create.update", ![m].id = i]
      PROVE  Alone(m)' /\ LosesOne(m)
  <2>1. call'[m].at = "create.update" /\ call'[m].name = c.name /\ call'[m].id = i
    BY <1>0, <1>3 DEF MountsOK, CallType
  <2>2. /\ i \in Ids /\ docs'[i].filename = c.name /\ docs'[i].data = Empty
        /\ \A j \in Ids \ {i} : docs'[j] = docs[j]
    <3>1. i \in Ids
      BY DEF Fresh
    <3> QED
      BY <1>0, <1>1, <1>3, <3>1, StoredDocs
  <2>3. Finds(call[m], buffers[m])'
    BY <2>1, <2>2 DEF Finds
  <2> QED
    BY <1>0, <1>3, <2>1, <2>2, <2>3 DEF Alone, Clears, Completes, Lost, LosesOne, Flushing, Opening, local, NoFault
<1> QED
  BY <1>2, <1>3 DEF createStore

LEMMA createUpdateAlone ==
  ASSUME MountsOK, DocsOK, NEW m \in Mounts, Alone(m), createUpdate(m)
  PROVE  Alone(m)' /\ LosesOne(m)
<1> DEFINE c == call[m]
<1>0. /\ c.at = "create.update" /\ c.id \in Ids /\ c.name \in Names /\ c.meta \in Attrs
  BY MountOf DEF createUpdate, MountOK, InHandler, Creating
<1>1. Idle.at = "idle" /\ call'[m] = Idle
  BY DEF Idle, createUpdate, Return, MountsOK
<1>2. Finds(call[m], buffers[m])'
  BY <1>1, NothingFound
<1>3. ASSUME faults' = 0
      PROVE  Clears(call[m])' /\ Completes(call[m])'
  <2>1. faults = 0 /\ NoFault /\ ~Fault
    BY <1>3, FaultCounts DEF NoFault, createUpdate
  <2>2. Updated(c.id, c.meta)
    BY <2>1 DEF createUpdate
  <2>3. /\ docs[c.id] # NoDoc => docs'[c.id].meta = c.meta
        /\ \A j \in Ids \ {c.id} : docs'[j] = docs[j]
        /\ \A j \in Ids : (docs'[j] = NoDoc) <=> (docs[j] = NoDoc)
    BY <1>0, <2>2, UpdatedDocs
  <2>4. Completes(call[m])'
    BY <1>0, <2>1, <2>3, MGridFSAssumption DEF Alone, Completes
  <2> QED
    BY <1>1, <2>4 DEF Clears, Flushing
<1>4. Lost(m)' \subseteq Lost(m)
  <2>1. CASE UNCHANGED local
    BY <1>0, <1>1, <2>1 DEF Lost, Opening, local
  <2>2. ASSUME NEW h \in Handles,
               table' = [table EXCEPT ![m] = [table[m] EXCEPT ![h] = c.name]],
               flags' = [flags EXCEPT ![m] = [flags[m] EXCEPT ![h] = "rw"]]
        PROVE  Lost(m)' \subseteq Lost(m)
    <3>1. /\ table'[m] = [table[m] EXCEPT ![h] = c.name]
          /\ flags'[m] = [flags[m] EXCEPT ![h] = "rw"]
      BY <2>2 DEF MountsOK
    <3>2. /\ flags'[m][h] = "rw"
          /\ \A g \in Handles \ {h} : flags'[m][g] = flags[m][g] /\ table'[m][g] = table[m][g]
      BY <3>1, MountOf
    <3> QED
      BY <1>0, <1>1, <3>2 DEF Lost, Opening
  <2> QED
    BY <2>1, <2>2 DEF createUpdate, Handle!WithHandle
<1> QED
  BY <1>2, <1>3, <1>4 DEF Alone, LosesOne

(* A step of a mount between handlers that stays there or starts one. *)
LEMMA QuietAlone ==
  ASSUME MountsOK, DocsOK, NEW m \in Mounts, Alone(m), Quiet(m), Fault \/ NoFault,
         call'[m].at \in {"idle", "flush.find", "create.store"},
         call'[m].at = "flush.find" => call'[m].for # "open",
         \A h \in Handles : \/ table'[m][h] = NoName
                            \/ table'[m][h] = table[m][h] /\ flags'[m][h] = flags[m][h],
         \A i \in Ids : docs'[i] # NoDoc /\ docs'[i].meta = NoMeta =>
                          docs[i] # NoDoc /\ docs[i].meta = NoMeta
  PROVE  Alone(m)' /\ LosesOne(m)
<1>1. Finds(call[m], buffers[m])'
  BY NothingFound
<1>2. faults' = 0 => faults = 0
  BY FaultCounts DEF NoFault
<1>3. faults' = 0 => Clears(call[m])'
  BY <1>2 DEF Alone, Clears, Quiet, Opening, Flushing
<1>4. faults' = 0 => Completes(call[m])'
  BY <1>2 DEF Alone, Completes, Quiet
<1>5. Lost(m)' \subseteq Lost(m)
  BY DEF Lost, Quiet, Opening
<1> QED
  BY <1>1, <1>3, <1>4, <1>5 DEF Alone, LosesOne

LEMMA requestAlone ==
  ASSUME MountsOK, DocsOK, NEW m \in Mounts, Alone(m), request(m)
  PROVE  Alone(m)' /\ LosesOne(m)
<1>1. ASSUME NEW n \in Names, NEW wr \in {"ro", "rw"}, NEW h \in Handles, open(m, n, wr, h)
      PROVE  Alone(m)' /\ LosesOne(m)
  BY <1>1, openAlone
<1>2. CASE /\ \/ \E n \in Names : truncate(m, n)
              \/ \E h \in Handles, d \in Data : write(m, h, d)
              \/ \E h \in Handles : ftruncate(m, h) \/ fallocate(m, h)
  <2>1. Quiet(m) /\ UNCHANGED <<docs, table, flags, call>> /\ NoFault
    BY <1>2 DEF truncate, write, ftruncate, fallocate, NoFault
  <2> QED
    BY <2>1, QuietAlone DEF Quiet
<1>3. ASSUME NEW n \in Names, unlink(m, n)
      PROVE  Alone(m)' /\ LosesOne(m)
  <2>1. Quiet(m) /\ UNCHANGED <<table, flags, call>> /\ (Fault \/ NoFault)
    BY <1>3 DEF unlink
  <2>2. Removed(n) \/ UNCHANGED docs
    BY <1>3 DEF unlink, Perhaps
  <2>3. \A i \in Ids : docs'[i] # NoDoc => docs'[i] = docs[i]
    BY <2>2, RemovedDocs
  <2> QED
    BY <2>1, <2>3, QuietAlone DEF Quiet
<1>4. ASSUME NEW n \in Names, NEW v \in Attrs, create(m, n, v)
      PROVE  Alone(m)' /\ LosesOne(m)
  <2> DEFINE c2 == [Call("create.store", "rw", n, 0, 0, 0) EXCEPT !.meta = v]
  <2>1. c2.at = "create.store"
    BY DEF Call
  <2>2. call' = [call EXCEPT ![m] = c2]
    BY <1>4 DEF create
  <2> HIDE DEF c2
  <2>3. call'[m] = c2
    BY <2>2, CallOfOne
  <2>4. Quiet(m) /\ UNCHANGED <<docs, table, flags>> /\ NoFault
    BY <1>4 DEF create, NoFault
  <2> QED
    BY <2>1, <2>3, <2>4, QuietAlone
<1>5. ASSUME NEW n \in Names, NEW v \in Attrs, chmod(m, n, v)
      PROVE  Alone(m)' /\ LosesOne(m)
  <2>1. Quiet(m) /\ UNCHANGED <<table, flags, call>> /\ (Fault \/ NoFault)
    BY <1>5 DEF chmod
  <2>2. PICK i \in Named(n) :
          \/ docs' = IF docs[i].meta = NoMeta THEN docs ELSE [docs EXCEPT ![i].meta = v]
          \/ UNCHANGED docs
    BY <1>5 DEF chmod, Perhaps
  <2>3. i \in Ids /\ docs[i] # NoDoc
    BY DocIsThere DEF Named
  <2>4. \A j \in Ids : /\ (docs'[j] = NoDoc) <=> (docs[j] = NoDoc)
                       /\ docs'[j].meta = NoMeta => docs[j].meta = NoMeta
    BY <2>2, <2>3, ChmodDocs
  <2> QED
    BY <2>1, <2>4, QuietAlone DEF Quiet
<1>6. ASSUME NEW h \in Handles, flush(m, h)
      PROVE  Alone(m)' /\ LosesOne(m)
  <2> DEFINE c2 == Call("flush.find", "flush", table[m][h], h, 0, 1)
  <2>1. c2.at = "flush.find" /\ c2.for = "flush"
    BY DEF Call
  <2>2. call' = [call EXCEPT ![m] = c2]
    BY <1>6 DEF flush
  <2> HIDE DEF c2
  <2>3. call'[m] = c2
    BY <2>2, CallOfOne
  <2>4. Quiet(m) /\ UNCHANGED <<docs, table, flags>> /\ NoFault
    BY <1>6 DEF flush, NoFault
  <2> QED
    BY <2>1, <2>3, <2>4, QuietAlone
<1>7. ASSUME NEW h \in Handles, release(m, h)
      PROVE  Alone(m)' /\ LosesOne(m)
  <2> DEFINE c2 == Call("flush.find", "release", table[m][h], h, 0, 3)
  <2>1. c2.at = "flush.find" /\ c2.for = "release"
    BY DEF Call
  <2>2. Quiet(m) /\ UNCHANGED docs /\ NoFault
    BY <1>7 DEF release, NoFault
  <2>3. CASE call' = [call EXCEPT ![m] = c2] /\ UNCHANGED local
    <3> HIDE DEF c2
    <3>1. call'[m] = c2
      BY <2>3, CallOfOne
    <3> QED
      BY <2>1, <2>2, <2>3, <3>1, QuietAlone DEF local
  <2>4. CASE /\ flags' = [flags EXCEPT ![m][h] = "none"]
             /\ table' = [table EXCEPT ![m] = Handle!WithoutHandle(@, h)]
             /\ UNCHANGED call
    <3>1. /\ table'[m] = [table[m] EXCEPT ![h] = NoName]
          /\ flags'[m] = [flags[m] EXCEPT ![h] = "none"]
      BY <2>4 DEF MountsOK, Handle!WithoutHandle
    <3>2. \A g \in Handles : \/ table'[m][g] = NoName
                             \/ table'[m][g] = table[m][g] /\ flags'[m][g] = flags[m][g]
      BY <3>1, MountOf
    <3> QED
      BY <2>2, <2>4, <3>2, QuietAlone DEF Quiet
  <2> QED
    BY <1>7, <2>3, <2>4 DEF release
<1>8. ASSUME NEW n \in Names, NEW to \in Names, rename(m, n, to)
      PROVE  Alone(m)' /\ LosesOne(m)
  <2>1. Quiet(m) /\ UNCHANGED <<table, flags, call>> /\ (Fault \/ NoFault)
    BY <1>8 DEF rename
  <2>2. PICK i \in Named(n) : docs' = [docs EXCEPT ![i].filename = to] \/ UNCHANGED docs
    BY <1>8 DEF rename, Perhaps
  <2>3. i \in Ids /\ docs[i] # NoDoc
    BY DocIsThere DEF Named
  <2>4. \A j \in Ids : docs'[j] # NoDoc /\ docs'[j].meta = NoMeta =>
                         docs[j] # NoDoc /\ docs[j].meta = NoMeta
    BY <2>2, <2>3, RenamedDocs
  <2> QED
    BY <2>1, <2>4, QuietAlone DEF Quiet
<1> QED
  BY <1>1, <1>2, <1>3, <1>4, <1>5, <1>6, <1>7, <1>8 DEF request, fsync, chown

LEMMA crashAlone ==
  ASSUME MountsOK, DocsOK, NEW m \in Mounts, crash(m)
  PROVE  Alone(m)' /\ LosesOne(m)
<1>1. call'[m] = Idle /\ faults' # 0
  BY FaultCounts DEF crash, Return, MountsOK
<1>2. Idle.at = "idle"
  BY DEF Idle
<1>3. Finds(call[m], buffers[m])'
  BY <1>1, <1>2, NothingFound
<1>4. Lost(m)' = {}
  BY DEF crash, Lost, MountsOK
<1> QED
  BY <1>1, <1>3, <1>4 DEF Alone, LosesOne

LEMMA FewMore ==
  ASSUME NEW S, NEW T, IsFiniteSet(S), NEW k \in Nat, NEW l \in Nat, Cardinality(S) <= k,
         \/ T \subseteq S /\ l >= k
         \/ (\E x : T \subseteq S \cup {x}) /\ l = k + 1
  PROVE  IsFiniteSet(T) /\ Cardinality(T) <= l
<1>1. CASE T \subseteq S /\ l >= k
  <2>1. IsFiniteSet(T) /\ Cardinality(T) <= Cardinality(S)
    BY <1>1, FS_Subset
  <2>2. Cardinality(S) \in Nat /\ Cardinality(T) \in Nat
    BY <2>1, FS_CardinalityType
  <2> QED
    BY <1>1, <2>1, <2>2
<1>2. ASSUME NEW x, T \subseteq S \cup {x}, l = k + 1
      PROVE  IsFiniteSet(T) /\ Cardinality(T) <= l
  <2>1. /\ IsFiniteSet(S \cup {x})
        /\ Cardinality(S \cup {x}) = IF x \in S THEN Cardinality(S) ELSE Cardinality(S) + 1
    BY FS_AddElement
  <2>2. IsFiniteSet(T) /\ Cardinality(T) <= Cardinality(S \cup {x})
    BY <1>2, <2>1, FS_Subset
  <2>3. Cardinality(S) \in Nat /\ Cardinality(T) \in Nat
    BY <2>2, FS_CardinalityType
  <2> QED
    BY <1>2, <2>1, <2>2, <2>3
<1> QED
  BY <1>1, <1>2

LEMMA NextAlone ==
  ASSUME OneMount, OneInv, NEW m \in Mounts, handler(m) \/ request(m) \/ crash(m), Watch(m)
  PROVE  OneInv'
<1>1. IInv /\ MountsOK /\ DocsOK /\ Alone(m) /\ Few(m) /\ "race" \notin excused
  BY DEF OneInv, IInv
<1>2. IInv'
  BY <1>1, NextKeeps
<1>3. Mounts = {m}
  BY DEF OneMount
<1>4. "race" \notin excused'
  <2>1. ~Race(m)
    BY <1>3 DEF Race
  <2>2. excused' \subseteq excused \cup {"onto"}
    BY <2>1, Zenon DEF Watch
  <2> QED
    BY <1>1, <2>2
<1>5. Alone(m)' /\ LosesOne(m)
  BY <1>1, flushFindAlone, flushRemoveAlone, flushStoreAlone, flushUpdateAlone,
     openFindAlone, openLoadAlone, openChunksAlone, createStoreAlone, createUpdateAlone,
     requestAlone, crashAlone DEF handler
<1>6. Few(m)'
  <2>1. StepOK(m)
    BY <1>1, handlerStep, requestStep, crashStep
  <2>2. faults \in Nat /\ faults' \in Nat /\ faults' >= faults
    BY <1>1, <1>2, <2>1, MGridFSAssumption DEF StepOK, DocsOK
  <2>3. Fault => faults' = faults + 1
    BY DEF Fault
  <2>4. PICK l, T : l \in Nat /\ l = faults' /\ T = Lost(m)'
    BY <2>2
  <2>5. IsFiniteSet(T) /\ Cardinality(T) <= l
    BY <1>1, <1>5, <2>2, <2>3, <2>4, FewMore DEF Few, LosesOne
  <2> QED
    BY <2>4, <2>5 DEF Few
<1> QED
  BY <1>2, <1>3, <1>4, <1>5, <1>6 DEF OneInv

LEMMA InitAlone == Init => OneInv
<1> SUFFICES ASSUME Init
             PROVE  OneInv
  OBVIOUS
<1>1. IInv /\ "race" \notin excused
  BY InitKeeps DEF Init
<1>2. ASSUME NEW m \in Mounts
      PROVE  Alone(m) /\ Few(m)
  <2>1. /\ call[m] = Idle /\ Idle.at = "idle"
        /\ \A h \in Handles : table[m][h] = NoName
    BY DEF Init, Idle
  <2>2. \A i \in Ids : docs[i] # NoDoc => docs[i].meta # NoMeta
    <3>1. PICK i \in Ids, n \in Names, d \in Data, v \in Attrs :
            docs = [j \in Ids |-> IF j = i THEN [filename |-> n, data |-> d, meta |-> v]
                                           ELSE NoDoc]
      BY DEF Init
    <3> QED
      BY <3>1, MGridFSAssumption
  <2>3. Lost(m) = {}
    BY <2>1 DEF Lost
  <2>4. Few(m)
    BY <2>3, FS_EmptySet DEF Few, Init
  <2> QED
    BY <2>1, <2>2, <2>4 DEF Alone, Finds, Clears, Completes, Flushing
<1> QED
  BY <1>1, <1>2 DEF OneInv

LEMMA StutterAlone ==
  ASSUME OneInv, UNCHANGED vars
  PROVE  OneInv'
<1>1. IInv'
  BY StutterKeeps DEF OneInv
<1> QED
  BY <1>1 DEF OneInv, vars, Alone, Few, Lost, Finds, Clears, Completes, Named

(* The invariant of a single mount. *)
LEMMA OneMountInductive ==
  ASSUME OneMount
  PROVE  Spec => []OneInv
<1>1. Init => OneInv
  BY InitAlone
<1>2. OneInv /\ [Next]_vars => OneInv'
  BY NextAlone, StutterAlone DEF Next
<1> QED
  BY <1>1, <1>2, PTL DEF Spec

(* A single mount: its handle table holds the open files and no more        *)
(* entries besides than calls of the database have failed.                  *)
THEOREM HandlesAreOpenFiles ==
  ASSUME OneMount
  PROVE  Spec => []HandlesMatch
<1>1. OneInv => HandlesMatch
  <2> SUFFICES ASSUME OneInv, NEW m \in Mounts
               PROVE  /\ \A h \in Handles : flags[m][h] # "none" => table[m][h] # NoName
                      /\ Quiet(m) => Cardinality(Leaked(m)) <= faults
    BY DEF HandlesMatch
  <2>1. MountOK(table[m], flags[m], buffers[m], call[m]) /\ Few(m)
    BY MountOf DEF OneInv, IInv
  <2>2. \A h \in Handles : flags[m][h] # "none" => table[m][h] # NoName
    BY <2>1 DEF MountOK, Owned
  <2>3. Quiet(m) => Leaked(m) = Lost(m)
    BY DEF Leaked, Lost, Quiet, Opening
  <2> QED
    BY <2>1, <2>2, <2>3 DEF Few
<1> QED
  BY <1>1, OneMountInductive, PTL

(* A single mount: no name has two documents, through flushes that fail     *)
(* half way and are tried again, and through crashes, until a file is       *)
(* renamed onto another.                                                    *)
THEOREM NamesAreUnique ==
  ASSUME OneMount
  PROVE  Spec => []UniqueNames
<1>1. OneInv => UniqueNames
  <2> SUFFICES ASSUME OneInv, "onto" \notin excused, NEW n \in Names
               PROVE  Cardinality(Named(n)) <= 1
    BY DEF UniqueNames
  <2>1. CASE Named(n) = {}
    BY <2>1, FS_EmptySet
  <2>2. ASSUME NEW i \in Named(n)
        PROVE  Cardinality(Named(n)) <= 1
    <3>1. excused = {}
      BY DEF OneInv, IInv, DocsOK
    <3>2. DocsOK /\ Unique
      BY <3>1 DEF OneInv, IInv, Kept
    <3>3. \A j \in Named(n) : docs[j] # NoDoc
      BY <3>2, DocIsThere DEF Named
    <3>4. Named(n) = {i}
      BY <2>2, <3>2, <3>3 DEF Unique, Named
    <3>5. Cardinality({i}) = 1
      BY FS_Singleton
    <3> QED
      BY <3>4, <3>5
  <2> QED
    BY <2>1, <2>2
<1> QED
  BY <1>1, OneMountInductive, PTL

(* A single mount: between handlers every document has its owner and mode,  *)
(* as long as no call of the database has failed.                           *)
THEOREM DocumentsHaveMetadata ==
  ASSUME OneMount
  PROVE  Spec => []MetadataComplete
<1>1. OneInv => MetadataComplete
  BY DEF OneMount, OneInv, Alone, Completes, MetadataComplete, Quiet
<1> QED
  BY <1>1, OneMountInductive, PTL

----------------------------------------------------------------------------
(* What a step leaves alone of a name k, seen from mount m. *)
SameDocsOf(k) ==
  \A i \in Ids : /\ docs'[i].filename = k <=> docs[i].filename = k
                 /\ docs[i].filename = k => docs'[i].data = docs[i].data

SameName(m, k) ==
  /\ buffers'[m][k] = buffers[m][k]
  /\ Loading(m, k)' <=> Loading(m, k)
  /\ Storing(m, k) => Storing(m, k)'
  /\ SameDocsOf(k)

(* What a step may do to the file of a name n: nothing, what a user asked   *)
(* for, or what a failing call does.                                        *)
Keeps(m, n) == Held(m, n)' = Held(m, n) /\ (buffers'[m][n].dirty <=> buffers[m][n].dirty)
Saves(m, n) == Held(m, n)' = Held(m, n) /\ ~buffers'[m][n].dirty
Writes(m, n) == /\ Held(m, n) # NoName /\ Held(m, n)' \in Data \cup {Empty}
                /\ buffers'[m][n].dirty
Spoils(m, n) == /\ Held(m, n) # NoName /\ Held(m, n)' = Garbage
                /\ ~buffers[m][n].dirty /\ buffers'[m][n].dirty
                /\ faults' # 0
Creates(m, n) == /\ Held(m, n) = NoName /\ Held(m, n)' = Empty
                 /\ buffers'[m][n].dirty <=> buffers[m][n].dirty
Removes(m, n) == /\ Held(m, n) # NoName /\ Held(m, n)' = NoName
                 /\ ~buffers[m][n].dirty /\ ~buffers'[m][n].dirty
Loses(m, n) == buffers[m][n].dirty /\ faults' # 0

(* No name has two documents, as no file has been renamed onto another.     *)
Single == excused = {} /\ Unique /\ Unique'

FileStep(m, n) ==
  /\ CleanName(m, n)'
  /\ Single => \/ Keeps(m, n) \/ Saves(m, n) \/ Writes(m, n) \/ Spoils(m, n)
               \/ Creates(m, n) \/ Removes(m, n) \/ Loses(m, n)

(* The document of a name that has one. *)
LEMMA ChosenDoc ==
  ASSUME NEW D, NEW k, NEW i \in Ids, D[i].filename = k,
         \A j \in Ids : D[j].filename = k => j = i
  PROVE  /\ {j \in Ids : D[j].filename = k} # {}
         /\ (CHOOSE j \in {j \in Ids : D[j].filename = k} : TRUE) = i
<1>1. {j \in Ids : D[j].filename = k} = {i}
  OBVIOUS
<1> QED
  BY <1>1

LEMMA HeldNow ==
  ASSUME Unique, NEW m, NEW k \in Names
  PROVE  /\ InMemory(m, k) => Held(m, k) = buffers[m][k].data
         /\ \A i \in Ids : ~InMemory(m, k) /\ docs[i].filename = k => Held(m, k) = docs[i].data
         /\ ~InMemory(m, k) /\ Named(k) = {} => Held(m, k) = NoName
<1>1. ASSUME NEW i \in Ids, ~InMemory(m, k), docs[i].filename = k
      PROVE  Held(m, k) = docs[i].data
  <2>1. \A j \in Ids : docs[j].filename = k => j = i
    BY <1>1, NoDocFields DEF Unique
  <2>2. Named(k) # {} /\ (CHOOSE j \in Named(k) : TRUE) = i
    BY <1>1, <2>1, ChosenDoc DEF Named
  <2> QED
    BY <1>1, <2>2 DEF Held
<1> QED
  BY <1>1 DEF Held

LEMMA HeldNext ==
  ASSUME Unique', NEW m, NEW k \in Names
  PROVE  /\ InMemory(m, k)' => Held(m, k)' = buffers'[m][k].data
         /\ \A i \in Ids : ~InMemory(m, k)' /\ docs'[i].filename = k => Held(m, k)' = docs'[i].data
         /\ ~InMemory(m, k)' /\ (\A i \in Ids : docs'[i].filename # k) => Held(m, k)' = NoName
<1>1. ASSUME NEW i \in Ids, ~InMemory(m, k)', docs'[i].filename = k
      PROVE  Held(m, k)' = docs'[i].data
  <2>1. \A j \in Ids : docs'[j].filename = k => j = i
    BY <1>1, NoDocFields DEF Unique
  <2>2. Named(k)' # {} /\ (CHOOSE j \in Named(k)' : TRUE) = i
    BY <1>1, <2>1, ChosenDoc DEF Named
  <2> QED
    BY <1>1, <2>2 DEF Held
<1>2. (\A i \in Ids : docs'[i].filename # k) => Named(k)' = {}
  BY DEF Named
<1> QED
  BY <1>1, <1>2 DEF Held

(* A name that is left alone. *)
LEMMA SameNameStep ==
  ASSUME NEW m \in Mounts, NEW k \in Names, CleanName(m, k), SameName(m, k),
         faults' = 0 => faults = 0
  PROVE  CleanName(m, k)' /\ Keeps(m, k)
<1>1. Named(k)' = Named(k) /\ \A i \in Named(k) : docs'[i].data = docs[i].data
  BY DEF SameName, SameDocsOf, Named
<1>2. CleanName(m, k)'
  BY <1>1 DEF CleanName, SameName
<1>3. Held(m, k)' = Held(m, k)
  <2>1. InMemory(m, k)' <=> InMemory(m, k)
    BY DEF InMemory, SameName
  <2>2. CASE InMemory(m, k)
    BY <2>1, <2>2 DEF Held, SameName
  <2>3. CASE ~InMemory(m, k) /\ Named(k) = {}
    BY <1>1, <2>1, <2>3 DEF Held
  <2>4. CASE ~InMemory(m, k) /\ Named(k) # {}
    <3>1. (CHOOSE i \in Named(k) : TRUE) \in Named(k)
      BY <2>4
    <3>2. (CHOOSE i \in Named(k)' : TRUE) = (CHOOSE i \in Named(k) : TRUE)
      BY <1>1
    <3> QED
      BY <1>1, <2>1, <2>4, <3>1, <3>2 DEF Held
  <2> QED
    BY <2>2, <2>3, <2>4
<1> QED
  BY <1>2, <1>3 DEF Keeps, SameName

(* A name that the handler of m is not for. *)
LEMMA OtherName ==
  ASSUME NEW m \in Mounts, NEW k \in Names, k # call[m].name,
         \/ call'[m].name = call[m].name
         \/ call'[m].at \notin {"open.load", "open.chunks"},
         buffers'[m][k] = buffers[m][k], SameDocsOf(k)
  PROVE  SameName(m, k)
BY DEF SameName, Loading, Storing

(* What the calls of the database do to the documents of other names. *)
LEMMA SameDocsSame ==
  ASSUME UNCHANGED docs, NEW k
  PROVE  SameDocsOf(k)
BY DEF SameDocsOf

LEMMA RemovedSame ==
  ASSUME DocsOK, NEW n \in Names, Removed(n), NEW k \in Names, k # n
  PROVE  SameDocsOf(k)
BY RemovedDocs, NoDocFields DEF SameDocsOf

LEMMA StoredSame ==
  ASSUME DocsOK, NEW i \in Fresh, NEW n \in Names, NEW d \in Content, Stored(i, n, d),
         NEW k \in Names, k # n
  PROVE  SameDocsOf(k)
<1>1. i \in Ids /\ docs[i] = NoDoc
  BY DEF Fresh
<1> QED
  BY <1>1, StoredDocs, NoDocFields DEF SameDocsOf

LEMMA UpdatedSame ==
  ASSUME DocsOK, NEW i \in Ids, NEW v \in Attrs, Updated(i, v), NEW k
  PROVE  SameDocsOf(k)
BY UpdatedDocs DEF SameDocsOf

(* What a file in memory holds is a content. *)
LEMMA MemoryContent ==
  ASSUME MountsOK, NEW m \in Mounts, NEW n \in Names
  PROVE  buffers[m][n].data \in Content
<1>1. buffers[m][n] \in File \cup {NoBuffer}
  BY MountOf
<1>2. NoBuffer.data \in Content
  BY NoBufferFields DEF Content
<1>3. \A x \in File : x.data \in Content
  BY DEF File
<1> QED
  BY <1>1, <1>2, <1>3

LEMMA ContentIsThere == NoName \notin Content
BY MGridFSAssumption DEF Content

----------------------------------------------------------------------------
(* The end of a flush: it has saved the file, or a call has failed. *)
LEMMA FlushEndsFile ==
  ASSUME MountsOK, NEW m \in Mounts, call[m].at \in Flushing,
         NEW n \in Names, call[m].name = n,
         NEW ok \in BOOLEAN, FlushEnds(m, ok),
         ok => \E i \in Ids : docs'[i].filename = n /\ docs'[i].data = buffers[m][n].data,
         ~ok => faults' # 0
  PROVE  /\ FileStep(m, n)
         /\ \A k \in Names \ {n} : SameDocsOf(k) => SameName(m, k)
<1> DEFINE c == call[m]
           x == buffers[m][n]
<1>0. x.there /\ x.dirty /\ c.at \notin {"open.load", "open.chunks"}
  BY FlushingFile DEF Flushing
<1>1. InMemory(m, n) /\ (Single => Held(m, n) = x.data)
  BY <1>0, HeldNow DEF InMemory, Loading, Single
<1>2. Idle.at = "idle"
  BY DEF Idle
<1>3. call'[m].at \notin {"open.load", "open.chunks"}
  BY <1>2, FlushEndsCases
<1>4. ~Loading(m, n)'
  BY <1>3 DEF Loading
<1>5. \A k \in Names \ {n} : SameDocsOf(k) => SameName(m, k)
  BY <1>3, FlushEndsCases, OtherName
<1>6. CASE /\ buffers'[m][n].there /\ buffers'[m][n].data = x.data
           /\ (ok => ~buffers'[m][n].dirty) /\ (~ok => buffers'[m][n].dirty)
  <2>1. Single => Held(m, n)' = x.data
    <3>1. InMemory(m, n)'
      BY <1>4, <1>6 DEF InMemory
    <3> QED
      BY <1>0, <1>6, <3>1, HeldNext DEF Single
  <2> QED
    BY <1>0, <1>1, <1>5, <1>6, <2>1 DEF FileStep, Saves, Keeps, CleanName, Named
<1>7. CASE ~ok /\ UNCHANGED local /\ call'[m].name = n
  BY <1>0, <1>1, <1>5, <1>7 DEF FileStep, Loses, CleanName, local
<1>8. CASE buffers'[m][n] = NoBuffer
  <2>1. ~buffers'[m][n].there /\ ~buffers'[m][n].dirty
    BY <1>8, NoBufferFields
  <2>2. ok /\ Single => Held(m, n)' = x.data
    BY <1>0, <2>1, HeldNext DEF InMemory, Single
  <2> QED
    BY <1>0, <1>1, <1>5, <2>1, <2>2 DEF FileStep, Saves, Loses, CleanName
<1> QED
  BY <1>6, <1>7, <1>8, FlushEndsCases

----------------------------------------------------------------------------
(* A step that is about one file. *)
OneFile(m, n) == FileStep(m, n) /\ \A k \in Names \ {n} : SameName(m, k)

Viewed(m) == (\A k \in Names : SameName(m, k)) \/ \E n \in Names : OneFile(m, n)

Steady(m) ==
  /\ OneInv /\ OneInv' /\ \A n \in Names : CleanName(m, n)
  /\ faults' = 0 => faults = 0

LEMMA SteadyMount ==
  ASSUME NEW m \in Mounts, Steady(m)
  PROVE  MountsOK /\ DocsOK /\ Alone(m) /\ MountsOK' /\ DocsOK'
BY DEF Steady, OneInv, IInv

LEMMA FaultIsSeen ==
  ASSUME DocsOK, Fault
  PROVE  faults' # 0
BY FaultCounts

LEMMA flushFindView ==
  ASSUME NEW m \in Mounts, Steady(m), flushFind(m)
  PROVE  Viewed(m)
<1>0. /\ MountsOK /\ DocsOK /\ call[m].at = "flush.find" /\ UNCHANGED docs
      /\ call[m] \in CallType
  BY SteadyMount, MountOf DEF flushFind
<1>1. PICK n \in Names : call[m].name = n
  BY <1>0, MountOf
<1>2. \A k : SameDocsOf(k)
  BY <1>0, SameDocsSame
<1>3. CASE FlushEnds(m, FALSE)
  <2>1. faults' # 0
    <3>1. CASE Fault
      BY <1>0, <3>1, FaultIsSeen
    <3>2. CASE Named(n) = {}
      BY <1>0, <1>1, <3>2, FlushingFile DEF Steady, CleanName, Storing, Flushing
    <3>3. CASE \E i \in Named(n) : call' = [call EXCEPT ![m].at = "flush.remove", ![m].meta = docs[i].meta]
      <4>1. call'[m].at = "flush.remove"
        BY <1>0, <3>3 DEF MountsOK, CallType
      <4>2. call'[m].at \in {"idle", "flush.find"}
        BY <1>0, <1>3, FlushEndsCall
      <4> QED
        BY <4>1, <4>2
    <3> QED
      BY <1>1, <3>1, <3>2, <3>3 DEF flushFind
  <2>2. OneFile(m, n)
    BY <1>0, <1>1, <1>2, <1>3, <2>1, FlushEndsFile DEF OneFile, Flushing
  <2> QED
    BY <2>2 DEF Viewed
<1>4. ASSUME NEW i \in Named(n), UNCHANGED local,
             call' = [call EXCEPT ![m].at = "flush.remove", ![m].meta = docs[i].meta]
      PROVE  Viewed(m)
  <2>1. call'[m].at = "flush.remove" /\ call'[m].name = n
    BY <1>0, <1>1, <1>4 DEF MountsOK, CallType
  <2> QED
    BY <1>0, <1>2, <1>4, <2>1 DEF Viewed, SameName, Loading, Storing, local
<1> QED
  BY <1>1, <1>3, <1>4 DEF flushFind

LEMMA flushRemoveView ==
  ASSUME NEW m \in Mounts, Steady(m), flushRemove(m)
  PROVE  Viewed(m)
<1>0. /\ MountsOK /\ DocsOK /\ call[m].at = "flush.remove"
      /\ call[m] \in CallType
  BY SteadyMount, MountOf DEF flushRemove
<1>1. PICK n \in Names : call[m].name = n
  BY <1>0, MountOf
<1>2. \A k \in Names \ {n} : SameDocsOf(k)
  BY <1>0, <1>1, RemovedSame, SameDocsSame DEF flushRemove, Perhaps
<1>3. CASE FlushEnds(m, FALSE) /\ Fault
  <2>1. OneFile(m, n)
    BY <1>0, <1>1, <1>2, <1>3, FaultIsSeen, FlushEndsFile DEF OneFile, Flushing
  <2> QED
    BY <2>1 DEF Viewed
<1>4. CASE Goto(m, "flush.store") /\ NoFault /\ UNCHANGED local
  <2>1. call'[m].at = "flush.store" /\ call'[m].name = n
    BY <1>0, <1>1, <1>4 DEF Goto, MountsOK, CallType
  <2>2. \A k \in Names \ {n} : SameName(m, k)
    BY <1>0, <1>1, <1>2, <1>4, <2>1, OtherName DEF local
  <2>3. InMemory(m, n) /\ InMemory(m, n)'
    BY <1>0, <1>1, <1>4, <2>1, FlushingFile DEF InMemory, Loading, local, Flushing
  <2>4. Single => Keeps(m, n)
    BY <1>0, <1>4, <2>3, HeldNow, HeldNext DEF Keeps, local, Single
  <2>5. CleanName(m, n)'
    BY <1>0, <1>1, <1>4, <2>1, FlushingFile DEF CleanName, Storing, local, Flushing
  <2> QED
    BY <2>2, <2>4, <2>5 DEF Viewed, OneFile, FileStep
<1> QED
  BY <1>3, <1>4 DEF flushRemove

LEMMA flushStoreView ==
  ASSUME NEW m \in Mounts, Steady(m), flushStore(m)
  PROVE  Viewed(m)
<1>0. /\ MountsOK /\ DocsOK /\ call[m].at = "flush.store"
      /\ call[m] \in CallType
  BY SteadyMount, MountOf DEF flushStore
<1>1. PICK n \in Names : call[m].name = n
  BY <1>0, MountOf
<1> DEFINE d == buffers[m][n].data
<1>2. d \in Content
  BY <1>0, MemoryContent
<1>3. PICK i \in Fresh :
        \/ /\ Stored(i, n, d)
           /\ call' = [call EXCEPT ![m].at = "flush.update", ![m].id = i]
           /\ NoFault /\ UNCHANGED local
        \/ Perhaps(Stored(i, n, d)) /\ Fault /\ FlushEnds(m, FALSE)
  BY <1>1 DEF flushStore
<1> HIDE DEF d
<1>4. \A k \in Names \ {n} : SameDocsOf(k)
  BY <1>0, <1>2, <1>3, StoredSame, SameDocsSame DEF Perhaps
<1>5. CASE FlushEnds(m, FALSE) /\ Fault
  <2>1. OneFile(m, n)
    BY <1>0, <1>1, <1>4, <1>5, FaultIsSeen, FlushEndsFile DEF OneFile, Flushing
  <2> QED
    BY <2>1 DEF Viewed
<1>6. CASE /\ Stored(i, n, d)
           /\ call' = [call EXCEPT ![m].at = "flush.update", ![m].id = i]
           /\ NoFault /\ UNCHANGED local
  <2>1. call'[m].at = "flush.update" /\ call'[m].name = n
    BY <1>0, <1>1, <1>6 DEF MountsOK, CallType
  <2>2. \A k \in Names \ {n} : SameName(m, k)
    BY <1>0, <1>1, <1>4, <1>6, <2>1, OtherName DEF local
  <2>3. InMemory(m, n) /\ InMemory(m, n)'
    BY <1>0, <1>1, <1>6, <2>1, FlushingFile DEF InMemory, Loading, local, Flushing
  <2>4. Single => Keeps(m, n)
    BY <1>0, <1>6, <2>3, HeldNow, HeldNext DEF Keeps, local, Single
  <2>5. i \in Ids /\ docs'[i].filename = n
    BY <1>0, <1>2, <1>6, StoredDocs DEF Fresh
  <2>6. CleanName(m, n)'
    BY <1>0, <1>1, <1>6, <2>1, <2>5, FlushingFile DEF CleanName, Named, local, Flushing
  <2> QED
    BY <2>2, <2>4, <2>6 DEF Viewed, OneFile, FileStep
<1> QED
  BY <1>3, <1>5, <1>6

LEMMA flushUpdateView ==
  ASSUME NEW m \in Mounts, Steady(m), flushUpdate(m)
  PROVE  Viewed(m)
<1> DEFINE c == call[m]
<1>0. /\ MountsOK /\ DocsOK /\ c.at = "flush.update"
      /\ c \in CallType /\ c.id \in Ids /\ Alone(m)
  BY SteadyMount, MountOf DEF flushUpdate, MountOK, InHandler
<1>1. PICK n \in Names : c.name = n
  BY <1>0, MountOf
<1>2. UNCHANGED docs \/ (Updated(c.id, c.meta) /\ c.meta \in Attrs)
  BY <1>0 DEF flushUpdate, Perhaps, CallType
<1>3. \A k \in Names : SameDocsOf(k)
  BY <1>0, <1>2, UpdatedSame, SameDocsSame
<1>4. docs[c.id].filename = n /\ docs[c.id].data = buffers[m][n].data
  BY <1>0, <1>1 DEF Alone, Finds
<1>5. docs'[c.id].filename = n /\ docs'[c.id].data = buffers[m][n].data
  BY <1>0, <1>3, <1>4 DEF SameDocsOf
<1>6. FlushEnds(m, TRUE) \/ (FlushEnds(m, FALSE) /\ faults' # 0)
  <2>1. CASE c.meta = NoMeta
    BY <1>0, <2>1 DEF flushUpdate, Alone, Clears, Steady
  <2>2. CASE c.meta # NoMeta
    BY <1>0, <2>2, FaultIsSeen DEF flushUpdate
  <2> QED
    BY <2>1, <2>2
<1>7. OneFile(m, n)
  BY <1>0, <1>1, <1>3, <1>5, <1>6, FlushEndsFile DEF OneFile, Flushing
<1> QED
  BY <1>7 DEF Viewed

----------------------------------------------------------------------------
(* A file that memory does not show before or after. *)
LEMMA HeldOutside ==
  ASSUME Unique, Unique', NEW m, NEW n \in Names, ~InMemory(m, n), ~InMemory(m, n)', SameDocsOf(n)
  PROVE  Held(m, n)' = Held(m, n)
<1>1. CASE Named(n) = {}
  <2>1. \A i \in Ids : docs'[i].filename # n
    BY <1>1 DEF Named, SameDocsOf
  <2> QED
    BY <1>1, <2>1, HeldNow, HeldNext
<1>2. ASSUME NEW i \in Ids, docs[i].filename = n
      PROVE  Held(m, n)' = Held(m, n)
  <2>1. docs'[i].filename = n /\ docs'[i].data = docs[i].data
    BY <1>2 DEF SameDocsOf
  <2> QED
    BY <1>2, <2>1, HeldNow, HeldNext
<1> QED
  BY <1>1, <1>2 DEF Named

(* A step in which a mount touches neither its files in memory nor GridFS,  *)
(* and loads or stores no file.                                             *)
LEMMA SameFiles ==
  ASSUME NEW m \in Mounts, \A k \in Names : SameDocsOf(k), buffers'[m] = buffers[m],
         call[m].at \notin {"open.load", "open.chunks", "flush.store"},
         call'[m].at \notin {"open.load", "open.chunks"}
  PROVE  Viewed(m)
BY DEF Viewed, SameName, Loading, Storing

LEMMA NotThere ==
  ASSUME MountsOK, NEW m \in Mounts, NEW n \in Names, ~buffers[m][n].there
  PROVE  buffers[m][n] = NoBuffer /\ ~buffers[m][n].dirty
<1>1. buffers[m][n] \in File \cup {NoBuffer}
  BY MountOf
<1>2. buffers[m][n] \notin File
  BY ThereIsFile, <1>1 DEF File
<1> QED
  BY <1>1, <1>2, NoBufferFields

LEMMA openFindView ==
  ASSUME NEW m \in Mounts, Steady(m), openFind(m)
  PROVE  Viewed(m)
<1>0. /\ MountsOK /\ DocsOK /\ call[m].at = "open.find" /\ UNCHANGED docs
      /\ call[m] \in CallType
  BY SteadyMount, MountOf DEF openFind
<1>1. PICK n \in Names : call[m].name = n
  BY <1>0, MountOf
<1>2. \A k : SameDocsOf(k)
  BY <1>0, SameDocsSame
<1>3. Idle.at = "idle"
  BY DEF Idle
<1>4. CASE Return(m) /\ UNCHANGED buffers
  <2>1. call'[m] = Idle
    BY <1>0, <1>4 DEF Return, MountsOK
  <2> QED
    BY <1>0, <1>2, <1>3, <1>4, <2>1, SameFiles
<1>5. CASE /\ Named(n) # {}
           /\ buffers' = [buffers EXCEPT ![m][n] = [data |-> Empty, dirty |-> FALSE, there |-> TRUE]]
           /\ Goto(m, "open.load")
  <2>1. call'[m].at = "open.load" /\ call'[m].name = n
    BY <1>0, <1>1, <1>5 DEF Goto, MountsOK, CallType
  <2>2. /\ buffers'[m][n] = [data |-> Empty, dirty |-> FALSE, there |-> TRUE]
        /\ \A k \in Names \ {n} : buffers'[m][k] = buffers[m][k]
    BY <1>0, <1>5, MountOf DEF MountsOK
  <2>3. ~buffers'[m][n].dirty
    BY <2>2
  <2>4. ~buffers[m][n].there
    BY <1>0, <1>1, OpeningFile DEF Opening
  <2>5. ~buffers[m][n].dirty
    BY <1>0, <2>4, NotThere
  <2>6. Loading(m, n)'
    BY <2>1 DEF Loading
  <2>7. Single => Keeps(m, n)
    BY <1>0, <1>2, <2>3, <2>4, <2>5, <2>6, HeldOutside DEF Keeps, InMemory, Single
  <2>8. CleanName(m, n)'
    BY <1>0, <1>5, <2>6 DEF CleanName, Named
  <2>9. \A k \in Names \ {n} : SameName(m, k)
    BY <1>1, <1>2, <2>1, <2>2, OtherName
  <2> QED
    BY <2>7, <2>8, <2>9 DEF Viewed, OneFile, FileStep
<1> QED
  BY <1>1, <1>4, <1>5 DEF openFind

LEMMA openLoadView ==
  ASSUME NEW m \in Mounts, Steady(m), openLoad(m)
  PROVE  Viewed(m)
<1>0. /\ MountsOK /\ DocsOK /\ call[m].at = "open.load" /\ UNCHANGED docs
      /\ call[m] \in CallType
  BY SteadyMount, MountOf DEF openLoad
<1>1. PICK n \in Names : call[m].name = n
  BY <1>0, MountOf
<1>2. \A k : SameDocsOf(k)
  BY <1>0, SameDocsSame
<1>3. ASSUME NEW i \in Named(n), call' = [call EXCEPT ![m].at = "open.chunks", ![m].id = i],
             UNCHANGED buffers
      PROVE  Viewed(m)
  <2>1. call'[m].at = "open.chunks" /\ call'[m].name = n
    BY <1>0, <1>1, <1>3 DEF MountsOK, CallType
  <2> QED
    BY <1>0, <1>1, <1>2, <1>3, <2>1 DEF Viewed, SameName, Loading, Storing
<1>4. CASE buffers' = [buffers EXCEPT ![m][n] = NoBuffer] /\ Return(m)
  <2>1. call'[m] = Idle /\ Idle.at = "idle"
    BY <1>0, <1>4 DEF Return, MountsOK, Idle
  <2>2. /\ buffers'[m][n] = NoBuffer
        /\ \A k \in Names \ {n} : buffers'[m][k] = buffers[m][k]
    BY <1>0, <1>4, MountOf DEF MountsOK
  <2>3. ~buffers'[m][n].there /\ ~buffers'[m][n].dirty
    BY <2>2, NoBufferFields
  <2>4. ~buffers[m][n].dirty /\ Loading(m, n)
    BY <1>0, <1>1, OpeningFile DEF Opening, Loading
  <2>5. Single => Keeps(m, n)
    BY <1>0, <1>2, <2>3, <2>4, HeldOutside DEF Keeps, InMemory, Single
  <2>6. CleanName(m, n)'
    BY <2>3 DEF CleanName
  <2>7. \A k \in Names \ {n} : SameName(m, k)
    BY <1>1, <1>2, <2>1, <2>2, OtherName
  <2> QED
    BY <2>5, <2>6, <2>7 DEF Viewed, OneFile, FileStep
<1> QED
  BY <1>1, <1>3, <1>4 DEF openLoad

LEMMA openChunksView ==
  ASSUME NEW m \in Mounts, Steady(m), openChunks(m)
  PROVE  Viewed(m)
<1> DEFINE c == call[m]
           find == Call("flush.find", "open", c.name, c.h, 0, 2)
<1>0. /\ MountsOK /\ DocsOK /\ c.at = "open.chunks" /\ UNCHANGED docs
      /\ c \in CallType /\ c.id \in Ids /\ Alone(m)
  BY SteadyMount, MountOf DEF openChunks, MountOK, InHandler
<1>1. PICK n \in Names : c.name = n
  BY <1>0, MountOf
<1>2. \A k : SameDocsOf(k)
  BY <1>0, SameDocsSame
<1>3. docs[c.id].filename = n /\ docs'[c.id].filename = n /\ docs'[c.id].data = docs[c.id].data
  BY <1>0, <1>1 DEF Alone, Finds
<1>4. /\ buffers[m][n].there /\ ~buffers[m][n].dirty /\ Loading(m, n) /\ buffers[m][n] \in File
      /\ c.h \in Handles
  BY <1>0, <1>1, OpeningFile DEF Opening, Loading
<1>5. Single => Held(m, n) = docs[c.id].data /\ Held(m, n) \in Content
  <2>1. Single => Held(m, n) = docs[c.id].data
    BY <1>0, <1>3, <1>4, HeldNow DEF InMemory, Single
  <2> QED
    BY <1>0, <2>1, DocIsThere
<1>6. Idle.at = "idle" /\ find.at = "flush.find"
  BY DEF Idle, Call
<1>7. CASE /\ buffers' = [buffers EXCEPT ![m][n].data = docs[c.id].data]
           /\ Return(m)
  <2> DEFINE x == [buffers[m][n] EXCEPT !.data = docs[c.id].data]
  <2>1. call'[m] = Idle
    BY <1>0, <1>7 DEF Return, MountsOK
  <2>2. /\ buffers'[m][n] = x
        /\ \A k \in Names \ {n} : buffers'[m][k] = buffers[m][k]
    BY <1>0, <1>7, MountOf DEF MountsOK
  <2>3. x.data = docs[c.id].data /\ x.there = buffers[m][n].there /\ x.dirty = buffers[m][n].dirty
    BY <1>4 DEF File
  <2> HIDE DEF x
  <2>4. x.there /\ ~x.dirty
    BY <1>4, <2>3, Zenon
  <2>5. InMemory(m, n)'
    BY <1>6, <2>1, <2>2, <2>4 DEF InMemory, Loading
  <2>6. Single => Keeps(m, n)
    BY <1>0, <1>4, <1>5, <2>2, <2>3, <2>4, <2>5, HeldNext DEF Keeps, Single
  <2>7. CleanName(m, n)'
    BY <1>0, <1>3, <2>2, <2>3 DEF CleanName, Named
  <2>8. \A k \in Names \ {n} : SameName(m, k)
    BY <1>1, <1>2, <1>6, <2>1, <2>2, OtherName
  <2> QED
    BY <2>6, <2>7, <2>8 DEF Viewed, OneFile, FileStep
<1>8. CASE /\ Fault
           /\ buffers' = [buffers EXCEPT ![m][n].data = Garbage, ![m][n].dirty = TRUE]
           /\ call' = [call EXCEPT ![m] = find]
  <2> DEFINE x == [buffers[m][n] EXCEPT !.data = Garbage, !.dirty = TRUE]
  <2> HIDE DEF find
  <2>1. call'[m] = find
    BY <1>8, CallOfOne, <1>0
  <2>2. /\ buffers'[m][n] = x
        /\ \A k \in Names \ {n} : buffers'[m][k] = buffers[m][k]
    BY <1>0, <1>8, MountOf DEF MountsOK
  <2>3. x.data = Garbage /\ x.there = buffers[m][n].there /\ x.dirty = TRUE
    BY <1>4 DEF File
  <2> HIDE DEF x
  <2>4. x.there /\ x.dirty
    BY <1>4, <2>3, Zenon
  <2>5. InMemory(m, n)'
    BY <1>6, <2>1, <2>2, <2>4 DEF InMemory, Loading
  <2>6. faults' # 0
    BY <1>0, <1>8, FaultIsSeen
  <2>7. Single => Spoils(m, n)
    BY <1>0, <1>4, <1>5, <2>2, <2>3, <2>4, <2>5, <2>6, HeldNext, ContentIsThere DEF Spoils, Single
  <2>8. CleanName(m, n)'
    BY <2>2, <2>4, <2>6 DEF CleanName
  <2>9. \A k \in Names \ {n} : SameName(m, k)
    BY <1>1, <1>2, <1>6, <2>1, <2>2, OtherName
  <2> QED
    BY <2>7, <2>8, <2>9 DEF Viewed, OneFile, FileStep
<1> QED
  BY <1>1, <1>3, <1>7, <1>8 DEF openChunks

LEMMA createStoreView ==
  ASSUME NEW m \in Mounts, Steady(m), createStore(m)
  PROVE  Viewed(m)
<1>0. /\ MountsOK /\ DocsOK /\ call[m].at = "create.store"
      /\ call[m] \in CallType /\ UNCHANGED buffers
  BY SteadyMount, MountOf DEF createStore, local
<1>1. PICK n \in Names : call[m].name = n
  BY <1>0, MountOf
<1>2. Idle.at = "idle" /\ Empty \in Content
  BY DEF Idle, Content
<1>3. Single => Named(n) = {}
  BY <1>0, <1>1 DEF Steady, OneInv, IInv, Kept, KeptBy, Single
<1>4. PICK i \in Fresh :
        \/ /\ Stored(i, n, Empty)
           /\ call' = [call EXCEPT ![m].at = "create.update", ![m].id = i]
        \/ Perhaps(Stored(i, n, Empty)) /\ Return(m)
  BY <1>1 DEF createStore
<1>5. call'[m].at \in {"idle", "create.update"}
  <2>1. CASE call' = [call EXCEPT ![m].at = "create.update", ![m].id = i]
    BY <1>0, <2>1 DEF MountsOK, CallType
  <2>2. CASE Return(m)
    BY <1>0, <1>2, <2>2 DEF MountsOK, Return
  <2> QED
    BY <1>4, <2>1, <2>2
<1>6. CASE UNCHANGED docs
  BY <1>0, <1>5, <1>6, SameDocsSame, SameFiles
<1>7. CASE Stored(i, n, Empty)
  <2>1. \A k \in Names \ {n} : SameName(m, k)
    BY <1>0, <1>1, <1>2, <1>5, <1>7, StoredSame, OtherName
  <2>2. i \in Ids /\ docs'[i].filename = n /\ docs'[i].data = Empty
    BY <1>0, <1>2, <1>7, StoredDocs DEF Fresh
  <2>3. CleanName(m, n)'
    <3>1. \A j \in Ids : docs[j].filename = n => docs'[j] = docs[j]
      BY <1>0, <1>2, <1>7, StoredDocs, NoDocFields DEF Fresh
    <3> QED
      BY <1>0, <1>5, <2>2, <3>1 DEF CleanName, Named, Steady, Loading
  <2>4. CASE buffers[m][n].there
    <3>1. InMemory(m, n) /\ InMemory(m, n)'
      BY <1>0, <1>5, <2>4 DEF InMemory, Loading
    <3>2. Single => Keeps(m, n)
      BY <1>0, <3>1, HeldNow, HeldNext DEF Keeps, Single
    <3> QED
      BY <2>1, <2>3, <3>2 DEF Viewed, OneFile, FileStep
  <2>5. CASE ~buffers[m][n].there
    <3>1. ~InMemory(m, n) /\ ~InMemory(m, n)'
      BY <1>0, <2>5 DEF InMemory
    <3>2. Single => Creates(m, n)
      BY <1>0, <1>3, <2>2, <3>1, HeldNow, HeldNext DEF Creates, Single
    <3> QED
      BY <2>1, <2>3, <3>2 DEF Viewed, OneFile, FileStep
  <2> QED
    BY <2>4, <2>5
<1> QED
  BY <1>4, <1>6, <1>7 DEF Perhaps

LEMMA createUpdateView ==
  ASSUME NEW m \in Mounts, Steady(m), createUpdate(m)
  PROVE  Viewed(m)
<1> DEFINE c == call[m]
<1>0. /\ MountsOK /\ DocsOK /\ c.at = "create.update"
      /\ c \in CallType /\ c.id \in Ids /\ c.meta \in Attrs /\ Alone(m)
  BY SteadyMount, MountOf DEF createUpdate, MountOK, InHandler, Creating
<1>1. PICK n \in Names : c.name = n
  BY <1>0, MountOf
<1>2. call'[m] = Idle /\ Idle.at = "idle"
  BY <1>0 DEF createUpdate, Return, MountsOK, Idle
<1>3. \A k \in Names : SameDocsOf(k)
  BY <1>0, UpdatedSame, SameDocsSame DEF createUpdate, Perhaps
<1>4. docs[c.id].filename = n /\ docs[c.id].data = Empty
  BY <1>0, <1>1 DEF Alone, Finds
<1>5. docs'[c.id].filename = n /\ docs'[c.id].data = Empty
  BY <1>0, <1>3, <1>4 DEF SameDocsOf
<1>6. CASE UNCHANGED buffers
  BY <1>0, <1>2, <1>3, <1>6, SameFiles
<1>7. CASE buffers' = [buffers EXCEPT ![m][n].there = TRUE]
  <2> DEFINE x == [buffers[m][n] EXCEPT !.there = TRUE]
  <2>1. /\ buffers'[m][n] = x
        /\ \A k \in Names \ {n} : buffers'[m][k] = buffers[m][k]
    BY <1>0, <1>7, MountOf DEF MountsOK
  <2>2. x.data = buffers[m][n].data /\ x.dirty = buffers[m][n].dirty /\ x.there = TRUE
    <3>1. \A y \in File : /\ [y EXCEPT !.there = TRUE].data = y.data
                          /\ [y EXCEPT !.there = TRUE].dirty = y.dirty
                          /\ [y EXCEPT !.there = TRUE].there = TRUE
      BY DEF File
    <3>2. /\ [NoBuffer EXCEPT !.there = TRUE].data = NoBuffer.data
          /\ [NoBuffer EXCEPT !.there = TRUE].dirty = NoBuffer.dirty
          /\ [NoBuffer EXCEPT !.there = TRUE].there = TRUE
      BY DEF NoBuffer
    <3>3. buffers[m][n] \in File \cup {NoBuffer}
      BY <1>0, MountOf
    <3> QED
      BY <3>1, <3>2, <3>3
  <2> HIDE DEF x
  <2>3. x.there /\ (x.dirty <=> buffers[m][n].dirty)
    BY <2>2, Zenon
  <2>4. InMemory(m, n)' /\ (Single => Held(m, n)' = buffers[m][n].data)
    <3>1. InMemory(m, n)'
      BY <1>2, <2>1, <2>3 DEF InMemory, Loading
    <3> QED
      BY <1>0, <2>1, <2>2, <3>1, HeldNext DEF Single
  <2>5. \A k \in Names \ {n} : SameName(m, k)
    BY <1>1, <1>2, <1>3, <2>1, OtherName
  <2>6. ~Loading(m, n)
    BY <1>0 DEF Loading
  <2>7. CASE buffers[m][n].there
    <3>1. Single => Keeps(m, n)
      BY <1>0, <2>1, <2>3, <2>4, <2>6, <2>7, HeldNow DEF Keeps, InMemory, Single
    <3>2. CleanName(m, n)'
      <4>1. ~buffers[m][n].dirty => \E i \in Ids : docs[i].filename = n /\ docs[i].data = buffers[m][n].data
        BY <2>6, <2>7 DEF Steady, CleanName, Named
      <4>2. ~buffers'[m][n].dirty => \E i \in Ids : docs'[i].filename = n /\ docs'[i].data = buffers'[m][n].data
        BY <1>3, <2>1, <2>2, <2>3, <4>1 DEF SameDocsOf
      <4> QED
        BY <1>0, <1>5, <4>2 DEF CleanName, Named
    <3> QED
      BY <2>5, <3>1, <3>2 DEF Viewed, OneFile, FileStep
  <2>8. CASE ~buffers[m][n].there
    <3>1. buffers[m][n].data = Empty /\ ~buffers[m][n].dirty
      BY <1>0, <2>8, NotThere, NoBufferFields
    <3>2. Single => Held(m, n) = Empty
      BY <1>0, <1>4, <2>8, HeldNow DEF InMemory, Single
    <3>3. Single => Keeps(m, n)
      BY <2>1, <2>3, <2>4, <3>1, <3>2 DEF Keeps
    <3>4. CleanName(m, n)'
      BY <1>0, <1>5, <2>1, <2>2, <3>1 DEF CleanName, Named
    <3> QED
      BY <2>5, <3>3, <3>4 DEF Viewed, OneFile, FileStep
  <2> QED
    BY <2>7, <2>8
<1> QED
  BY <1>1, <1>6, <1>7 DEF createUpdate, local

----------------------------------------------------------------------------
Renames(m, n, to) ==
  /\ n # to
  /\ Single => /\ Held(m, n) # NoName /\ Held(m, to) = NoName
               /\ Held(m, n)' = NoName /\ Held(m, to)' = Held(m, n)
  /\ \A k \in {n, to} : ~buffers[m][k].dirty /\ ~buffers'[m][k].dirty /\ CleanName(m, k)'
  /\ \A k \in Names \ {n, to} : SameName(m, k)

Dies(m) ==
  /\ faults' # 0
  /\ \A n \in Names : /\ CleanName(m, n)' /\ ~buffers'[m][n].dirty
                      /\ Single /\ ~buffers[m][n].dirty => Held(m, n)' = Held(m, n)

(* Between handlers no file is being loaded or stored, and only open files  *)
(* are in memory.                                                           *)
LEMMA QuietFiles ==
  ASSUME MountsOK, NEW m \in Mounts, Quiet(m), NEW n \in Names
  PROVE  /\ call[m] = Idle /\ call[m].at = "idle"
         /\ ~Loading(m, n) /\ ~Storing(m, n)
         /\ InMemory(m, n) <=> buffers[m][n].there
         /\ ~IsOpen(m, n) => ~buffers[m][n].there
<1>1. call[m] = Idle /\ call[m].at = "idle"
  BY QuietMount DEF Quiet
<1>2. buffers[m][n].there => \E h \in Handles : table[m][h] = n /\ flags[m][h] = "rw"
  BY <1>1, MountOf DEF MountOK, Owned, Flushing
<1> QED
  BY <1>1, <1>2 DEF Loading, Storing, InMemory, IsOpen, Open

(* A name of a quiet mount whose buffer and documents stay. *)
LEMMA QuietSame ==
  ASSUME MountsOK, NEW m \in Mounts, Quiet(m), UNCHANGED call, NEW k \in Names,
         buffers'[m][k] = buffers[m][k], SameDocsOf(k)
  PROVE  SameName(m, k)
BY QuietFiles DEF SameName, Loading, Storing

LEMMA ChangesView ==
  ASSUME NEW m \in Mounts, Steady(m), Quiet(m), NEW n \in Names, buffers[m][n].there,
         NEW d \in Data \cup {Empty},
         buffers' = [buffers EXCEPT ![m][n].data = d, ![m][n].dirty = TRUE],
         UNCHANGED <<docs, call, faults>>
  PROVE  Viewed(m)
<1>0. MountsOK /\ DocsOK
  BY SteadyMount
<1> DEFINE x == [buffers[m][n] EXCEPT !.data = d, !.dirty = TRUE]
<1>1. /\ buffers'[m][n] = x
      /\ \A k \in Names \ {n} : buffers'[m][k] = buffers[m][k]
  BY <1>0, MountOf DEF MountsOK
<1>2. x.data = d /\ x.dirty = TRUE /\ x.there = buffers[m][n].there
  <2>1. buffers[m][n] \in File
    BY <1>0, MountOf, ThereIsFile
  <2> QED
    BY <2>1 DEF File
<1> HIDE DEF x
<1>3. x.dirty /\ x.there
  BY <1>2, Zenon
<1>4. ~Loading(m, n) /\ call[m].at = "idle"
  BY <1>0, QuietFiles
<1>5. InMemory(m, n) /\ InMemory(m, n)'
  BY <1>1, <1>3, <1>4 DEF InMemory, Loading
<1>6. Single => Writes(m, n)
  <2>1. Single => Held(m, n) = buffers[m][n].data /\ Held(m, n)' = d
    BY <1>0, <1>1, <1>2, <1>5, HeldNow, HeldNext DEF Single
  <2>2. Single => Held(m, n) # NoName
    BY <1>0, <2>1, MemoryContent, ContentIsThere
  <2> QED
    BY <1>1, <1>3, <2>1, <2>2 DEF Writes
<1>7. CleanName(m, n)'
  <2>1. faults' = 0 => Named(n) # {}
    BY <1>0, QuietFiles DEF Steady, CleanName
  <2> QED
    BY <1>1, <1>3, <2>1 DEF CleanName, Named
<1>8. \A k \in Names \ {n} : SameName(m, k)
  BY <1>0, <1>1, SameDocsSame, QuietSame
<1> QED
  BY <1>6, <1>7, <1>8 DEF Viewed, OneFile, FileStep

LEMMA startsView ==
  ASSUME NEW m \in Mounts, Steady(m), Quiet(m), UNCHANGED <<docs, buffers>>,
         call'[m].at \in {"idle", "open.find", "flush.find", "create.store"}
  PROVE  Viewed(m)
BY SameDocsSame, SameFiles DEF Quiet

LEMMA releaseView ==
  ASSUME NEW m \in Mounts, Steady(m), NEW h \in Handles, release(m, h)
  PROVE  Viewed(m)
<1> DEFINE n == table[m][h]
           c2 == Call("flush.find", "release", n, h, 0, 3)
<1>0. /\ MountsOK /\ DocsOK /\ Quiet(m) /\ UNCHANGED docs
      /\ call[m].at = "idle"
  BY SteadyMount DEF release, Quiet
<1>1. n \in Names /\ ~Handle!Unused(table[m], h)
  BY <1>0, MountOf DEF release, Open, MountOK, Owned, Handle!Unused
<1>2. CASE call' = [call EXCEPT ![m] = c2] /\ UNCHANGED local
  <2>1. c2.at = "flush.find"
    BY DEF Call
  <2> HIDE DEF c2
  <2>2. call'[m] = c2
    BY <1>0, <1>2, CallOfOne
  <2> QED
    BY <1>0, <1>2, <2>1, <2>2, startsView DEF local
<1>3. CASE /\ ~(buffers[m][n].there /\ buffers[m][n].dirty)
           /\ buffers' = [buffers EXCEPT ![m][n] = NoBuffer] /\ UNCHANGED call
  <2> SUFFICES ASSUME NEW k \in Names, k = n
               PROVE  OneFile(m, k)
    BY <1>1 DEF Viewed
  <2>1. /\ buffers'[m][k] = NoBuffer
        /\ \A j \in Names \ {k} : buffers'[m][j] = buffers[m][j]
    BY <1>0, <1>3, MountOf DEF MountsOK
  <2>2. ~buffers'[m][k].there /\ ~buffers'[m][k].dirty
    BY <2>1, NoBufferFields
  <2>3. ~buffers[m][k].dirty
    BY <1>0, <1>3, NotThere
  <2>4. \A j : SameDocsOf(j)
    BY <1>0, SameDocsSame
  <2>5. Single => Held(m, k)' = Held(m, k)
    <3>1. CASE ~buffers[m][k].there
      BY <1>0, <2>2, <2>4, <3>1, HeldOutside DEF InMemory, Single
    <3>2. CASE buffers[m][k].there
      <4>1. PICK i \in Ids : docs[i].filename = k /\ docs[i].data = buffers[m][k].data
        BY <1>0, <2>3, <3>2, QuietFiles DEF Steady, CleanName, Named
      <4>2. Single => Held(m, k) = buffers[m][k].data
        BY <1>0, <3>2, QuietFiles, HeldNow DEF Single
      <4>3. Single => Held(m, k)' = docs'[i].data
        BY <1>0, <2>2, <4>1, HeldNext DEF InMemory, Single
      <4> QED
        BY <1>0, <4>1, <4>2, <4>3
    <3> QED
      BY <3>1, <3>2
  <2>6. \A j \in Names \ {k} : SameName(m, j)
    BY <1>0, <1>3, <2>1, <2>4, QuietSame
  <2> QED
    BY <2>2, <2>3, <2>5, <2>6 DEF OneFile, FileStep, Keeps, CleanName
<1> QED
  BY <1>1, <1>2, <1>3 DEF release

LEMMA unlinkView ==
  ASSUME NEW m \in Mounts, Steady(m), NEW n \in Names, unlink(m, n)
  PROVE  Viewed(m)
<1>0. /\ MountsOK /\ DocsOK /\ Quiet(m) /\ UNCHANGED <<buffers, call>>
      /\ ~IsOpen(m, n) /\ Named(n) # {} /\ call[m].at = "idle"
  BY SteadyMount DEF unlink, Quiet
<1>1. CASE UNCHANGED docs
  BY <1>0, <1>1, startsView
<1>2. CASE Removed(n)
  <2>1. ~buffers[m][n].there /\ ~buffers[m][n].dirty
    BY <1>0, QuietFiles, NotThere
  <2>2. \A i \in Ids : docs'[i].filename # n
    BY <1>0, <1>2, RemovedDocs, NoDocFields
  <2>3. Single => Held(m, n) # NoName
    <3>1. PICK i \in Ids : docs[i].filename = n
      BY <1>0 DEF Named
    <3> QED
      BY <1>0, <2>1, <3>1, HeldNow, DocIsThere, ContentIsThere DEF InMemory, Single
  <2>4. Single => Removes(m, n)
    BY <1>0, <2>1, <2>2, <2>3, HeldNext DEF Removes, InMemory, Single
  <2>5. CleanName(m, n)'
    BY <1>0, <2>1 DEF CleanName
  <2>6. \A k \in Names \ {n} : SameName(m, k)
    BY <1>0, <1>2, RemovedSame, QuietSame
  <2> QED
    BY <2>4, <2>5, <2>6 DEF Viewed, OneFile, FileStep
<1> QED
  BY <1>1, <1>2 DEF unlink, Perhaps

LEMMA renameView ==
  ASSUME NoRenameOfOpen, NEW m \in Mounts, Steady(m), NEW n \in Names, NEW to \in Names,
         rename(m, n, to)
  PROVE  Viewed(m) \/ Renames(m, n, to)
<1>0. /\ MountsOK /\ DocsOK /\ Quiet(m) /\ UNCHANGED <<buffers, call>>
      /\ ~IsOpen(m, n) /\ ~IsOpen(m, to) /\ call[m].at = "idle" /\ n # to
  BY SteadyMount DEF rename, Quiet, NoRenameOfOpen
<1>1. CASE UNCHANGED docs
  BY <1>0, <1>1, startsView
<1>2. ASSUME NEW i \in Named(n), docs' = [docs EXCEPT ![i].filename = to]
      PROVE  Renames(m, n, to)
  <2>1. i \in Ids /\ docs[i].filename = n /\ docs[i] # NoDoc
    BY <1>0, DocIsThere DEF Named
  <2>2. /\ docs'[i].filename = to /\ docs'[i].data = docs[i].data /\ docs'[i] # NoDoc
        /\ \A j \in Ids \ {i} : docs'[j] = docs[j]
    BY <1>0, <1>2, <2>1, RenamedDocs
  <2>3. \A k \in {n, to} : ~buffers[m][k].there /\ ~buffers[m][k].dirty
    BY <1>0, QuietFiles, NotThere
  <2>4. \A k \in {n, to} : ~InMemory(m, k) /\ ~InMemory(m, k)'
    BY <1>0, <2>3 DEF InMemory
  <2>5. \A k \in Names \ {n, to} : SameName(m, k)
    <3> SUFFICES ASSUME NEW k \in Names \ {n, to}
                 PROVE  SameDocsOf(k)
      BY <1>0, QuietSame
    <3> QED
      BY <2>1, <2>2 DEF SameDocsOf
  <2>6. ASSUME Single
        PROVE  /\ Held(m, n) # NoName /\ Held(m, to) = NoName
               /\ Held(m, n)' = NoName /\ Held(m, to)' = Held(m, n)
    <3>1. Named(to) = {}
      BY <1>0, <2>1, <2>2, <2>6 DEF Named, Single, Unique
    <3>2. Held(m, n) = docs[i].data /\ Held(m, to) = NoName
      BY <2>1, <2>4, <2>6, <3>1, HeldNow DEF Single
    <3>3. \A j \in Ids : docs'[j].filename # n
      BY <1>0, <2>1, <2>2, <2>6 DEF Unique, Single
    <3>4. Held(m, n)' = NoName /\ Held(m, to)' = docs[i].data
      BY <2>1, <2>2, <2>4, <2>6, <3>3, HeldNext DEF Single
    <3>5. Held(m, n) # NoName
      BY <1>0, <2>1, <3>2, DocIsThere, ContentIsThere
    <3> QED
      BY <3>2, <3>4, <3>5
  <2> QED
    BY <1>0, <2>3, <2>5, <2>6 DEF Renames, CleanName
<1> QED
  BY <1>1, <1>2 DEF rename, Perhaps

LEMMA chmodView ==
  ASSUME NEW m \in Mounts, Steady(m), NEW n \in Names, NEW v \in Attrs, chmod(m, n, v)
  PROVE  Viewed(m)
<1>0. /\ MountsOK /\ DocsOK /\ Quiet(m) /\ UNCHANGED <<buffers, call>> /\ call[m].at = "idle"
  BY SteadyMount DEF chmod, Quiet
<1>1. PICK i \in Named(n) :
        \/ docs' = IF docs[i].meta = NoMeta THEN docs ELSE [docs EXCEPT ![i].meta = v]
        \/ UNCHANGED docs
  BY DEF chmod, Perhaps
<1>2. i \in Ids /\ docs[i] # NoDoc
  BY <1>0, DocIsThere DEF Named
<1>3. \A k \in Names : SameDocsOf(k)
  BY <1>0, <1>1, <1>2, ChmodDocs DEF SameDocsOf
<1> QED
  BY <1>0, <1>3, SameFiles

LEMMA crashView ==
  ASSUME NEW m \in Mounts, Steady(m), crash(m)
  PROVE  Dies(m)
<1>0. /\ MountsOK /\ DocsOK /\ UNCHANGED docs
  BY SteadyMount DEF crash
<1>1. buffers'[m] = [n \in Names |-> NoBuffer] /\ faults' # 0
  BY <1>0, FaultIsSeen DEF crash, MountsOK
<1>2. ASSUME NEW n \in Names
      PROVE  /\ CleanName(m, n)' /\ ~buffers'[m][n].dirty
             /\ Single /\ ~buffers[m][n].dirty => Held(m, n)' = Held(m, n)
  <2>1. ~buffers'[m][n].there /\ ~buffers'[m][n].dirty
    BY <1>1, NoBufferFields
  <2>2. CASE ~InMemory(m, n)
    BY <1>0, <2>1, <2>2, SameDocsSame, HeldOutside DEF CleanName, InMemory, Single
  <2>3. CASE InMemory(m, n) /\ ~buffers[m][n].dirty
    <3>1. PICK i \in Ids : docs[i].filename = n /\ docs[i].data = buffers[m][n].data
      BY <2>3 DEF Steady, CleanName, Named, InMemory
    <3>2. Single => Held(m, n)' = docs'[i].data
      BY <1>0, <2>1, <3>1, HeldNext DEF InMemory, Single
    <3> QED
      BY <1>0, <2>1, <2>3, <3>1, <3>2, HeldNow DEF CleanName, Single
  <2> QED
    BY <2>1, <2>2, <2>3 DEF CleanName
<1> QED
  BY <1>1, <1>2 DEF Dies

----------------------------------------------------------------------------
LEMMA handlerView ==
  ASSUME NEW m \in Mounts, Steady(m), handler(m)
  PROVE  Viewed(m)
BY flushFindView, flushRemoveView, flushStoreView, flushUpdateView, openFindView, openLoadView,
   openChunksView, createStoreView, createUpdateView DEF handler

LEMMA requestView ==
  ASSUME NoRenameOfOpen, NEW m \in Mounts, Steady(m), request(m)
  PROVE  Viewed(m) \/ \E n, to \in Names : Renames(m, n, to)
<1>0. MountsOK
  BY SteadyMount
<1>1. ASSUME NEW n \in Names, NEW wr \in {"ro", "rw"}, NEW h \in Handles, open(m, n, wr, h)
      PROVE  Viewed(m)
  <2> DEFINE c2 == Call("open.find", wr, n, h, 0, 0)
  <2>1. c2.at = "open.find"
    BY DEF Call
  <2>2. Quiet(m) /\ UNCHANGED <<docs, buffers>> /\ (UNCHANGED call \/ call' = [call EXCEPT ![m] = c2])
    BY <1>1 DEF open
  <2> HIDE DEF c2
  <2>3. call'[m].at \in {"idle", "open.find"}
    BY <1>0, <2>1, <2>2, CallOfOne DEF Quiet
  <2> QED
    BY <2>2, <2>3, startsView
<1>2. ASSUME NEW n \in Names, truncate(m, n)
      PROVE  Viewed(m)
  BY <1>2, ChangesView DEF truncate
<1>3. ASSUME NEW h \in Handles, NEW d \in Data, write(m, h, d)
      PROVE  Viewed(m)
  <2>1. table[m][h] \in Names
    BY <1>0, <1>3, MountOf DEF write, Handle!Unused
  <2> QED
    BY <1>3, <2>1, ChangesView DEF write
<1>4. ASSUME NEW h \in Handles, ftruncate(m, h) \/ fallocate(m, h)
      PROVE  Viewed(m)
  <2>1. table[m][h] \in Names
    BY <1>0, <1>4, MountOf DEF ftruncate, fallocate, Handle!Unused
  <2> QED
    BY <1>2, <1>3, <1>4, <2>1 DEF ftruncate, fallocate
<1>5. ASSUME NEW n \in Names, NEW v \in Attrs, create(m, n, v)
      PROVE  Viewed(m)
  <2> DEFINE c2 == [Call("create.store", "rw", n, 0, 0, 0) EXCEPT !.meta = v]
  <2>1. c2.at = "create.store"
    BY DEF Call
  <2>2. Quiet(m) /\ UNCHANGED <<docs, buffers>> /\ call' = [call EXCEPT ![m] = c2]
    BY <1>5 DEF create
  <2> HIDE DEF c2
  <2>3. call'[m].at = "create.store"
    BY <1>0, <2>1, <2>2, CallOfOne
  <2> QED
    BY <2>2, <2>3, startsView
<1>6. ASSUME NEW h \in Handles, flush(m, h)
      PROVE  Viewed(m)
  <2> DEFINE c2 == Call("flush.find", "flush", table[m][h], h, 0, 1)
  <2>1. c2.at = "flush.find"
    BY DEF Call
  <2>2. Quiet(m) /\ UNCHANGED <<docs, buffers>> /\ call' = [call EXCEPT ![m] = c2]
    BY <1>6 DEF flush
  <2> HIDE DEF c2
  <2>3. call'[m].at = "flush.find"
    BY <1>0, <2>1, <2>2, CallOfOne
  <2> QED
    BY <2>2, <2>3, startsView
<1> QED
  BY <1>1, <1>2, <1>3, <1>4, <1>5, <1>6, releaseView, unlinkView, chmodView, renameView
     DEF request, fsync, chown

(* The steps of the only mount, as its users see them. *)
LEMMA NextView ==
  ASSUME NoRenameOfOpen, NEW m \in Mounts, Steady(m), handler(m) \/ request(m) \/ crash(m)
  PROVE  Viewed(m) \/ Dies(m) \/ \E n, to \in Names : Renames(m, n, to)
BY handlerView, requestView, crashView

LEMMA StepIsSteady ==
  ASSUME OneMount, OneInv, CleanInv, NEW m \in Mounts, handler(m) \/ request(m) \/ crash(m), Watch(m)
  PROVE  Steady(m) /\ faults' >= faults
<1>1. MountsOK /\ DocsOK
  BY DEF OneInv, IInv
<1>2. StepOK(m)
  BY <1>1, handlerStep, requestStep, crashStep
<1>3. faults' >= faults /\ faults \in Nat
  BY <1>1, <1>2, MGridFSAssumption DEF StepOK, DocsOK
<1> QED
  BY <1>3, NextAlone DEF Steady, CleanInv

LEMMA NextClean ==
  ASSUME OneMount, NoRenameOfOpen, OneInv, CleanInv,
         NEW m \in Mounts, handler(m) \/ request(m) \/ crash(m), Watch(m)
  PROVE  CleanInv'
<1>1. Steady(m)
  BY StepIsSteady
<1>2. ASSUME NEW n \in Names
      PROVE  CleanName(m, n)'
  <2>1. SameName(m, n) => CleanName(m, n)'
    BY <1>1, SameNameStep DEF Steady
  <2>2. Viewed(m) \/ Dies(m) \/ \E k, to \in Names : Renames(m, k, to)
    BY <1>1, NextView
  <2> QED
    BY <2>1, <2>2 DEF Viewed, OneFile, FileStep, Dies, Renames
<1>3. Mounts = {m}
  BY DEF OneMount
<1> QED
  BY <1>2, <1>3 DEF CleanInv

LEMMA CleanInductive ==
  ASSUME OneMount, NoRenameOfOpen
  PROVE  Spec => [](OneInv /\ CleanInv)
<1>1. Init => OneInv /\ CleanInv
  <2>1. Init => CleanInv
    BY NoBufferFields DEF Init, CleanInv, CleanName
  <2> QED
    BY <2>1, InitAlone
<1>2. (OneInv /\ CleanInv) /\ [Next]_vars => (OneInv /\ CleanInv)'
  <2>1. ASSUME OneInv, CleanInv, Next
        PROVE  OneInv' /\ CleanInv'
    BY <2>1, NextAlone, NextClean DEF Next
  <2>2. ASSUME OneInv, CleanInv, UNCHANGED vars
        PROVE  OneInv' /\ CleanInv'
    BY <2>2, StutterAlone DEF vars, CleanInv, CleanName, Named, Loading, Storing
  <2> QED
    BY <2>1, <2>2
<1> QED
  BY <1>1, <1>2, PTL DEF Spec

(* A single mount: what is dropped without a flush is in GridFS, whichever  *)
(* calls of the database have failed.                                       *)
THEOREM CleanFilesAreStored ==
  ASSUME OneMount, NoRenameOfOpen
  PROVE  Spec => []CleanIsStored
<1>1. CleanInv => CleanIsStored
  BY DEF CleanInv, CleanName, CleanIsStored, Quiet, Loading
<1> QED
  BY <1>1, CleanInductive, PTL

----------------------------------------------------------------------------
(* The step of a mount that frees a file in memory, or finds it saved. *)
LEMMA FlushSaves ==
  ASSUME MountsOK, DocsOK, NEW m \in Mounts, Alone(m), call[m].at \in Flushing,
         flushFind(m) \/ flushRemove(m) \/ flushStore(m) \/ flushUpdate(m),
         NEW n \in Names, buffers[m][n].dirty, ~buffers'[m][n].dirty
  PROVE  \/ \E i \in Ids : docs'[i].filename = n /\ docs'[i].data = buffers[m][n].data
         \/ call[m].for \in {"release", "open"} /\ call[m].tries = 1
<1> DEFINE c == call[m]
<1>1. c.for \in {"flush", "release", "open"}
  BY MountOf DEF MountOK, InHandler
<1>2. PICK ok \in BOOLEAN : FlushEnds(m, ok) /\ (ok => Updated(c.id, c.meta) /\ c.meta # NoMeta /\ c.at = "flush.update")
  BY DEF flushFind, flushRemove, flushStore, flushUpdate, local
<1>3. n = c.name
  BY <1>2, FlushEndsCases
<1>4. CASE ok
  <2>1. /\ c.id \in Ids /\ c.meta \in Attrs
        /\ docs[c.id].filename = c.name /\ docs[c.id].data = buffers[m][c.name].data
    BY <1>2, <1>4, MountOf DEF MountOK, InHandler, CallType, Alone, Finds
  <2>2. docs'[c.id].filename = docs[c.id].filename /\ docs'[c.id].data = docs[c.id].data
    BY <1>2, <1>4, <2>1, UpdatedDocs
  <2> QED
    BY <1>3, <2>1, <2>2
<1>5. CASE ~ok
  BY <1>1, <1>2, <1>3, <1>5, FlushEndsCases DEF local
<1> QED
  BY <1>4, <1>5

LEMMA OthersStayDirty ==
  ASSUME MountsOK, NEW m \in Mounts, NEW n \in Names, buffers[m][n].dirty, ~buffers'[m][n].dirty,
         handler(m) \/ request(m)
  PROVE  flushFind(m) \/ flushRemove(m) \/ flushStore(m) \/ flushUpdate(m)
<1>0. /\ buffers \in [Mounts -> [Names -> File \cup {NoBuffer}]]
      /\ buffers[m][n] \in File /\ buffers[m][n].there
  BY MountOf, ThereIsFile DEF MountsOK
<1>1. ASSUME openFind(m)
      PROVE  FALSE
  <2>1. ~buffers[m][call[m].name].there /\ call[m].name \in Names
    BY <1>1, OpeningFile DEF openFind, Opening
  <2>2. n # call[m].name
    BY <1>0, <2>1
  <2>3. buffers'[m][n] = buffers[m][n]
    BY <1>0, <1>1, <2>1, <2>2 DEF openFind
  <2> QED
    BY <2>3
<1>2. ASSUME openLoad(m) \/ openChunks(m)
      PROVE  FALSE
  <2>1. ~buffers[m][call[m].name].dirty /\ call[m].name \in Names
    BY <1>2, OpeningFile DEF openLoad, openChunks, Opening
  <2>2. buffers'[m][n] = buffers[m][n]
    BY <1>0, <1>2, <2>1 DEF openLoad, openChunks
  <2> QED
    BY <2>2
<1>3. ASSUME createUpdate(m)
      PROVE  FALSE
  <2> DEFINE k == call[m].name
             x == [buffers[m][n] EXCEPT !.there = TRUE]
  <2>1. buffers' = buffers \/ buffers' = [buffers EXCEPT ![m][k].there = TRUE]
    BY <1>3 DEF createUpdate, local
  <2>2. x.dirty = buffers[m][n].dirty
    BY <1>0 DEF File
  <2>3. CASE buffers' = buffers
    BY <2>3, Zenon
  <2>4. CASE buffers' = [buffers EXCEPT ![m][k].there = TRUE]
    <3>1. buffers' = [buffers EXCEPT ![m] = [buffers[m] EXCEPT ![k] = [buffers[m][k] EXCEPT !.there = TRUE]]]
      BY <2>4
    <3>2. n # k => buffers'[m][n] = buffers[m][n]
      BY <1>0, <3>1
    <3>3. n = k => buffers'[m][n] = x
      BY <1>0, <3>1
    <3> HIDE DEF x, k
    <3> QED
      BY <2>2, <3>2, <3>3, Zenon
  <2> QED
    BY <2>1, <2>3, <2>4
<1>4. ASSUME NEW k \in Names, NEW d,
             buffers' = [buffers EXCEPT ![m][k].data = d, ![m][k].dirty = TRUE]
      PROVE  FALSE
  <2> DEFINE x == [buffers[m][k] EXCEPT !.data = d, !.dirty = TRUE]
  <2>1. buffers'[m][n] = IF n = k THEN x ELSE buffers[m][n]
    BY <1>0, <1>4
  <2>2. n = k => x.dirty = TRUE
    BY <1>0 DEF File
  <2> HIDE DEF x
  <2> QED
    BY <2>1, <2>2, Zenon
<1>5. ASSUME NEW h \in Handles, release(m, h)
      PROVE  FALSE
  <2>1. table[m][h] \in Names
    BY <1>5, MountOf DEF release, Open, MountOK, Owned
  <2>2. buffers'[m][n] = buffers[m][n]
    BY <1>0, <1>5, <2>1 DEF release, local
  <2> QED
    BY <2>2
<1>6. ASSUME NEW h \in Handles, NEW d, write(m, h, d)
      PROVE  FALSE
  <2>1. table[m][h] \in Names
    BY <1>6, MountOf DEF write, Handle!Unused
  <2> QED
    BY <1>4, <1>6, <2>1 DEF write
<1>7. ASSUME NEW k \in Names, truncate(m, k)
      PROVE  FALSE
  BY <1>4, <1>7 DEF truncate
<1>8. ASSUME NEW h \in Handles, ftruncate(m, h) \/ fallocate(m, h)
      PROVE  FALSE
  <2>1. table[m][h] \in Names
    BY <1>8, MountOf DEF ftruncate, fallocate, Handle!Unused
  <2> QED
    BY <1>6, <1>7, <1>8, <2>1 DEF ftruncate, fallocate
<1>9. ~(UNCHANGED buffers)
  OBVIOUS
<1>10. ASSUME request(m)
       PROVE  FALSE
  BY <1>5, <1>6, <1>7, <1>8, <1>9, <1>10
     DEF request, open, unlink, create, chmod, chown, flush, fsync, rename
<1>11. ~createStore(m)
  BY <1>9 DEF createStore, local
<1> QED
  BY <1>1, <1>2, <1>3, <1>10, <1>11 DEF handler

(* A single mount: what users wrote leaves memory when GridFS holds it, in  *)
(* the last attempt of a handler that closes the file, or with the process. *)
THEOREM WrittenUntilStored ==
  ASSUME OneMount
  PROVE  Spec => DirtyUntilStored
<1> DEFINE Kept1 == \A m \in Mounts, n \in Names :
             (buffers[m][n].dirty /\ ~buffers'[m][n].dirty) =>
               \/ \E i \in Ids : docs'[i].filename = n /\ docs'[i].data = buffers[m][n].data
               \/ call[m].for \in {"release", "open"} /\ call[m].tries = 1
               \/ crash(m)
<1>1. OneInv /\ [Next]_vars => [Kept1]_vars
  <2> SUFFICES ASSUME OneInv, Next, NEW m \in Mounts, NEW n \in Names,
                      buffers[m][n].dirty, ~buffers'[m][n].dirty
               PROVE  \/ \E i \in Ids : docs'[i].filename = n /\ docs'[i].data = buffers[m][n].data
                      \/ call[m].for \in {"release", "open"} /\ call[m].tries = 1
                      \/ crash(m)
    OBVIOUS
  <2>1. MountsOK /\ DocsOK /\ Alone(m)
    BY DEF OneInv, IInv
  <2>2. handler(m) \/ request(m) \/ crash(m)
    BY DEF OneMount, Next
  <2>3. ASSUME ~crash(m)
        PROVE  flushFind(m) \/ flushRemove(m) \/ flushStore(m) \/ flushUpdate(m)
    BY <2>1, <2>2, <2>3, OthersStayDirty
  <2>4. ~crash(m) => call[m].at \in Flushing
    BY <2>3 DEF flushFind, flushRemove, flushStore, flushUpdate, Flushing
  <2> QED
    BY <2>1, <2>3, <2>4, FlushSaves
<1> QED
  BY <1>1, OneMountInductive, PTL DEF Spec, DirtyUntilStored

----------------------------------------------------------------------------
(* What the only mount's users see is a content, or no file. *)
LEMMA HeldType ==
  ASSUME MountsOK, DocsOK, Unique, NEW m \in Mounts, NEW n \in Names
  PROVE  Held(m, n) \in Content \cup {NoName}
<1>1. CASE InMemory(m, n)
  BY <1>1, HeldNow, MemoryContent
<1>2. CASE ~InMemory(m, n) /\ Named(n) = {}
  BY <1>2, HeldNow
<1>3. CASE ~InMemory(m, n) /\ Named(n) # {}
  BY <1>3, HeldNow, DocIsThere DEF Named
<1> QED
  BY <1>1, <1>2, <1>3

LEMMA HeldTypeNext ==
  ASSUME MountsOK', DocsOK', Unique', NEW m \in Mounts, NEW n \in Names
  PROVE  Held(m, n)' \in Content \cup {NoName}
<1>1. buffers'[m][n].data \in Content
  <2>1. buffers'[m][n] \in File \cup {NoBuffer}
    BY DEF MountsOK
  <2>2. NoBuffer.data \in Content
    BY NoBufferFields DEF Content
  <2>3. \A x \in File : x.data \in Content
    BY DEF File
  <2> QED
    BY <2>1, <2>2, <2>3
<1>2. \A i \in Ids : docs'[i].data \in Content
  BY DEF DocsOK, DocType, NoDoc, Content
<1>3. CASE InMemory(m, n)'
  BY <1>1, <1>3, HeldNext
<1>4. CASE ~InMemory(m, n)'
  BY <1>2, <1>4, HeldNext
<1> QED
  BY <1>3, <1>4

(* A step about one name is a step of the abstract file system. *)
LEMMA ViewStep ==
  ASSUME Mount \in Mounts, Steady(Mount), Single, excused' = {}, faults' >= faults,
         Viewed(Mount) \/ Dies(Mount) \/ \E n, to \in Names : Renames(Mount, n, to)
  PROVE  [Files!Next]_(Files!vars)
<1> DEFINE F == [k \in Names |-> Held(Mount, k)]
           U == {k \in Names : buffers[Mount][k].dirty}
           F2 == [k \in Names |-> Held(Mount, k)']
           U2 == {k \in Names : buffers'[Mount][k].dirty}
<1>1. (faults > 0) => (faults' > 0)
  BY SteadyMount DEF DocsOK
<1>2. faults' # 0 => faults' > 0
  BY SteadyMount DEF DocsOK
<1>3. \A k \in Names : F2[k] \in Content \cup {NoName}
  BY SteadyMount, HeldTypeNext DEF Single
<1>4. \A k \in Names : /\ F[k] = Held(Mount, k) /\ (k \in U <=> buffers[Mount][k].dirty)
                       /\ F2[k] = Held(Mount, k)' /\ (k \in U2 <=> buffers'[Mount][k].dirty)
  OBVIOUS
<1>5. \A k \in Names : SameName(Mount, k) => F2[k] = F[k] /\ (k \in U2 <=> k \in U)
  BY <1>4, SameNameStep DEF Steady, Keeps
<1>6. U \subseteq Names /\ U2 \subseteq Names
  OBVIOUS
<1>7. ("onto" \in excused)' = ("onto" \in excused)
  BY DEF Single
(* The actions of the abstract file system, on F, U, F2 and U2. *)
<1>11. ASSUME NEW n \in Names, F2 = F, U2 = U \ {n}
       PROVE  Files!Save(n)
  BY <1>11 DEF Files!Save, F, F2, U, U2
<1>12. ASSUME NEW n \in Names, NEW v, F[n] # NoName, F2 = [F EXCEPT ![n] = v], U2 = U \cup {n}
       PROVE  Files!Write(n, v)
  BY <1>12 DEF Files!Write, Files!Exists, F, F2, U, U2
<1>13. ASSUME NEW n \in Names, F[n] = NoName, F2 = [F EXCEPT ![n] = Empty], U2 = U
       PROVE  Files!Create(n)
  BY <1>13 DEF Files!Create, Files!Exists, F, F2, U, U2
<1>14. ASSUME NEW n \in Names, F[n] # NoName, n \notin U, F2 = [F EXCEPT ![n] = NoName], U2 = U
       PROVE  Files!Remove(n)
  BY <1>14 DEF Files!Remove, Files!Exists, F, F2, U, U2
<1>15. ASSUME NEW n \in Names, NEW to \in Names, F[n] # NoName, F[to] = NoName, n \notin U,
              F2 = [F EXCEPT ![n] = NoName, ![to] = F[n]], U2 = U
       PROVE  Files!Rename(n, to)
  BY <1>15 DEF Files!Rename, Files!Exists, F, F2, U, U2
<1>16. ASSUME faults' # 0, \A k \in Names \ U : F2[k] = F[k], U2 \subseteq U
       PROVE  Files!Lose
  BY <1>16, <1>2, <1>3 DEF Files!Lose, Content, F, F2, U, U2
<1>17. ASSUME NEW n \in Names, faults' # 0, n \notin U, Files!Write(n, Garbage)
       PROVE  Files!Spoil(n)
  BY <1>17, <1>2 DEF Files!Spoil, U
<1> HIDE DEF F, U, F2, U2
<1>18. F = [k \in Names |-> F[k]] /\ F2 = [k \in Names |-> F2[k]]
  BY DEF F, F2
(* What the step does. *)
<1>20. ASSUME F2 = F, U2 = U
       PROVE  [Files!Next]_(Files!vars)
  <2>1. CASE (faults' > 0) = (faults > 0)
    BY <1>7, <1>20, <2>1 DEF Files!vars, F, U, F2, U2
  <2>2. CASE faults' # 0
    BY <1>1, <1>7, <1>16, <1>20, <2>2 DEF Files!Next
  <2> QED
    BY <1>1, <2>1, <2>2
<1>21. CASE \A k \in Names : SameName(Mount, k)
  BY <1>5, <1>6, <1>18, <1>20, <1>21
<1>22. ASSUME NEW n \in Names, OneFile(Mount, n)
       PROVE  [Files!Next]_(Files!vars)
  <2>1. \A k \in Names \ {n} : F2[k] = F[k] /\ (k \in U2 <=> k \in U)
    BY <1>5, <1>22 DEF OneFile
  <2>2. F2 = [F EXCEPT ![n] = F2[n]]
    BY <1>18, <2>1
  <2>3. /\ F[n] = Held(Mount, n) /\ (n \in U <=> buffers[Mount][n].dirty)
        /\ F2[n] = Held(Mount, n)' /\ (n \in U2 <=> buffers'[Mount][n].dirty)
    BY <1>4
  <2>4. CASE Keeps(Mount, n)
    <3>1. F2 = F /\ U2 = U
      BY <1>6, <1>18, <2>1, <2>2, <2>3, <2>4 DEF Keeps
    <3> QED
      BY <1>20, <3>1
  <2>5. CASE Saves(Mount, n)
    <3>1. F2 = F /\ U2 = U \ {n}
      BY <1>6, <1>18, <2>1, <2>2, <2>3, <2>5 DEF Saves
    <3>2. Files!Save(n)
      BY <1>11, <3>1
    <3> QED
      BY <1>1, <1>7, <3>2 DEF Files!Next, Files!Operation
  <2>6. CASE Writes(Mount, n)
    <3>1. F[n] # NoName /\ U2 = U \cup {n} /\ F2[n] \in Data \cup {Empty}
      BY <1>6, <2>1, <2>3, <2>6 DEF Writes
    <3>2. PICK d \in Data \cup {Empty} : F2[n] = d
      BY <3>1
    <3>3. Files!Write(n, d)
      BY <1>12, <2>2, <3>1, <3>2
    <3> QED
      BY <1>1, <1>7, <3>3 DEF Files!Next, Files!Operation
  <2>7. CASE Spoils(Mount, n)
    <3>1. /\ F[n] # NoName /\ U2 = U \cup {n} /\ F2[n] = Garbage
          /\ n \notin U /\ faults' # 0
      BY <1>6, <2>1, <2>3, <2>7 DEF Spoils
    <3>2. Files!Write(n, Garbage)
      BY <1>12, <2>2, <3>1
    <3>3. Files!Spoil(n)
      BY <1>17, <3>1, <3>2
    <3> QED
      BY <1>1, <1>7, <3>3 DEF Files!Next
  <2>8. CASE Creates(Mount, n)
    <3>1. F[n] = NoName /\ U2 = U /\ F2[n] = Empty
      BY <1>6, <2>1, <2>3, <2>8 DEF Creates
    <3>2. Files!Create(n)
      BY <1>13, <2>2, <3>1
    <3> QED
      BY <1>1, <1>7, <3>2 DEF Files!Next, Files!Operation
  <2>9. CASE Removes(Mount, n)
    <3>1. F[n] # NoName /\ n \notin U /\ U2 = U /\ F2[n] = NoName
      BY <1>6, <2>1, <2>3, <2>9 DEF Removes
    <3>2. Files!Remove(n)
      BY <1>14, <2>2, <3>1
    <3> QED
      BY <1>1, <1>7, <3>2 DEF Files!Next, Files!Operation
  <2>10. CASE Loses(Mount, n)
    <3>1. /\ n \in U /\ faults' # 0
          /\ \A k \in Names \ U : F2[k] = F[k]
          /\ U2 \subseteq U
      BY <1>6, <2>1, <2>3, <2>10 DEF Loses
    <3>2. Files!Lose
      BY <1>16, <3>1
    <3> QED
      BY <1>1, <1>7, <3>2 DEF Files!Next
  <2> QED
    BY <1>22, <2>4, <2>5, <2>6, <2>7, <2>8, <2>9, <2>10 DEF OneFile, FileStep
<1>23. CASE Dies(Mount)
  <2>1. /\ faults' # 0
        /\ \A k \in Names \ U : F2[k] = F[k]
        /\ U2 \subseteq U
    BY <1>4, <1>6, <1>23 DEF Dies
  <2>2. Files!Lose
    BY <1>16, <2>1
  <2> QED
    BY <1>1, <1>7, <2>2 DEF Files!Next
<1>24. ASSUME NEW n \in Names, NEW to \in Names, Renames(Mount, n, to)
       PROVE  Files!Next
  <2>1. \A k \in Names \ {n, to} : F2[k] = F[k] /\ (k \in U2 <=> k \in U)
    BY <1>5, <1>24 DEF Renames
  <2>2. /\ F[n] # NoName /\ F[to] = NoName /\ n # to
        /\ F2[n] = NoName /\ F2[to] = F[n]
        /\ n \notin U /\ to \notin U /\ n \notin U2 /\ to \notin U2
    BY <1>4, <1>24 DEF Renames
  <2>3. U2 = U
    BY <1>6, <2>1, <2>2
  <2>4. F2 = [F EXCEPT ![n] = NoName, ![to] = F[n]]
    BY <1>18, <2>1, <2>2
  <2>5. Files!Rename(n, to)
    BY <1>15, <2>2, <2>3, <2>4
  <2> QED
    BY <1>1, <1>7, <2>5 DEF Files!Next, Files!Operation
<1> QED
  BY <1>21, <1>22, <1>23, <1>24 DEF Viewed

LEMMA InitView ==
  ASSUME OneMount, Init
  PROVE  Files!Init
<1>1. Mount \in Mounts
  BY DEF OneMount, Mount
<1>2. OneInv /\ excused = {}
  BY InitAlone DEF Init
<1>3. MountsOK /\ DocsOK /\ Unique
  BY <1>2 DEF OneInv, IInv, Kept
<1>4. \A n \in Names : Held(Mount, n) \in Content \cup {NoName}
  BY <1>1, <1>3, HeldType
<1>5. \A n \in Names : ~buffers[Mount][n].dirty
  BY <1>1, NoBufferFields DEF Init
<1>6. (faults > 0) = FALSE /\ ("onto" \in excused) = FALSE
  BY <1>2 DEF Init
<1> QED
  BY <1>4, <1>5, <1>6 DEF Files!Init, Content

LEMMA NextIsFiles ==
  ASSUME OneMount, NoRenameOfOpen, OneInv, CleanInv, [Next]_vars
  PROVE  [Files!Next]_(Files!vars)
<1>1. \A m \in Mounts : m = Mount
  BY DEF OneMount, Mount
<1>2. ASSUME NEW m \in Mounts, handler(m) \/ request(m) \/ crash(m), Watch(m)
      PROVE  [Files!Next]_(Files!vars)
  <2>1. Mount \in Mounts /\ m = Mount
    BY <1>1
  <2>2. handler(Mount) \/ request(Mount) \/ crash(Mount)
    BY <1>2, <2>1
  <2>3. Steady(Mount) /\ faults' >= faults
    BY <1>2, <2>1, <2>2, StepIsSteady
  <2>4. Viewed(Mount) \/ Dies(Mount) \/ \E n, to \in Names : Renames(Mount, n, to)
    BY <2>1, <2>2, <2>3, NextView
  <2>5. CASE "onto" \in excused'
    <3>1. faults > 0 => faults' > 0
      BY <2>1, <2>3, SteadyMount DEF DocsOK
    <3> QED
      BY <2>5, <3>1 DEF Files!Next, Files!Mix
  <2>6. CASE "onto" \notin excused'
    <3>1. excused' = {}
      BY <2>3, <2>6 DEF Steady, OneInv, IInv, DocsOK
    <3>2. excused = {}
      BY <1>2, <3>1 DEF Watch
    <3>3. Single
      BY <2>3, <3>1, <3>2 DEF Steady, OneInv, IInv, Kept, Single
    <3> QED
      BY <2>1, <2>3, <2>4, <3>1, <3>3, ViewStep
  <2> QED
    BY <2>5, <2>6
<1>3. CASE UNCHANGED vars
  <2>1. [n \in Names |-> Held(Mount, n)]' = [n \in Names |-> Held(Mount, n)]
    BY <1>3 DEF vars, Held, InMemory, Loading, Named
  <2>2. {n \in Names : buffers[Mount][n].dirty}' = {n \in Names : buffers[Mount][n].dirty}
    BY <1>3 DEF vars
  <2>3. (faults > 0)' = (faults > 0)
    BY <1>3 DEF vars
  <2>4. ("onto" \in excused)' = ("onto" \in excused)
    BY <1>3 DEF vars
  <2> QED
    BY <2>1, <2>2, <2>3, <2>4 DEF Files!vars
<1> QED
  BY <1>2, <1>3 DEF Next

(* A single mount whose users rename no open file: the handlers, each of    *)
(* them several calls of the database that can fail or be cut off, are the  *)
(* abstract file system of FileSystem.tla, where one step reads, writes,    *)
(* renames or removes a file, until a file is renamed onto another.         *)
THEOREM ImplementsAFileSystem ==
  ASSUME OneMount, NoRenameOfOpen
  PROVE  Spec => ImplementsFileSystem
<1>1. Init => Files!Init
  BY InitView
<1>2. OneInv /\ CleanInv /\ [Next]_vars => [Files!Next]_(Files!vars)
  BY NextIsFiles
<1>3. Spec => [](OneInv /\ CleanInv)
  BY CleanInductive
<1> QED
  BY <1>1, <1>2, <1>3, PTL DEF Spec, ImplementsFileSystem, Files!Spec
=============================================================================
