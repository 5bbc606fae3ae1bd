-------------------------- MODULE NamespaceProofs --------------------------
(***************************************************************************)
(* The listings of directories and the paths of documents agree, for any   *)
(* number of mounts, names and documents and any depth of the tree.        *)
(***************************************************************************)
EXTENDS Namespace, SequenceTheorems, FiniteSetTheorems, TLAPS

(* Users rename no file into another directory (see StaleDirectory.cfg).    *)
OneDirectory == "across" \notin Scope

----------------------------------------------------------------------------
(* Paths are sequences, and their parts are what they are made of. *)
LEMMA Depth == MaxDepth \in Nat \ {0} /\ RootName \notin Components
BY NamespaceAssumption

LEMMA PathIsSeq ==
  ASSUME NEW p
  PROVE  p \in Paths <=> p \in Seq(Components) /\ Len(p) <= MaxDepth
<1>1. ASSUME p \in Paths
      PROVE  p \in Seq(Components) /\ Len(p) <= MaxDepth
  <2>1. PICK k \in 0..MaxDepth : p \in [1..k -> Components]
    BY <1>1 DEF Paths
  <2>2. k \in Nat /\ k <= MaxDepth
    BY <2>1, Depth
  <2>3. p \in Seq(Components)
    <3>1. p \in UNION {[1..n -> Components] : n \in Nat}
      BY <2>1, <2>2
    <3> QED
      BY <3>1, SeqDef, Zenon
  <2>4. p \in [1..Len(p) -> Components] /\ Len(p) \in Nat /\ DOMAIN p = 1..Len(p)
    BY <2>3, LenProperties
  <2>5. DOMAIN p = 1..k
    BY <2>1
  <2>6. Len(p) = k
    <3> DEFINE l == Len(p)
    <3>1. l \in Nat /\ 1..l = 1..k
      BY <2>4, <2>5
    <3> HIDE DEF l
    <3>2. \A j \in Nat \ {0} : j <= l <=> j <= k
      <4>1. \A j \in Nat \ {0} : (j \in 1..l <=> j <= l) /\ (j \in 1..k <=> j <= k)
        BY <2>2, <3>1
      <4> QED
        BY <3>1, <4>1
    <3>3. l <= k /\ k <= l
      <4>1. l # 0 => l <= k
        BY <2>2, <3>1, <3>2
      <4>2. k # 0 => k <= l
        BY <2>2, <3>1, <3>2
      <4> QED
        BY <2>2, <3>1, <4>1, <4>2
    <3> QED
      BY <2>2, <3>1, <3>3 DEF l
  <2> QED
    BY <2>2, <2>3, <2>6
<1>2. ASSUME p \in Seq(Components), Len(p) <= MaxDepth
      PROVE  p \in Paths
  <2>1. p \in [1..Len(p) -> Components] /\ Len(p) \in 0..MaxDepth
    BY <1>2, LenProperties, Depth
  <2> QED
    BY <2>1, Zenon DEF Paths
<1> QED
  BY <1>1, <1>2

LEMMA RootIsPath == Root \in Paths
<1>1. <<>> \in Seq(Components) /\ Len(<<>>) = 0
  BY EmptySeq
<1>2. 0 <= MaxDepth
  BY Depth
<1>3. Root \in Seq(Components) /\ Len(Root) <= MaxDepth
  BY <1>1, <1>2 DEF Root
<1> QED
  BY <1>3, PathIsSeq, Zenon

LEMMA PathParts ==
  ASSUME NEW p \in Paths
  PROVE  /\ Dirname(p) \in Paths
         /\ Basename(p) \in Components \cup {RootName}
         /\ Basename(p) = RootName <=> p = Root
         /\ p # Root => Append(Dirname(p), Basename(p)) = p
<1>1. CASE p = Root
  BY <1>1, RootIsPath DEF Dirname, Basename
<1>2. CASE p # Root
  <2> DEFINE n == Len(p)
             d == SubSeq(p, 1, n - 1)
             b == p[n]
  <2>1. p \in Seq(Components) /\ n \in Nat \ {0} /\ n <= MaxDepth
    BY <1>2, PathIsSeq, EmptySeq DEF Root
  <2>2. \A i \in 1..n : p[i] \in Components
    BY <2>1, ElementOfSeq
  <2>3. b \in Components /\ b # RootName
    <3>1. n \in 1..n
      BY <2>1
    <3> QED
      BY <2>2, <3>1, Depth
  <2>4. /\ d \in Seq(Components) /\ Len(d) = n - 1
        /\ \A i \in 1..n - 1 : d[i] = p[i]
    <3>1. \A i \in 1..n - 1 : p[i] \in Components
      BY <2>1, <2>2
    <3>2. /\ d \in Seq(Components)
          /\ Len(d) = IF 1 <= n - 1 THEN (n - 1) - 1 + 1 ELSE 0
          /\ \A i \in 1..(n - 1) - 1 + 1 : d[i] = p[1 + i - 1]
      BY <2>1, <3>1, SubSeqProperties
    <3>3. (1 <= n - 1 => (n - 1) - 1 + 1 = n - 1) /\ (~(1 <= n - 1) => n - 1 = 0)
          /\ (n - 1) - 1 + 1 = n - 1 /\ \A i \in 1..n - 1 : 1 + i - 1 = i
      <4> HIDE DEF n
      <4> QED
        BY <2>1
    <3> HIDE DEF d, n
    <3> QED
      BY <3>2, <3>3
  <2>5. d \in Paths
    <3>1. Len(d) <= MaxDepth
      BY <2>1, <2>4, Depth
    <3> HIDE DEF d
    <3> QED
      BY <2>4, <3>1, PathIsSeq, Zenon
  <2>6. Append(d, b) = p
    <3> HIDE DEF d, b
    <3>1. /\ Append(d, b) \in Seq(Components) /\ Len(Append(d, b)) = Len(d) + 1
          /\ \A i \in 1..Len(d) : Append(d, b)[i] = d[i]
          /\ Append(d, b)[Len(d) + 1] = b
      BY <2>3, <2>4, AppendProperties
    <3>2. \A i \in 1..n : Append(d, b)[i] = p[i]
      BY <2>1, <2>4, <3>1 DEF b
    <3>3. Len(Append(d, b)) = n
      BY <2>1, <2>4, <3>1
    <3> QED
      BY <2>1, <3>1, <3>2, <3>3, SeqEqual
  <2>7. Dirname(p) = d /\ Basename(p) = b
    BY <1>2 DEF Dirname, Basename
  <2> QED
    BY <1>2, <2>3, <2>5, <2>6, <2>7
<1> QED
  BY <1>1, <1>2

----------------------------------------------------------------------------
(* The shapes of documents and handlers. *)
DocType == [filename : Paths, kind : Kinds \cup {"bare"}, directory : Paths,
            base : Components \cup {RootName}]

CallType == [at : {"idle", "store", "update", "remove"}, path : Paths,
             kind : Kinds \cup {"none"}, id : Ids \cup {0}]

CallOK(c) ==
  /\ c \in CallType
  /\ c.at = "idle" => c = Idle
  /\ c.at \in {"store", "update"} => c.kind \in Kinds
  /\ c.at \in {"store", "update"} /\ c.path = Root => c.kind = "directory"
  /\ c.at = "update" => c.id \in Ids
  /\ c.at = "remove" => c.path # Root

TInv ==
  /\ TypeOK
  /\ call \in [Mounts -> CallType]
  /\ \A m \in Mounts : CallOK(call[m])

LEMMA DocFields ==
  ASSUME NEW d \in DocType \cup {NoDoc}
  PROVE  /\ d.filename \in Paths
         /\ d.kind \in Kinds \cup {"bare", "none"}
         /\ d = NoDoc <=> d.kind = "none"
         /\ d # NoDoc => d \in DocType
BY RootIsPath DEF DocType, NoDoc, Kinds

LEMMA BareFields ==
  ASSUME NEW p \in Paths
  PROVE  Bare(p) \in DocType /\ Bare(p).filename = p /\ Bare(p).kind = "bare"
BY RootIsPath DEF Bare, DocType

LEMMA WholeFields ==
  ASSUME NEW p \in Paths, NEW k \in Kinds, NEW f \in Paths
  PROVE  LET d == [Whole(p, k) EXCEPT !.filename = f]
         IN  /\ d \in DocType /\ d.filename = f /\ d.kind = k
             /\ d.directory = Dirname(p) /\ d.base = Basename(p)
BY PathParts DEF Whole, DocType

LEMMA IdleFields ==
  /\ Idle.at = "idle" /\ Idle.path = Root /\ Idle.id = 0 /\ CallOK(Idle)
BY RootIsPath DEF Idle, CallOK, CallType

(* What the invariant says of a mount and of a document. *)
LEMMA TypesOf ==
  ASSUME TInv
  PROVE  /\ \A i \in Ids : docs[i] \in DocType \cup {NoDoc}
         /\ \A i \in Ids : i \in There <=> docs[i].kind # "none"
         /\ \A m \in Mounts : CallOK(call[m])
         /\ \A m \in Mounts : Quiet(m) <=> call[m].at = "idle"
         /\ faults \in Nat
<1>1. \A i \in Ids : docs[i] \in DocType \cup {NoDoc}
  BY DEF TInv, TypeOK, DocType
<1>2. \A i \in Ids : i \in There <=> docs[i].kind # "none"
  BY <1>1, DocFields DEF There
<1>3. \A m \in Mounts : Quiet(m) <=> call[m].at = "idle"
  BY IdleFields DEF TInv, CallOK, Quiet
<1> QED
  BY <1>1, <1>2, <1>3, NamespaceAssumption DEF TInv, TypeOK

----------------------------------------------------------------------------
(* What a step of a mount can do to the documents and to its handler.       *)
Becomes(m, i, d) ==
  /\ i \in Ids /\ docs'[i] = d
  /\ \A j \in Ids \ {i} : docs'[j] = docs[j]

(* It only looks, or its call fails without an effect. *)
Looks(m) ==
  /\ docs' = docs /\ faults' = faults
  /\ call[m].at = "idle"
  /\ \/ call'[m] = call[m]
     \/ /\ call'[m].at = "store"
        /\ call'[m].path # Root =>
             IsDirectory(Dirname(call'[m].path)) /\ Named(call'[m].path) = {}
     \/ /\ call'[m].at = "remove"
        /\ IsDirectory(call'[m].path) /\ Entries(call'[m].path) = {}

Fails(m) == docs' = docs /\ faults' # 0 /\ (call'[m] = Idle \/ call'[m] = call[m])

(* It stores a new document, ... *)
Stores(m, i) ==
  /\ call[m].at = "store" /\ i \in Fresh
  /\ Becomes(m, i, Bare(call[m].path))
  /\ \/ call'[m] = [call[m] EXCEPT !.at = "update", !.id = i]
     \/ call'[m] = Idle /\ faults' # 0

(* ... sets its metadata if it is still there, ... *)
Updates(m) ==
  LET c == call[m]
  IN  /\ c.at = "update" /\ call'[m] = Idle
      /\ \/ docs' = docs /\ c.id \notin There
         \/ /\ c.id \in There
            /\ Becomes(m, c.id, [Whole(c.path, c.kind) EXCEPT !.filename = docs[c.id].filename])

(* ... removes the documents of a path, ... *)
Removes(m, p) ==
  /\ p \in Paths /\ p # Root
  /\ \A j \in Ids : docs'[j] = IF docs[j].filename = p THEN NoDoc ELSE docs[j]
  /\ \/ call[m].at = "remove" /\ call[m].path = p /\ call'[m] = Idle
     \/ call[m].at = "idle" /\ ~IsDirectory(p) /\ call'[m] = call[m]

(* ... or gives a document another path. *)
Renames(m, i, to) ==
  /\ i \in There /\ to \in Paths /\ to # Root /\ to # docs[i].filename
  /\ docs[i].kind # "directory"
  /\ IsDirectory(Dirname(to)) /\ ~IsDirectory(to)
  /\ Dirname(docs[i].filename) # Dirname(to) => "across" \in Scope
  /\ Becomes(m, i, [docs[i] EXCEPT !.filename = to, !.base = Basename(to)])
  /\ call[m].at = "idle" /\ call'[m] = call[m]

StepOf(m) ==
  /\ \A k \in Mounts \ {m} : call'[k] = call[k]
  /\ faults' \in Nat /\ (faults' = 0 => faults = 0)
  /\ \/ Looks(m) \/ Fails(m) \/ Updates(m)
     \/ \E i \in Ids : Stores(m, i)
     \/ \E p \in Paths : Removes(m, p)
     \/ \E i \in Ids, to \in Paths : Renames(m, i, to)

LEMMA FaultsGrow ==
  ASSUME TInv, Fault \/ NoFault
  PROVE  faults' \in Nat /\ (faults' = 0 => faults = 0) /\ (Fault => faults' # 0) /\ faults' \in 0..MaxFaults
BY TypesOf, NamespaceAssumption DEF Fault, NoFault, TInv, TypeOK

(* A handler that becomes c. *)
LEMMA CallBecomes ==
  ASSUME TInv, NEW m \in Mounts, NEW c, CallOK(c), call' = [call EXCEPT ![m] = c]
  PROVE  /\ call'[m] = c /\ \A k \in Mounts \ {m} : call'[k] = call[k]
         /\ call' \in [Mounts -> CallType] /\ \A k \in Mounts : CallOK(call'[k])
BY DEF TInv, CallOK

LEMMA Typed ==
  ASSUME docs' \in [Ids -> DocType \cup {NoDoc}], state' \in [Mounts -> {"down", "up"}],
         faults' \in 0..MaxFaults,
         call' \in [Mounts -> CallType], \A k \in Mounts : CallOK(call'[k])
  PROVE  TInv'
BY DEF TInv, TypeOK, DocType

----------------------------------------------------------------------------
(* Every action is one of these steps and keeps the shapes. *)
LEMMA loadRootStep ==
  ASSUME TInv, NEW m \in Mounts, loadRoot(m)
  PROVE  StepOf(m) /\ TInv'
<1> DEFINE c == [at |-> "store", path |-> Root, kind |-> "directory", id |-> 0]
<1>1. /\ call[m].at = "idle" /\ UNCHANGED <<docs, faults>>
      /\ \/ UNCHANGED call /\ state' = [state EXCEPT ![m] = "up"]
         \/ UNCHANGED state /\ call' = [call EXCEPT ![m] = c]
  BY IdleFields DEF loadRoot, Quiet
<1>2. CallOK(c) /\ c.at = "store" /\ c.path = Root
  BY RootIsPath DEF CallOK, CallType, Kinds
<1> HIDE DEF c
<1>3. state' \in [Mounts -> {"down", "up"}] /\ docs' \in [Ids -> DocType \cup {NoDoc}]
      /\ faults' \in 0..MaxFaults
  BY <1>1 DEF TInv, TypeOK, DocType
<1>4. CASE UNCHANGED call
  BY <1>1, <1>3, <1>4, Typed, TypesOf DEF TInv, StepOf, Looks
<1>5. CASE call' = [call EXCEPT ![m] = c]
  BY <1>1, <1>2, <1>3, <1>5, CallBecomes, Typed, TypesOf DEF StepOf, Looks
<1> QED
  BY <1>1, <1>4, <1>5

LEMMA makeStep ==
  ASSUME TInv, NEW m \in Mounts, NEW p \in Paths, NEW kind \in Kinds, make(m, p, kind)
  PROVE  StepOf(m) /\ TInv'
<1> DEFINE c == [at |-> "store", path |-> p, kind |-> kind, id |-> 0]
<1>1. /\ call[m].at = "idle" /\ UNCHANGED <<docs, state, faults>>
      /\ p # Root /\ IsDirectory(Dirname(p)) /\ Named(p) = {}
      /\ call' = [call EXCEPT ![m] = c]
  BY IdleFields DEF make, Ready, Quiet
<1>2. CallOK(c) /\ c.at = "store" /\ c.path = p
  BY <1>1 DEF CallOK, CallType, Kinds
<1> HIDE DEF c
<1>3. state' \in [Mounts -> {"down", "up"}] /\ docs' \in [Ids -> DocType \cup {NoDoc}]
      /\ faults' \in 0..MaxFaults
  BY <1>1 DEF TInv, TypeOK, DocType
<1> QED
  BY <1>1, <1>2, <1>3, CallBecomes, Typed, TypesOf DEF StepOf, Looks

LEMMA rmdirStep ==
  ASSUME TInv, NEW m \in Mounts, NEW p \in Paths, rmdir(m, p)
  PROVE  StepOf(m) /\ TInv'
<1> DEFINE c == [at |-> "remove", path |-> p, kind |-> "none", id |-> 0]
<1>1. /\ call[m].at = "idle" /\ UNCHANGED <<docs, state, faults>>
      /\ p # Root /\ IsDirectory(p) /\ Entries(p) = {}
      /\ call' = [call EXCEPT ![m] = c]
  BY IdleFields DEF rmdir, Ready, Quiet
<1>2. CallOK(c) /\ c.at = "remove" /\ c.path = p
  BY <1>1 DEF CallOK, CallType
<1> HIDE DEF c
<1>3. state' \in [Mounts -> {"down", "up"}] /\ docs' \in [Ids -> DocType \cup {NoDoc}]
      /\ faults' \in 0..MaxFaults
  BY <1>1 DEF TInv, TypeOK, DocType
<1> QED
  BY <1>1, <1>2, <1>3, CallBecomes, Typed, TypesOf DEF StepOf, Looks

(* One document becomes d. *)
LEMMA DocBecomes ==
  ASSUME TInv, NEW m, NEW i \in Ids, NEW d \in DocType \cup {NoDoc}, docs' = [docs EXCEPT ![i] = d]
  PROVE  Becomes(m, i, d) /\ docs' \in [Ids -> DocType \cup {NoDoc}]
BY DEF TInv, TypeOK, Becomes, DocType

LEMMA storeStep ==
  ASSUME TInv, NEW m \in Mounts, store(m)
  PROVE  StepOf(m) /\ TInv'
<1>0. /\ call[m].at = "store" /\ UNCHANGED state /\ CallOK(call[m])
      /\ call[m].path \in Paths /\ call[m].kind \in Kinds
  BY TypesOf DEF store, CallOK, CallType
<1>1. PICK i \in Fresh :
        \/ /\ Store(i, call[m].path) /\ NoFault
           /\ call' = [call EXCEPT ![m].at = "update", ![m].id = i]
        \/ Perhaps(Store(i, call[m].path)) /\ Fault /\ Return(m)
  BY DEF store
<1>2. i \in Ids
  BY DEF Fresh
<1>3. Store(i, call[m].path) =>
        Becomes(m, i, Bare(call[m].path)) /\ docs' \in [Ids -> DocType \cup {NoDoc}]
  BY <1>0, <1>2, BareFields, DocBecomes DEF Store
<1>4. UNCHANGED docs => docs' \in [Ids -> DocType \cup {NoDoc}]
  BY DEF TInv, TypeOK, DocType
<1>5. state' \in [Mounts -> {"down", "up"}] /\ faults' \in Nat /\ faults' \in 0..MaxFaults
      /\ (faults' = 0 => faults = 0)
  BY <1>0, <1>1, FaultsGrow DEF TInv, TypeOK
<1>6. CASE /\ Store(i, call[m].path) /\ NoFault
           /\ call' = [call EXCEPT ![m].at = "update", ![m].id = i]
  <2> DEFINE c == [call[m] EXCEPT !.at = "update", !.id = i]
  <2>1. CallOK(c)
    BY <1>0, <1>2, IdleFields DEF CallOK, CallType
  <2>2. call' = [call EXCEPT ![m] = c]
    BY <1>6 DEF TInv
  <2> HIDE DEF c
  <2>3. call'[m] = c /\ TInv' /\ \A k \in Mounts \ {m} : call'[k] = call[k]
    BY <1>3, <1>5, <1>6, <2>1, <2>2, CallBecomes, Typed
  <2>4. Stores(m, i)
    BY <1>0, <1>3, <1>6, <2>3 DEF Stores, c
  <2> QED
    BY <1>2, <1>5, <2>3, <2>4 DEF StepOf
<1>7. CASE Perhaps(Store(i, call[m].path)) /\ Fault /\ Return(m)
  <2>1. call'[m] = Idle /\ TInv' /\ \A k \in Mounts \ {m} : call'[k] = call[k]
    BY <1>3, <1>4, <1>5, <1>7, IdleFields, CallBecomes, Typed DEF Perhaps, Return
  <2>2. faults' # 0
    BY <1>7, FaultsGrow
  <2>3. Stores(m, i) \/ Fails(m)
    BY <1>0, <1>3, <1>7, <2>1, <2>2 DEF Stores, Fails, Perhaps
  <2> QED
    BY <1>2, <1>5, <2>1, <2>3 DEF StepOf
<1> QED
  BY <1>1, <1>6, <1>7

LEMMA updateStep ==
  ASSUME TInv, NEW m \in Mounts, update(m)
  PROVE  StepOf(m) /\ TInv'
<1> DEFINE c == call[m]
           d == [Whole(c.path, c.kind) EXCEPT !.filename = docs[c.id].filename]
<1>1. c.at = "update" /\ c.path \in Paths /\ c.kind \in Kinds /\ c.id \in Ids
  BY TypesOf DEF update, CallOK, CallType
<1>2. /\ \/ Update(c.id, c.path, c.kind) /\ NoFault
         \/ Perhaps(Update(c.id, c.path, c.kind)) /\ Fault
      /\ call' = [call EXCEPT ![m] = Idle]
      /\ state' \in [Mounts -> {"down", "up"}]
  BY DEF update, Return, TInv, TypeOK
<1>3. d \in DocType
  BY <1>1, WholeFields, TypesOf, DocFields
<1>4. Update(c.id, c.path, c.kind) =>
        /\ \/ docs' = docs /\ c.id \notin There
           \/ c.id \in There /\ Becomes(m, c.id, d)
        /\ docs' \in [Ids -> DocType \cup {NoDoc}]
  <2>1. docs' = docs => docs' \in [Ids -> DocType \cup {NoDoc}]
    BY DEF TInv, TypeOK, DocType
  <2>2. docs' = [docs EXCEPT ![c.id] = d] =>
          Becomes(m, c.id, d) /\ docs' \in [Ids -> DocType \cup {NoDoc}]
    <3> HIDE DEF d, c
    <3> QED
      BY <1>1, <1>3, DocBecomes
  <2> QED
    BY <2>1, <2>2 DEF Update
<1>5. docs' = docs => docs' \in [Ids -> DocType \cup {NoDoc}]
  BY DEF TInv, TypeOK, DocType
<1>6. faults' \in Nat /\ faults' \in 0..MaxFaults /\ (faults' = 0 => faults = 0)
      /\ (Fault => faults' # 0)
  BY <1>2, FaultsGrow
<1>7. call'[m] = Idle /\ TInv' /\ \A k \in Mounts \ {m} : call'[k] = call[k]
  <2> HIDE DEF c, d
  <2> QED
    BY <1>2, <1>4, <1>5, <1>6, IdleFields, CallBecomes, Typed DEF Perhaps
<1>8. Updates(m) \/ Fails(m)
  BY <1>1, <1>2, <1>4, <1>6, <1>7 DEF Updates, Fails, Perhaps
<1> QED
  BY <1>6, <1>7, <1>8 DEF StepOf

(* removeFile of a path takes its documents, or nothing. *)
LEMMA RemoveDocs ==
  ASSUME TInv, NEW p \in Paths, Perhaps(Remove(p))
  PROVE  /\ docs' \in [Ids -> DocType \cup {NoDoc}]
         /\ \/ docs' = docs
            \/ \A j \in Ids : docs'[j] = IF docs[j].filename = p THEN NoDoc ELSE docs[j]
BY DEF Perhaps, Remove, TInv, TypeOK, DocType

LEMMA removeStep ==
  ASSUME TInv, NEW m \in Mounts, remove(m)
  PROVE  StepOf(m) /\ TInv'
<1> DEFINE p == call[m].path
<1>1. call[m].at = "remove" /\ p \in Paths /\ p # Root /\ call' = [call EXCEPT ![m] = Idle]
      /\ state' \in [Mounts -> {"down", "up"}]
  BY TypesOf DEF remove, CallOK, CallType, Return, TInv, TypeOK
<1>2. (Remove(p) /\ NoFault) \/ (Perhaps(Remove(p)) /\ Fault)
  BY DEF remove
<1>3. faults' \in Nat /\ faults' \in 0..MaxFaults /\ (faults' = 0 => faults = 0)
      /\ (Fault => faults' # 0)
  BY <1>2, FaultsGrow
<1>4. docs' \in [Ids -> DocType \cup {NoDoc}]
  BY <1>1, <1>2, RemoveDocs DEF Perhaps
<1>5. call'[m] = Idle /\ TInv' /\ \A k \in Mounts \ {m} : call'[k] = call[k]
  BY <1>1, <1>3, <1>4, IdleFields, CallBecomes, Typed
<1>6. Removes(m, p) \/ Fails(m)
  BY <1>1, <1>2, <1>3, <1>5 DEF Removes, Fails, Perhaps, Remove
<1> QED
  BY <1>1, <1>3, <1>5, <1>6 DEF StepOf

LEMMA unlinkStep ==
  ASSUME TInv, NEW m \in Mounts, NEW p \in Paths, unlink(m, p)
  PROVE  StepOf(m) /\ TInv'
<1>1. call[m].at = "idle" /\ p # Root /\ ~IsDirectory(p) /\ UNCHANGED <<state, call>>
  BY IdleFields DEF unlink, Ready, Quiet
<1>2. (Remove(p) /\ NoFault) \/ (Perhaps(Remove(p)) /\ Fault)
  BY DEF unlink
<1>3. faults' \in Nat /\ faults' \in 0..MaxFaults /\ (faults' = 0 => faults = 0)
      /\ (Fault => faults' # 0)
  BY <1>2, FaultsGrow
<1>4. docs' \in [Ids -> DocType \cup {NoDoc}]
  BY <1>2, RemoveDocs DEF Perhaps
<1>5. TInv'
  BY <1>1, <1>3, <1>4, Typed DEF TInv, TypeOK
<1>6. Removes(m, p) \/ Fails(m)
  BY <1>1, <1>2, <1>3 DEF Removes, Fails, Perhaps, Remove
<1> QED
  BY <1>1, <1>3, <1>5, <1>6 DEF StepOf

LEMMA renameStep ==
  ASSUME TInv, NEW m \in Mounts, NEW p \in Paths, NEW to \in Paths, rename(m, p, to)
  PROVE  StepOf(m) /\ TInv'
<1>1. /\ call[m].at = "idle" /\ p # to /\ to # Root /\ ~IsDirectory(p) /\ ~IsDirectory(to)
      /\ IsDirectory(Dirname(to)) /\ (Dirname(p) # Dirname(to) => "across" \in Scope)
      /\ UNCHANGED <<state, call>>
  BY IdleFields DEF rename, Ready, Quiet
<1>2. PICK i \in Named(p) : (Rename(i, to) /\ NoFault) \/ (Perhaps(Rename(i, to)) /\ Fault)
  BY DEF rename
<1>3. i \in Ids /\ i \in There /\ docs[i].filename = p /\ docs[i].kind # "directory"
  BY <1>1, <1>2 DEF Named, There, IsDirectory
<1>4. faults' \in Nat /\ faults' \in 0..MaxFaults /\ (faults' = 0 => faults = 0)
      /\ (Fault => faults' # 0)
  BY <1>2, FaultsGrow
<1> DEFINE d == [docs[i] EXCEPT !.filename = to, !.base = Basename(to)]
<1>5. d \in DocType
  <2>1. docs[i] \in DocType
    BY <1>3, TypesOf DEF There
  <2> QED
    BY <2>1, PathParts DEF DocType
<1>6. Rename(i, to) => docs' = [docs EXCEPT ![i] = d]
  BY <1>3 DEF Rename, TInv, TypeOK
<1> HIDE DEF d
<1>7. Rename(i, to) => Becomes(m, i, d) /\ docs' \in [Ids -> DocType \cup {NoDoc}]
  BY <1>3, <1>5, <1>6, DocBecomes
<1>8. docs' = docs => docs' \in [Ids -> DocType \cup {NoDoc}]
  BY DEF TInv, TypeOK, DocType
<1>9. TInv'
  BY <1>1, <1>2, <1>4, <1>7, <1>8, Typed DEF TInv, TypeOK, Perhaps
<1>10. Renames(m, i, to) \/ Fails(m)
  BY <1>1, <1>2, <1>3, <1>4, <1>7 DEF Renames, Fails, Perhaps, d
<1> QED
  BY <1>1, <1>3, <1>4, <1>9, <1>10 DEF StepOf

LEMMA handlerStep ==
  ASSUME TInv, NEW m \in Mounts, handler(m)
  PROVE  StepOf(m) /\ TInv'
<1>1. CASE loadRoot(m) \/ store(m) \/ update(m) \/ remove(m)
  BY <1>1, loadRootStep, storeStep, updateStep, removeStep
<1>2. CASE \E p \in Paths : rmdir(m, p) \/ unlink(m, p)
  BY <1>2, rmdirStep, unlinkStep
<1>3. CASE \E p \in Paths, kind \in Kinds : make(m, p, kind)
  BY <1>3, makeStep
<1>4. CASE \E p, to \in Paths : rename(m, p, to)
  BY <1>4, renameStep
<1> QED
  BY <1>1, <1>2, <1>3, <1>4 DEF handler

LEMMA InitTyped == Init => TInv
<1> SUFFICES ASSUME Init PROVE TInv
  OBVIOUS
<1>1. docs \in [Ids -> DocType \cup {NoDoc}] /\ faults \in 0..MaxFaults
  BY NamespaceAssumption DEF Init
<1> QED
  BY <1>1, IdleFields DEF Init, TInv, TypeOK, DocType, CallOK

LEMMA NextTyped == TInv /\ [Next]_vars => TInv'
<1>1. ASSUME TInv, Next
      PROVE  TInv'
  BY <1>1, handlerStep DEF Next
<1>2. ASSUME TInv, UNCHANGED vars
      PROVE  TInv'
  BY <1>2 DEF TInv, TypeOK, vars
<1> QED
  BY <1>1, <1>2

(* Documents, mounts and handlers keep their shapes. *)
THEOREM TypeCorrect == Spec => []TypeOK
<1>1. TInv => TypeOK
  BY DEF TInv
<1> QED
  BY <1>1, InitTyped, NextTyped, PTL DEF Spec

----------------------------------------------------------------------------
(* Without a rename of a document that another mount is still making, the   *)
(* metadata of every document are the parts of its path, and an update      *)
(* finds the path it belongs to.                                            *)
Regular(i) ==
  docs[i].kind \in Kinds =>
    /\ docs[i].directory = Dirname(docs[i].filename)
    /\ docs[i].base = Basename(docs[i].filename)

Making(m, i) == call[m].at = "update" /\ call[m].id = i

SInv ==
  /\ "race" \notin excused => "moved" \notin excused
  /\ "moved" \notin excused =>
       /\ \A i \in Ids : Regular(i)
       /\ \A m \in Mounts, i \in There : Making(m, i) => docs[i].filename = call[m].path

(* What a step that is no such rename, and no race, leaves alone. *)
LEMMA NotMoved ==
  ASSUME NEW m \in Mounts, Watch(m), "moved" \notin excused'
  PROVE  /\ "moved" \notin excused
         /\ \A k \in Mounts \ {m}, i \in There :
              Making(k, i) /\ docs'[i] # NoDoc => docs'[i].filename = docs[i].filename
BY DEF Watch, Moved, Making

LEMMA NoRace ==
  ASSUME NEW m \in Mounts, Watch(m), "race" \notin excused', NEW k \in Mounts \ {m}, ~Quiet(k),
         NEW i \in Ids
  PROVE  /\ docs[i] # NoDoc /\ Near(docs[i].filename, call[k].path) => docs'[i] = docs[i]
         /\ docs'[i] # NoDoc /\ Near(docs'[i].filename, call[k].path) => docs'[i] = docs[i]
BY DEF Watch, Race

LEMMA ExcusesStay ==
  ASSUME NEW m, Watch(m), NEW e, e \notin excused'
  PROVE  e \notin excused
BY DEF Watch

LEMMA RaceIsWorse ==
  ASSUME TInv, SInv, NEW m \in Mounts, Watch(m), "race" \notin excused'
  PROVE  "moved" \notin excused'
<1>1. "race" \notin excused /\ "moved" \notin excused
  BY ExcusesStay DEF SInv
<1>2. ASSUME NEW k \in Mounts \ {m}, NEW i \in There, Making(k, i), docs'[i] # NoDoc
      PROVE  docs'[i].filename = docs[i].filename
  <2>1. docs[i].filename = call[k].path /\ docs[i] # NoDoc /\ i \in Ids
    BY <1>1, <1>2 DEF SInv, There
  <2>2. ~Quiet(k)
    BY <1>2, TypesOf DEF Making
  <2> QED
    BY <2>1, <2>2, NoRace DEF Near
<1> QED
  BY <1>1, <1>2 DEF Watch, Moved, Making

LEMMA StepRegular ==
  ASSUME TInv, TInv', SInv, NEW m \in Mounts, StepOf(m), Watch(m), OneDirectory,
         "moved" \notin excused'
  PROVE  /\ \A i \in Ids : Regular(i)'
         /\ \A k \in Mounts, i \in There' : Making(k, i)' => docs'[i].filename = call'[k].path
<1>0. /\ "moved" \notin excused
      /\ \A i \in Ids : Regular(i)
      /\ \A k \in Mounts, i \in There : Making(k, i) => docs[i].filename = call[k].path
      /\ \A k \in Mounts \ {m} : call'[k] = call[k]
      /\ \A k \in Mounts \ {m}, i \in There :
              Making(k, i) /\ docs'[i] # NoDoc => docs'[i].filename = docs[i].filename
      /\ Idle.at = "idle"
      /\ CallOK(call[m])
  BY NotMoved, IdleFields, TypesOf DEF SInv, StepOf
<1>1. CASE docs' = docs /\ call'[m].at # "update"
  BY <1>0, <1>1 DEF Regular, Making, There
<1>2. CASE Looks(m) \/ Fails(m)
  <2>1. docs' = docs /\ (call'[m].at # "update" \/ call'[m] = call[m])
    BY <1>0, <1>2 DEF Looks, Fails
  <2> QED
    BY <1>0, <2>1 DEF Regular, Making, There
<1>3. ASSUME NEW i \in Ids, Stores(m, i)
      PROVE  /\ \A j \in Ids : Regular(j)'
             /\ \A k \in Mounts, j \in There' : Making(k, j)' => docs'[j].filename = call'[k].path
  <2>1. /\ i \in Fresh /\ call[m].path \in Paths
        /\ docs'[i] = Bare(call[m].path) /\ \A j \in Ids \ {i} : docs'[j] = docs[j]
    BY <1>0, <1>3 DEF Stores, Becomes, CallOK, CallType
  <2>2. /\ docs'[i].kind = "bare" /\ docs'[i].filename = call[m].path /\ "bare" \notin Kinds
        /\ \A k \in Mounts : call[k].id # i
    BY <2>1, BareFields DEF Fresh, Kinds
  <2>3. call'[m].at = "update" => call'[m].id = i /\ call'[m].path = call[m].path
    BY <1>0, <1>3 DEF Stores, CallOK, CallType
  <2> QED
    BY <1>0, <2>1, <2>2, <2>3 DEF Regular, Making, There
<1>4. CASE Updates(m)
  <2> DEFINE c == call[m]
  <2>1. CASE docs' = docs
    BY <1>0, <1>1, <1>4, <2>1 DEF Updates
  <2>2. CASE /\ c.id \in There
             /\ Becomes(m, c.id, [Whole(c.path, c.kind) EXCEPT !.filename = docs[c.id].filename])
    <3>1. /\ c.at = "update" /\ c.path \in Paths /\ c.kind \in Kinds /\ call'[m] = Idle
          /\ c.id \in There /\ c.id \in Ids /\ docs[c.id].filename = c.path
      BY <1>0, <1>4, <2>2 DEF Updates, CallOK, CallType, Making, There
    <3>2. /\ docs'[c.id].filename = c.path /\ docs'[c.id].directory = Dirname(c.path)
          /\ docs'[c.id].base = Basename(c.path)
          /\ \A j \in Ids \ {c.id} : docs'[j] = docs[j]
      BY <2>2, <3>1, WholeFields DEF Becomes
    <3> HIDE DEF c
    <3>3. \A j \in Ids : Regular(j)'
      BY <1>0, <3>1, <3>2 DEF Regular
    <3> QED
      BY <1>0, <3>1, <3>2, <3>3 DEF Making, There, c
  <2> QED
    BY <1>4, <2>1, <2>2 DEF Updates
<1>5. ASSUME NEW p \in Paths, Removes(m, p)
      PROVE  /\ \A j \in Ids : Regular(j)'
             /\ \A k \in Mounts, j \in There' : Making(k, j)' => docs'[j].filename = call'[k].path
  <2>1. /\ \A j \in Ids : docs'[j] = docs[j] \/ docs'[j] = NoDoc
        /\ call'[m].at = "idle" /\ NoDoc.kind \notin Kinds
    BY <1>0, <1>5 DEF Removes, NoDoc, Kinds
  <2>2. \A j \in Ids : Regular(j)'
    BY <1>0, <2>1 DEF Regular
  <2>3. \A k \in Mounts, j \in Ids :
          docs'[j] # NoDoc /\ call'[k].at = "update" /\ call'[k].id = j =>
            docs'[j].filename = call'[k].path
    BY <1>0, <2>1 DEF Making, There
  <2> QED
    BY <2>2, <2>3 DEF Making, There
<1>6. ASSUME NEW i \in Ids, NEW to \in Paths, Renames(m, i, to)
      PROVE  /\ \A j \in Ids : Regular(j)'
             /\ \A k \in Mounts, j \in There' : Making(k, j)' => docs'[j].filename = call'[k].path
  <2>1. /\ i \in There /\ Dirname(docs[i].filename) = Dirname(to)
        /\ docs'[i] = [docs[i] EXCEPT !.filename = to, !.base = Basename(to)]
        /\ \A j \in Ids \ {i} : docs'[j] = docs[j]
        /\ call'[m].at = "idle"
    BY <1>0, <1>6 DEF Renames, Becomes, OneDirectory
  <2>2. /\ docs'[i].filename = to /\ docs'[i].base = Basename(to)
        /\ docs'[i].directory = docs[i].directory /\ docs'[i].kind = docs[i].kind
    <3>1. docs[i] \in DocType
      BY <2>1, TypesOf DEF There
    <3> QED
      BY <2>1, <3>1 DEF DocType
  <2>3. docs'[i] # NoDoc /\ to # docs[i].filename
    BY <1>6, <2>2, TypesOf DEF NoDoc, Renames
  <2>4. \A j \in Ids : Regular(j)'
    <3>1. Regular(i) /\ \A j \in Ids : Regular(j)
      BY <1>0
    <3>2. Regular(i)'
      BY <2>1, <2>2, <3>1 DEF Regular
    <3>3. ASSUME NEW j \in Ids, j # i
          PROVE  Regular(j)'
      BY <2>1, <3>1, <3>3 DEF Regular
    <3> QED
      BY <3>2, <3>3
  <2>5. \A k \in Mounts : ~Making(k, i)'
    <3>1. ~Making(m, i)'
      BY <2>1 DEF Making
    <3>2. ASSUME NEW k \in Mounts \ {m}, Making(k, i)'
          PROVE  FALSE
      <4>1. Making(k, i) /\ i \in There
        BY <1>0, <2>1, <3>2 DEF Making
      <4>2. docs'[i].filename = docs[i].filename
        BY <1>0, <2>3, <4>1
      <4> QED
        BY <2>2, <2>3, <4>2
    <3> QED
      BY <3>1, <3>2
  <2> QED
    BY <1>0, <2>1, <2>4, <2>5 DEF Making, There
<1> QED
  BY <1>2, <1>3, <1>4, <1>5, <1>6 DEF StepOf

LEMMA NextRegular ==
  ASSUME OneDirectory
  PROVE  TInv /\ SInv /\ [Next]_vars => (TInv /\ SInv)'
<1>1. ASSUME TInv, SInv, NEW m \in Mounts, handler(m), Watch(m)
      PROVE  SInv'
  <2>1. TInv' /\ StepOf(m)
    BY <1>1, handlerStep
  <2> QED
    BY <1>1, <2>1, RaceIsWorse, StepRegular DEF SInv
<1>2. ASSUME SInv, UNCHANGED vars
      PROVE  SInv'
  BY <1>2 DEF SInv, Regular, Making, There, vars
<1> QED
  BY <1>1, <1>2, NextTyped DEF Next

LEMMA InitRegular == Init => SInv
BY DEF Init, SInv, Regular, Making, There, NoDoc, Kinds

(* A name that a directory lists can be looked up, whatever calls fail and  *)
(* in any number of mounts, as long as no file leaves its directory and     *)
(* none is renamed while it is being made.                                  *)
THEOREM ListedIsFound == ASSUME OneDirectory PROVE Spec => []ListedIsThere
<1>1. ASSUME TInv, SInv
      PROVE  ListedIsThere
  <2> SUFFICES ASSUME "moved" \notin excused, NEW p \in Paths, NEW c \in Listing(p)
               PROVE  Named(Append(p, c)) # {}
    BY DEF ListedIsThere
  <2>1. PICK i \in Entries(p) : docs[i].base = c /\ c # RootName
    BY DEF Listing
  <2>2. /\ i \in There /\ i \in Ids /\ docs[i].directory = p
        /\ p = Dirname(docs[i].filename) /\ c = Basename(docs[i].filename)
    BY <1>1, <2>1 DEF Entries, There, SInv, Regular
  <2>3. docs[i].filename \in Paths
    BY <1>1, <2>2, TypesOf, DocFields
  <2>4. Append(p, c) = docs[i].filename
    BY <2>1, <2>2, <2>3, PathParts
  <2> QED
    BY <2>2, <2>4 DEF Named
<1>2. Spec => [](TInv /\ SInv)
  BY InitTyped, InitRegular, NextRegular, PTL DEF Spec
<1> QED
  BY <1>1, <1>2, PTL

----------------------------------------------------------------------------
(* Without failing calls a document without metadata is being made. *)
MInv ==
  faults = 0 =>
    \A i \in Ids : docs[i].kind = "bare" => \E m \in Mounts : Making(m, i)

LEMMA StepMaking ==
  ASSUME TInv, TInv', MInv, NEW m \in Mounts, StepOf(m)
  PROVE  MInv'
<1> SUFFICES ASSUME faults' = 0, NEW j \in Ids, docs'[j].kind = "bare"
             PROVE  \E k \in Mounts : Making(k, j)'
  BY DEF MInv
<1>0. /\ faults = 0 /\ \A k \in Mounts \ {m} : call'[k] = call[k]
      /\ Idle.at = "idle" /\ CallOK(call[m]) /\ "bare" \notin Kinds
  BY IdleFields, TypesOf DEF StepOf, Kinds
<1>1. ASSUME docs[j].kind = "bare", ~Making(m, j)
      PROVE  \E k \in Mounts : Making(k, j)'
  <2>1. PICK k \in Mounts : Making(k, j)
    BY <1>0, <1>1 DEF MInv
  <2>2. k # m
    BY <1>1, <2>1
  <2> QED
    BY <1>0, <2>1, <2>2 DEF Making
<1>2. CASE Looks(m)
  BY <1>1, <1>2 DEF Looks, Making
<1>3. CASE Fails(m)
  BY <1>3 DEF Fails
<1>4. ASSUME NEW i \in Ids, Stores(m, i)
      PROVE  \E k \in Mounts : Making(k, j)'
  <2>1. CASE j = i
    <3>1. call'[m] = [call[m] EXCEPT !.at = "update", !.id = i]
      BY <1>4 DEF Stores
    <3>2. call'[m].at = "update" /\ call'[m].id = i
      BY <1>0, <3>1 DEF CallOK, CallType
    <3> QED
      BY <2>1, <3>2 DEF Making
  <2>2. CASE j # i
    BY <1>1, <1>4, <2>2 DEF Stores, Becomes, Making
  <2> QED
    BY <2>1, <2>2
<1>5. CASE Updates(m)
  <2> DEFINE c == call[m]
  <2>1. c.at = "update" /\ c.path \in Paths /\ c.kind \in Kinds /\ c.id \in Ids
    BY <1>0, <1>5 DEF Updates, CallOK, CallType
  <2>2. CASE docs' = docs /\ c.id \notin There
    <3>1. ~Making(m, j)
      BY <2>2, TypesOf DEF Making
    <3> QED
      BY <1>1, <2>2, <3>1
  <2>3. CASE /\ c.id \in There
             /\ Becomes(m, c.id, [Whole(c.path, c.kind) EXCEPT !.filename = docs[c.id].filename])
    <3>1. docs[c.id].filename \in Paths
      BY <2>1, TypesOf, DocFields
    <3>2. docs'[c.id].kind = c.kind
      BY <2>1, <2>3, <3>1, WholeFields DEF Becomes
    <3>3. j # c.id /\ docs'[j] = docs[j]
      BY <1>0, <2>1, <2>3, <3>2 DEF Becomes
    <3> QED
      BY <1>1, <3>3 DEF Making
  <2> QED
    BY <1>5, <2>2, <2>3 DEF Updates
<1>6. ASSUME NEW p \in Paths, Removes(m, p)
      PROVE  \E k \in Mounts : Making(k, j)'
  <2>1. docs'[j] = docs[j] \/ docs'[j] = NoDoc
    BY <1>6 DEF Removes
  <2>2. NoDoc.kind # "bare"
    BY DEF NoDoc
  <2>3. call[m].at # "update"
    BY <1>6 DEF Removes
  <2> QED
    BY <1>1, <2>1, <2>2, <2>3 DEF Making
<1>7. ASSUME NEW i \in Ids, NEW to \in Paths, Renames(m, i, to)
      PROVE  \E k \in Mounts : Making(k, j)'
  <2>1. docs[i] \in DocType
    BY <1>7, TypesOf DEF Renames, There
  <2>2. docs[j].kind = "bare"
    BY <1>7, <2>1 DEF Renames, Becomes, DocType
  <2> QED
    BY <1>1, <1>7, <2>2 DEF Renames, Making
<1> QED
  BY <1>2, <1>3, <1>4, <1>5, <1>6, <1>7 DEF StepOf

LEMMA NextMaking == TInv /\ MInv /\ [Next]_vars => (TInv /\ MInv)'
<1>1. ASSUME TInv, MInv, Next
      PROVE  MInv'
  BY <1>1, handlerStep, StepMaking DEF Next
<1>2. ASSUME MInv, UNCHANGED vars
      PROVE  MInv'
  BY <1>2 DEF MInv, Making, vars
<1> QED
  BY <1>1, <1>2, NextTyped

LEMMA InitMaking == Init => MInv
BY DEF Init, MInv, NoDoc

(* Without failing calls, and with no handler under way, a directory lists  *)
(* exactly the files that can be looked up in it.                           *)
THEOREM ListingIsLookup == ASSUME OneDirectory PROVE Spec => []ListingMatchesLookup
<1>1. ASSUME TInv, SInv, MInv
      PROVE  ListingMatchesLookup
  <2> SUFFICES ASSUME faults = 0, "moved" \notin excused, AllQuiet, NEW p \in Paths
               PROVE  Listing(p) = {Basename(docs[i].filename) :
                                      i \in {j \in There : /\ docs[j].filename # Root
                                                           /\ Dirname(docs[j].filename) = p}}
    BY DEF ListingMatchesLookup
  <2> DEFINE Children == {j \in There : docs[j].filename # Root /\ Dirname(docs[j].filename) = p}
  <2>1. ASSUME NEW i \in There
        PROVE  /\ i \in Ids /\ docs[i].kind \in Kinds
               /\ docs[i].directory = Dirname(docs[i].filename)
               /\ docs[i].base = Basename(docs[i].filename)
               /\ Basename(docs[i].filename) = RootName <=> docs[i].filename = Root
    <3>1. i \in Ids /\ docs[i] \in DocType \cup {NoDoc} /\ docs[i].kind # "none"
      BY <1>1, TypesOf DEF There
    <3>2. docs[i].kind # "bare"
      BY <1>1, <3>1, TypesOf DEF MInv, Making, AllQuiet
    <3>3. docs[i].kind \in Kinds /\ docs[i].filename \in Paths
      BY <3>1, <3>2, DocFields
    <3> QED
      BY <1>1, <3>1, <3>3, PathParts DEF SInv, Regular
  <2>2. ASSUME NEW c \in Listing(p)
        PROVE  \E i \in Children : c = Basename(docs[i].filename)
    BY <2>1 DEF Listing, Entries
  <2>3. ASSUME NEW i \in Children
        PROVE  Basename(docs[i].filename) \in Listing(p)
    BY <2>1 DEF Listing, Entries
  <2> QED
    BY <2>2, <2>3
<1>2. Spec => [](TInv /\ SInv /\ MInv)
  BY InitTyped, InitRegular, InitMaking, NextRegular, NextMaking, PTL DEF Spec
<1> QED
  BY <1>1, <1>2, PTL

----------------------------------------------------------------------------
(* Of the documents of a path other than the root there is one, and a path  *)
(* that a handler is about to store has none.                               *)
UInv ==
  excused = {} =>
    /\ \A i, j \in There :
         docs[i].filename = docs[j].filename /\ docs[i].filename # Root => i = j
    /\ \A m \in Mounts, i \in There :
         call[m].at = "store" /\ call[m].path # Root => docs[i].filename # call[m].path

LEMMA NotOnto ==
  ASSUME NEW m, Watch(m), excused' = {}
  PROVE  /\ excused = {} /\ "race" \notin excused'
         /\ \A i, j \in There : docs'[i] # NoDoc /\ docs'[i].filename # docs[i].filename =>
              docs[j].filename # docs'[i].filename
<1>1. ~Onto /\ excused = {} /\ "race" \notin excused'
  BY DEF Watch
<1> QED
  BY <1>1 DEF Onto, Named

LEMMA StepUnique ==
  ASSUME TInv, TInv', UInv, NEW m \in Mounts, StepOf(m), Watch(m)
  PROVE  UInv'
<1> SUFFICES ASSUME excused' = {}
             PROVE  /\ \A i, j \in There' :
                         docs'[i].filename = docs'[j].filename /\ docs'[i].filename # Root => i = j
                    /\ \A k \in Mounts, i \in There' :
                         call'[k].at = "store" /\ call'[k].path # Root =>
                           docs'[i].filename # call'[k].path
  BY DEF UInv
<1>0. /\ \A i, j \in There :
           docs[i].filename = docs[j].filename /\ docs[i].filename # Root => i = j
      /\ \A k \in Mounts, i \in There :
           call[k].at = "store" /\ call[k].path # Root => docs[i].filename # call[k].path
      /\ \A i, j \in There : docs'[i] # NoDoc /\ docs'[i].filename # docs[i].filename =>
           docs[j].filename # docs'[i].filename
      /\ \A k \in Mounts \ {m} : call'[k] = call[k]
      /\ Idle.at = "idle" /\ CallOK(call[m])
      /\ \A i \in Ids : i \in There <=> docs[i] # NoDoc
      /\ \A i \in Ids : i \in There' <=> docs'[i] # NoDoc
      /\ There \subseteq Ids /\ There' \subseteq Ids
  BY NotOnto, IdleFields, TypesOf DEF UInv, StepOf, There
(* Another mount does not store a path that a handler is about to store.    *)
<1>1. ASSUME NEW k \in Mounts \ {m}, NEW i \in There',
             call[k].at = "store", call[k].path # Root
      PROVE  docs'[i].filename # call[k].path
  <2>1. ~Quiet(k)
    BY <1>1, TypesOf
  <2>2. Near(docs'[i].filename, call[k].path) => docs'[i] = docs[i]
    BY <1>0, <1>1, <2>1, NoRace, NotOnto
  <2> QED
    BY <1>0, <1>1, <2>2 DEF Near
(* Enough, when the handler of this mount stores nothing next.              *)
<1>2. ASSUME \A i, j \in There' :
               docs'[i].filename = docs'[j].filename /\ docs'[i].filename # Root => i = j,
             call'[m].at # "store"
      PROVE  /\ \A i, j \in There' :
                  docs'[i].filename = docs'[j].filename /\ docs'[i].filename # Root => i = j
             /\ \A k \in Mounts, i \in There' :
                  call'[k].at = "store" /\ call'[k].path # Root =>
                    docs'[i].filename # call'[k].path
  BY <1>0, <1>1, <1>2
<1>3. CASE Looks(m)
  <2>1. docs' = docs /\ There' = There
    BY <1>3 DEF Looks, There
  <2>2. call'[m].at = "store" /\ call'[m].path # Root =>
          call[m].at = "store" \/ \A i \in There : docs[i].filename # call'[m].path
    BY <1>3 DEF Looks, Named
  <2>3. call'[m] = call[m] \/ call[m].at = "idle"
    BY <1>3 DEF Looks
  <2> QED
    BY <1>0, <2>1, <2>2, <2>3
<1>4. CASE Fails(m)
  <2>1. docs' = docs /\ There' = There /\ (call'[m].at = "idle" \/ call'[m] = call[m])
    BY <1>0, <1>4 DEF Fails, There
  <2> QED
    BY <1>0, <2>1
<1>5. ASSUME NEW i \in Ids, Stores(m, i)
      PROVE  /\ \A j, k \in There' :
                  docs'[j].filename = docs'[k].filename /\ docs'[j].filename # Root => j = k
             /\ call'[m].at # "store"
  <2>1. /\ call[m].path \in Paths /\ call[m].at = "store" /\ docs'[i].filename = call[m].path
        /\ \A j \in Ids \ {i} : docs'[j] = docs[j]
    BY <1>0, <1>5, BareFields DEF Stores, Becomes, CallOK, CallType
  <2>2. \A j \in There' : j # i => j \in There /\ docs'[j] = docs[j]
    BY <1>0, <2>1
  <2>3. call'[m].at # "store"
    BY <1>0, <1>5 DEF Stores, CallOK, CallType
  <2> QED
    BY <1>0, <2>1, <2>2, <2>3
<1>6. CASE Updates(m)
  <2>1. call[m].path \in Paths /\ call[m].kind \in Kinds /\ call[m].id \in Ids
        /\ docs[call[m].id].filename \in Paths /\ call'[m].at = "idle"
    BY <1>0, <1>6, TypesOf, DocFields DEF Updates, CallOK, CallType
  <2> DEFINE c == call[m]
             d == [Whole(c.path, c.kind) EXCEPT !.filename = docs[c.id].filename]
  <2>2. \A j \in There' : j \in There /\ docs'[j].filename = docs[j].filename
    <3>1. d.filename = docs[c.id].filename
      BY <2>1, WholeFields
    <3>2. \/ docs' = docs
          \/ c.id \in There /\ docs'[c.id] = d /\ \A j \in Ids \ {c.id} : docs'[j] = docs[j]
      BY <1>6 DEF Updates, Becomes
    <3> HIDE DEF c, d
    <3> QED
      BY <1>0, <3>1, <3>2
  <2> QED
    BY <1>0, <1>2, <2>1, <2>2
<1>7. ASSUME NEW p \in Paths, Removes(m, p)
      PROVE  /\ \A j, k \in There' :
                  docs'[j].filename = docs'[k].filename /\ docs'[j].filename # Root => j = k
             /\ call'[m].at # "store"
  <2>1. \A j \in There' : j \in There /\ docs'[j] = docs[j]
    BY <1>0, <1>7 DEF Removes
  <2>2. call'[m].at # "store"
    BY <1>0, <1>7 DEF Removes
  <2> QED
    BY <1>0, <2>1, <2>2
<1>8. ASSUME NEW i \in Ids, NEW to \in Paths, Renames(m, i, to)
      PROVE  /\ \A j, k \in There' :
                  docs'[j].filename = docs'[k].filename /\ docs'[j].filename # Root => j = k
             /\ call'[m].at # "store"
  <2>1. docs[i] \in DocType
    BY <1>8, TypesOf DEF Renames, There
  <2>2. /\ docs'[i].filename = to /\ \A j \in Ids \ {i} : docs'[j] = docs[j]
        /\ to # docs[i].filename /\ i \in There /\ call'[m].at # "store"
        /\ docs'[i].kind = docs[i].kind
    BY <1>8, <2>1 DEF Renames, Becomes, DocType
  <2>3. i \in There'
    BY <1>0, <2>2, TypesOf DEF NoDoc
  <2>4. \A j \in There' : j # i => j \in There /\ docs'[j] = docs[j]
    BY <1>0, <2>2
  <2>5. \A j \in There : docs[j].filename # to
    BY <1>0, <2>2, <2>3
  <2> QED
    BY <1>0, <2>2, <2>4, <2>5
<1> QED
  BY <1>2, <1>3, <1>4, <1>5, <1>6, <1>7, <1>8 DEF StepOf

LEMMA NextUnique == TInv /\ UInv /\ [Next]_vars => (TInv /\ UInv)'
<1>1. ASSUME TInv, UInv, Next
      PROVE  UInv'
  BY <1>1, handlerStep, StepUnique DEF Next
<1>2. ASSUME UInv, UNCHANGED vars
      PROVE  UInv'
  BY <1>2 DEF UInv, There, vars
<1> QED
  BY <1>1, <1>2, NextTyped

(* A path has one document: failed calls, retries, renames and removals in  *)
(* any number of mounts never make a second, short of a race or a rename    *)
(* onto another file.                                                       *)
THEOREM PathsAreUnique == Spec => []UniquePaths
<1>1. ASSUME UInv
      PROVE  UniquePaths
  <2> SUFFICES ASSUME excused = {}, NEW p \in Paths \ {Root}
               PROVE  Cardinality(Named(p)) <= 1
    BY DEF UniquePaths
  <2>1. CASE Named(p) = {}
    BY <2>1, FS_EmptySet
  <2>2. ASSUME NEW i \in Named(p)
        PROVE  Cardinality(Named(p)) <= 1
    <3>1. Named(p) = {i}
      BY <1>1, <2>2 DEF UInv, Named
    <3>2. Cardinality({i}) = 1
      BY FS_Singleton
    <3> QED
      BY <3>1, <3>2
  <2> QED
    BY <2>1, <2>2
<1>2. Spec => [](TInv /\ UInv)
  <2>1. Init => UInv
    BY DEF Init, UInv, There
  <2> QED
    BY <2>1, InitTyped, NextUnique, PTL DEF Spec
<1> QED
  BY <1>1, <1>2, PTL

----------------------------------------------------------------------------
(* Every document is in a directory that is there, but for a root that is   *)
(* still being made.                                                        *)
Housed(i) ==
  \/ IsDirectory(Dirname(docs[i].filename))
  \/ \E m \in Mounts : Making(m, i) /\ call[m].path = Root

(* What a handler has found is still so when it acts on it: the directory   *)
(* it stores into, the document it has stored, and the directory it removes *)
(* with nothing in it but what others are about to make.                    *)
Waits(m) ==
  /\ call[m].at = "store" /\ call[m].path # Root => IsDirectory(Dirname(call[m].path))
  /\ call[m].at = "update" => docs[call[m].id].kind = "bare"
  /\ call[m].at = "remove" =>
       /\ IsDirectory(call[m].path)
       /\ \A i \in Ids : docs[i].kind \in Kinds => Dirname(docs[i].filename) # call[m].path

OInv ==
  (faults = 0 /\ "race" \notin excused) =>
    (\A i \in There : Housed(i)) /\ \A m \in Mounts : Waits(m)

LEMMA DirectoryDoc ==
  ASSUME NEW p
  PROVE  /\ IsDirectory(p) <=> \E i \in Ids : docs[i].kind = "directory" /\ docs[i].filename = p
         /\ IsDirectory(p)' <=> \E i \in Ids : docs'[i].kind = "directory" /\ docs'[i].filename = p
BY DEF IsDirectory, Named, There, NoDoc

(* The steps of a history without failing calls and races. *)
Calm(m) ==
  /\ TInv /\ TInv' /\ SInv /\ MInv /\ OInv
  /\ StepOf(m) /\ Watch(m)
  /\ faults' = 0 /\ "race" \notin excused'

LEMMA CalmNow ==
  ASSUME NEW m \in Mounts, Calm(m)
  PROVE  /\ faults = 0 /\ "race" \notin excused /\ "moved" \notin excused
         /\ \A i \in There : Housed(i)
         /\ \A k \in Mounts : Waits(k)
         /\ \A i \in Ids : Regular(i)
         /\ \A k \in Mounts, i \in There : Making(k, i) => docs[i].filename = call[k].path
         /\ \A k \in Mounts \ {m} : call'[k] = call[k]
         /\ \A i \in Ids : docs[i].kind = "bare" => \E k \in Mounts : Making(k, i)
         /\ \A i \in Ids : i \in There <=> docs[i].kind # "none"
         /\ \A i \in Ids : i \in There' <=> docs'[i].kind # "none"
         /\ CallOK(call[m])
<1>1. faults = 0 /\ "race" \notin excused /\ "moved" \notin excused
  BY ExcusesStay DEF Calm, StepOf, SInv
<1>2. \A i \in Ids : i \in There' <=> docs'[i].kind # "none"
  <2>1. \A i \in Ids : docs'[i] \in DocType \cup {NoDoc}
    BY DEF Calm, TInv, TypeOK, DocType
  <2> QED
    BY <2>1, DocFields DEF There
<1> QED
  BY <1>1, <1>2, TypesOf DEF Calm, StepOf, SInv, MInv, OInv

(* A document near the path another handler is at stays as it is. *)
LEMMA NearStays ==
  ASSUME NEW m \in Mounts, Calm(m), NEW k \in Mounts \ {m}, call[k].at # "idle", NEW i \in Ids
  PROVE  /\ docs[i].kind # "none" /\ Near(docs[i].filename, call[k].path) => docs'[i] = docs[i]
         /\ docs'[i].kind # "none" /\ Near(docs'[i].filename, call[k].path) => docs'[i] = docs[i]
<1>1. ~Quiet(k)
  BY TypesOf DEF Calm
<1>2. NoDoc.kind = "none"
  BY DEF NoDoc
<1> QED
  BY <1>1, <1>2, NoRace DEF Calm

LEMMA NearDirectoryStays ==
  ASSUME NEW m \in Mounts, Calm(m), NEW k \in Mounts \ {m}, call[k].at # "idle", NEW p,
         Near(p, call[k].path), IsDirectory(p)
  PROVE  IsDirectory(p)'
BY NearStays, DirectoryDoc

(* No step but a rmdir of it takes a directory. *)
LEMMA DirectoryStays ==
  ASSUME NEW m \in Mounts, Calm(m), NEW p, IsDirectory(p),
         ~(call[m].at = "remove" /\ call[m].path = p)
  PROVE  IsDirectory(p)'
<1>1. PICK i \in Ids : docs[i].kind = "directory" /\ docs[i].filename = p
  BY DirectoryDoc
<1>2. SUFFICES docs'[i] = docs[i]
  BY <1>1, DirectoryDoc
<1>3. CASE Looks(m) \/ Fails(m)
  BY <1>3 DEF Looks, Fails
<1>4. ASSUME NEW j \in Ids, Stores(m, j)
      PROVE  docs'[i] = docs[i]
  BY <1>1, <1>4, CalmNow DEF Stores, Becomes, Fresh
<1>5. CASE Updates(m)
  <2>1. docs[call[m].id].kind = "bare"
    BY <1>5, CalmNow DEF Updates, Waits
  <2> QED
    BY <1>1, <1>5, <2>1 DEF Updates, Becomes
<1>6. ASSUME NEW q \in Paths, Removes(m, q)
      PROVE  docs'[i] = docs[i]
  BY <1>1, <1>6 DEF Removes
<1>7. ASSUME NEW j \in Ids, NEW to \in Paths, Renames(m, j, to)
      PROVE  docs'[i] = docs[i]
  BY <1>1, <1>7 DEF Renames, Becomes
<1> QED
  BY <1>3, <1>4, <1>5, <1>6, <1>7 DEF Calm, StepOf

(* The handlers of other mounts find what they found. *)
LEMMA OthersWait ==
  ASSUME NEW m \in Mounts, Calm(m), NEW k \in Mounts \ {m}
  PROVE  Waits(k)'
<1>0. call'[k] = call[k] /\ Waits(k) /\ CallOK(call[k])
  BY CalmNow, TypesOf DEF Calm
<1>1. CASE call[k].at = "store" /\ call[k].path # Root
  <2>1. Near(Dirname(call[k].path), call[k].path) /\ IsDirectory(Dirname(call[k].path))
    BY <1>0, <1>1 DEF Near, Waits
  <2>2. \E i \in Ids : docs'[i].kind = "directory" /\ docs'[i].filename = Dirname(call[k].path)
    BY <1>1, <2>1, NearDirectoryStays, DirectoryDoc
  <2>3. \E i \in Ids : docs'[i].kind = "directory" /\ docs'[i].filename = Dirname(call'[k].path)
    BY <1>0, <2>2
  <2> QED
    BY <1>0, <1>1, <2>3 DEF Waits, IsDirectory, Named, There, NoDoc
<1>2. CASE call[k].at = "update"
  <2> DEFINE i == call[k].id
  <2>1. i \in Ids /\ docs[i].kind = "bare"
    BY <1>0, <1>2 DEF CallOK, Waits
  <2>2. docs[i].filename = call[k].path
    BY <1>2, <2>1, CalmNow DEF Making
  <2>3. docs'[i] = docs[i]
    BY <1>2, <2>1, <2>2, NearStays DEF Near
  <2> QED
    BY <1>0, <1>2, <2>1, <2>3 DEF Waits
<1>3. CASE call[k].at = "remove"
  <2>1. Near(call[k].path, call[k].path) /\ IsDirectory(call[k].path)
    BY <1>0, <1>3 DEF Near, Waits
  <2>2. \E i \in Ids : docs'[i].kind = "directory" /\ docs'[i].filename = call[k].path
    BY <1>3, <2>1, NearDirectoryStays, DirectoryDoc
  <2>3. ASSUME NEW i \in Ids, docs'[i].kind \in Kinds, Dirname(docs'[i].filename) = call[k].path
        PROVE  FALSE
    <3>1. docs'[i] = docs[i]
      BY <1>3, <2>3, NearStays DEF Near, Kinds
    <3> QED
      BY <1>0, <1>3, <2>3, <3>1 DEF Waits
  <2>4. \E i \in Ids : docs'[i].kind = "directory" /\ docs'[i].filename = call'[k].path
    BY <1>0, <2>2
  <2> QED
    BY <1>0, <1>3, <2>3, <2>4 DEF Waits, IsDirectory, Named, There, NoDoc
<1>4. CASE ~(call[k].at = "store" /\ call[k].path # Root)
           /\ call[k].at # "update" /\ call[k].at # "remove"
  BY <1>0, <1>4 DEF Waits
<1> QED
  BY <1>1, <1>2, <1>3, <1>4

(* So does the handler of this mount. *)
LEMMA SelfWaits ==
  ASSUME NEW m \in Mounts, Calm(m)
  PROVE  Waits(m)'
<1>1. CASE Looks(m)
  <2>1. docs' = docs /\ There' = There
    BY <1>1 DEF Looks, There
  <2>2. CASE call'[m] = call[m] /\ call[m].at = "idle"
    BY <2>2 DEF Waits
  <2>3. CASE /\ call'[m].at = "store"
             /\ call'[m].path # Root => IsDirectory(Dirname(call'[m].path))
    BY <2>1, <2>3 DEF Waits, IsDirectory, Named
  <2>4. CASE /\ call'[m].at = "remove"
             /\ IsDirectory(call'[m].path) /\ Entries(call'[m].path) = {}
    <3>1. IsDirectory(call'[m].path) => IsDirectory(call[m].path)'
      BY <2>1 DEF IsDirectory, Named
    <3>2. ASSUME NEW i \in Ids, docs[i].kind \in Kinds, Dirname(docs[i].filename) = call'[m].path
          PROVE  FALSE
      <4>1. i \in There /\ docs[i].directory = call'[m].path
        BY <3>2, CalmNow DEF Regular, Kinds
      <4> QED
        BY <2>4, <3>2, <4>1 DEF Entries
    <3> QED
      BY <2>1, <2>4, <3>1, <3>2 DEF Waits
  <2> QED
    BY <1>1, <2>2, <2>3, <2>4 DEF Looks
<1>2. CASE Fails(m)
  BY <1>2 DEF Fails, Calm
<1>3. ASSUME NEW i \in Ids, Stores(m, i)
      PROVE  Waits(m)'
  <2>1. call'[m] = [call[m] EXCEPT !.at = "update", !.id = i] /\ CallOK(call[m])
    BY <1>3, CalmNow DEF Stores, Calm
  <2>2. call'[m].at = "update" /\ call'[m].id = i /\ call[m].path \in Paths
    BY <2>1 DEF CallOK, CallType
  <2>3. docs'[i].kind = "bare"
    BY <1>3, <2>2, BareFields DEF Stores, Becomes
  <2> QED
    BY <2>2, <2>3 DEF Waits
<1>4. CASE call'[m].at = "idle"
  BY <1>4 DEF Waits
<1>5. Updates(m) => call'[m].at = "idle"
  BY IdleFields DEF Updates
<1>6. \A p \in Paths : Removes(m, p) => call'[m].at = "idle"
  BY IdleFields DEF Removes
<1>7. \A i \in Ids, to \in Paths : Renames(m, i, to) => call'[m].at = "idle"
  BY DEF Renames
<1> QED
  BY <1>1, <1>2, <1>3, <1>4, <1>5, <1>6, <1>7 DEF Calm, StepOf

(* A document whose path stays. *)
LEMMA SamePathHoused ==
  ASSUME NEW m \in Mounts, Calm(m), NEW i \in There, docs'[i].filename = docs[i].filename,
         ~Making(m, i) \/ call[m].path # Root,
         ~(call[m].at = "remove" /\ call[m].path = Dirname(docs[i].filename))
  PROVE  Housed(i)'
<1>1. Housed(i)
  BY CalmNow
<1>2. CASE IsDirectory(Dirname(docs[i].filename))
  <2>1. \E j \in Ids : docs'[j].kind = "directory" /\ docs'[j].filename = Dirname(docs[i].filename)
    BY <1>2, DirectoryStays, DirectoryDoc
  <2> QED
    BY <2>1 DEF Housed, IsDirectory, Named, There, NoDoc
<1>3. ASSUME NEW k \in Mounts, Making(k, i), call[k].path = Root
      PROVE  Housed(i)'
  <2>1. k # m /\ call'[k] = call[k]
    BY <1>3, CalmNow
  <2> QED
    BY <1>3, <2>1 DEF Housed, Making
<1> QED
  BY <1>1, <1>2, <1>3 DEF Housed

LEMMA StepHoused ==
  ASSUME NEW m \in Mounts, Calm(m), NEW i \in There'
  PROVE  Housed(i)'
<1>0. /\ i \in Ids /\ docs'[i].kind # "none" /\ CallOK(call[m]) /\ Idle.at = "idle"
      /\ Dirname(Root) = Root
  BY CalmNow, IdleFields DEF There, Dirname
<1>1. CASE Looks(m)
  <2>1. docs' = docs /\ i \in There /\ call[m].at = "idle"
    BY <1>1 DEF Looks, There
  <2> QED
    BY <2>1, SamePathHoused DEF Making
<1>2. CASE Fails(m)
  BY <1>2 DEF Fails, Calm
<1>3. ASSUME NEW j \in Ids, Stores(m, j)
      PROVE  Housed(i)'
  <2>1. CASE i # j
    <3>1. docs'[i] = docs[i] /\ i \in There /\ call[m].at = "store"
      BY <1>0, <1>3, <2>1, CalmNow DEF Stores, Becomes
    <3> QED
      BY <3>1, SamePathHoused DEF Making
  <2>2. CASE i = j
    <3>1. /\ docs'[i].filename = call[m].path /\ call[m].at = "store" /\ call[m].path \in Paths
          /\ call'[m] = [call[m] EXCEPT !.at = "update", !.id = i]
      BY <1>0, <1>3, <2>2, BareFields DEF Stores, Becomes, CallOK, CallType, Calm
    <3>2. CASE call[m].path = Root
      <4>1. call'[m].at = "update" /\ call'[m].id = i /\ call'[m].path = Root
        BY <1>0, <3>1, <3>2 DEF CallOK, CallType
      <4> QED
        BY <4>1 DEF Housed, Making
    <3>3. CASE call[m].path # Root
      <4>1. IsDirectory(Dirname(call[m].path))
        BY <3>1, <3>3, CalmNow DEF Waits
      <4>2. \E k \in Ids : docs'[k].kind = "directory" /\ docs'[k].filename = Dirname(call[m].path)
        BY <3>1, <4>1, DirectoryStays, DirectoryDoc
      <4> QED
        BY <3>1, <4>2 DEF Housed, IsDirectory, Named, There, NoDoc
    <3> QED
      BY <3>2, <3>3
  <2> QED
    BY <2>1, <2>2
<1>4. CASE Updates(m)
  <2> DEFINE c == call[m]
             d == [Whole(c.path, c.kind) EXCEPT !.filename = docs[c.id].filename]
  <2>1. /\ c.at = "update" /\ c.path \in Paths /\ c.kind \in Kinds /\ c.id \in Ids
        /\ c.path = Root => c.kind = "directory"
    BY <1>0, <1>4 DEF Updates, CallOK, CallType
  <2>2. c.id \in There /\ docs[c.id].filename = c.path
    BY <2>1, CalmNow DEF Waits, Making
  <2>3. Becomes(m, c.id, d)
    BY <1>4, <2>2 DEF Updates
  <2>4. d.filename = c.path /\ d.kind = c.kind
    <3> DEFINE f == docs[c.id].filename
    <3>1. f = c.path /\ f \in Paths
      BY <2>1, <2>2
    <3>2. d = [Whole(c.path, c.kind) EXCEPT !.filename = f]
      OBVIOUS
    <3> HIDE DEF f, c, d
    <3> QED
      BY <2>1, <3>1, <3>2, WholeFields
  <2> HIDE DEF d
  <2>5. docs'[c.id].filename = c.path /\ docs'[c.id].kind = c.kind
        /\ \A j \in Ids \ {c.id} : docs'[j] = docs[j]
    BY <2>3, <2>4 DEF Becomes
  <2>6. i \in There /\ docs'[i].filename = docs[i].filename
    BY <1>0, <2>2, <2>5, CalmNow
  <2>7. CASE c.path = Root /\ i = c.id
    <3>1. docs'[i].kind = "directory" /\ docs'[i].filename = Root
      BY <2>1, <2>5, <2>7
    <3> QED
      BY <1>0, <3>1 DEF Housed, IsDirectory, Named
  <2>8. CASE ~(c.path = Root /\ i = c.id)
    BY <2>1, <2>6, <2>8, SamePathHoused DEF Making
  <2> QED
    BY <2>7, <2>8
<1>5. ASSUME NEW p \in Paths, Removes(m, p)
      PROVE  Housed(i)'
  <2>1. i \in There /\ docs'[i] = docs[i] /\ ~Making(m, i)
    BY <1>0, <1>5, CalmNow DEF Removes, NoDoc, Making
  <2>2. CASE call[m].at = "remove" /\ call[m].path = Dirname(docs[i].filename)
    <3>1. docs[i].kind = "bare"
      <4>1. docs[i].kind \in Kinds \cup {"bare", "none"} /\ docs[i].kind # "none"
        BY <1>0, <2>1, TypesOf, DocFields DEF Calm
      <4>2. docs[i].kind \notin Kinds
        BY <1>0, <2>2, CalmNow DEF Waits
      <4> QED
        BY <4>1, <4>2
    <3>2. PICK k \in Mounts : Making(k, i)
      BY <1>0, <3>1, CalmNow
    <3>3. k # m /\ call[k].at = "update" /\ docs[i].filename = call[k].path
      BY <2>1, <3>2, CalmNow DEF Making
    <3>4. IsDirectory(Dirname(docs[i].filename))
      BY <2>2, CalmNow DEF Waits
    <3>5. Near(Dirname(docs[i].filename), call[k].path)
      BY <3>3 DEF Near
    <3>6. \E j \in Ids : docs'[j].kind = "directory" /\ docs'[j].filename = Dirname(docs[i].filename)
      BY <3>3, <3>4, <3>5, NearDirectoryStays, DirectoryDoc
    <3> QED
      BY <2>1, <3>6 DEF Housed, IsDirectory, Named, There, NoDoc
  <2>3. CASE ~(call[m].at = "remove" /\ call[m].path = Dirname(docs[i].filename))
    BY <2>1, <2>3, SamePathHoused
  <2> QED
    BY <2>2, <2>3
<1>6. ASSUME NEW j \in Ids, NEW to \in Paths, Renames(m, j, to)
      PROVE  Housed(i)'
  <2>1. /\ call[m].at = "idle" /\ j \in There /\ IsDirectory(Dirname(to))
        /\ docs'[j] = [docs[j] EXCEPT !.filename = to, !.base = Basename(to)]
        /\ \A k \in Ids \ {j} : docs'[k] = docs[k]
    BY <1>6 DEF Renames, Becomes
  <2>2. CASE i # j
    <3>1. i \in There /\ docs'[i] = docs[i]
      BY <1>0, <2>1, <2>2, CalmNow
    <3> QED
      BY <2>1, <3>1, SamePathHoused DEF Making
  <2>3. CASE i = j
    <3>1. docs'[i].filename = to
      <4>1. docs[j] \in DocType
        BY <2>1, TypesOf DEF Calm, There
      <4> QED
        BY <2>1, <2>3, <4>1 DEF DocType
    <3>2. \E k \in Ids : docs'[k].kind = "directory" /\ docs'[k].filename = Dirname(to)
      BY <2>1, DirectoryStays, DirectoryDoc
    <3> QED
      BY <3>1, <3>2 DEF Housed, IsDirectory, Named, There, NoDoc
  <2> QED
    BY <2>2, <2>3
<1> QED
  BY <1>1, <1>2, <1>3, <1>4, <1>5, <1>6 DEF Calm, StepOf

LEMMA NextHoused ==
  ASSUME TInv, SInv, MInv, OInv, [Next]_vars
  PROVE  OInv'
<1>1. ASSUME NEW m \in Mounts, handler(m), Watch(m)
      PROVE  OInv'
  <2> SUFFICES ASSUME faults' = 0, "race" \notin excused'
               PROVE  (\A i \in There : Housed(i))' /\ (\A k \in Mounts : Waits(k))'
    BY DEF OInv
  <2>1. Calm(m)
    BY <1>1, handlerStep DEF Calm
  <2>2. \A i \in There' : Housed(i)'
    BY <2>1, StepHoused
  <2>3. \A k \in Mounts : Waits(k)'
    BY <2>1, OthersWait, SelfWaits
  <2> QED
    BY <2>2, <2>3
<1>2. CASE UNCHANGED vars
  BY <1>2 DEF OInv, Housed, Waits, Making, IsDirectory, Named, There, vars
<1> QED
  BY <1>1, <1>2 DEF Next

(* Without failing calls and races every file is in a directory that is     *)
(* there, through any order of making, removing and renaming: rmdir never   *)
(* takes a directory from under a file that any mount has made.             *)
THEOREM FilesAreHoused == ASSUME OneDirectory PROVE Spec => []NoOrphans
<1>1. ASSUME TInv, OInv
      PROVE  NoOrphans
  <2> SUFFICES ASSUME faults = 0, "race" \notin excused, AllQuiet, NEW i \in There
               PROVE  IsDirectory(Dirname(docs[i].filename))
    BY DEF NoOrphans
  <2>1. \A m \in Mounts : ~Making(m, i)
    BY <1>1, TypesOf DEF AllQuiet, Making
  <2> QED
    BY <1>1, <2>1 DEF OInv, Housed
<1>2. Init => OInv
  BY IdleFields DEF Init, OInv, There, Waits
<1>3. TInv /\ SInv /\ MInv /\ OInv /\ [Next]_vars => (TInv /\ SInv /\ MInv /\ OInv)'
  BY NextRegular, NextMaking, NextHoused
<1> QED
  BY <1>1, <1>2, <1>3, InitTyped, InitRegular, InitMaking, PTL DEF Spec
=============================================================================
