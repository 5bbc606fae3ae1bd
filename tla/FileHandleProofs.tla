-------------------------- MODULE FileHandleProofs --------------------------
(***************************************************************************)
(* Proofs about FileHandle.tla for every width of the counter, every       *)
(* minimum handle and every set of callers and names.                      *)
(***************************************************************************)
EXTENDS FileHandle, TLAPS

(* Between searches the counter is at a handle: only the loop sees it      *)
(* wrapped.                                                                *)
CounterAtRest == ~search.running => FILE_HANDLE \in Handles

(* A search works for a caller that has no handle yet.                     *)
CallerWaits == search.running => fh[search.caller] = 0

(* Every handle the search went past is in use: those between its start    *)
(* and the counter, and after the wrap those above the start and those     *)
(* below the counter.                                                      *)
PassedUsed ==
  search.running =>
    \A g \in Handles :
      \/ FILE_HANDLE > search.orig /\ search.orig < g /\ g < FILE_HANDLE
      \/ FILE_HANDLE <= search.orig /\ (search.orig < g \/ g < FILE_HANDLE)
      => ~Table!Unused(fileHandles, g)

(* The inductive invariant.  HandleNamesItsFile alone is not inductive: a  *)
(* closing caller would erase the entry of another one that shares its     *)
(* handle (DistinctHandles), and a new one could be given the handle of an *)
(* old one if that had lost its entry.                                     *)
IInv ==
  /\ TypeOK
  /\ CounterAtRest
  /\ CallerWaits
  /\ PassedUsed
  /\ HandleNamesItsFile
  /\ DistinctHandles
  /\ NoLeakedEntry

USE DEF Handles, Search, NoSearch

(* The loop lifts a counter that is no handle to the least handle.         *)
LEMMA LiftIsHandle ==
  ASSUME NEW h \in 0..MaxHandle
  PROVE  Lift(h) \in Handles /\ (h > MinHandle => Lift(h) = h)
                             /\ (h <= MinHandle => Lift(h) = MinHandle)
  BY FileHandleAssumption DEF Lift

(* ++ on the counter stays within its type.                                *)
LEMMA IncrementInRange ==
  ASSUME NEW h \in 0..MaxHandle
  PROVE  /\ Increment(h) \in 0..MaxHandle
         /\ h = MaxHandle => Increment(h) = 0
         /\ h < MaxHandle => Increment(h) = h + 1
  BY FileHandleAssumption DEF Increment

(* A search that runs has a caller, a name and a start.                    *)
LEMMA RunningSearch ==
  ASSUME TypeOK, search.running
  PROVE  search \in Search
<1>1. NoSearch.running = FALSE
  BY Zenon
<1>2. search # NoSearch
  BY <1>1
<1> QED
  BY <1>2, Zenon DEF TypeOK

(* An empty table and a counter at _MIN_FILE_HANDLE satisfy the invariant. *)
LEMMA InitInvariant == Init => IInv
  BY FileHandleAssumption
     DEF Init, IInv, TypeOK, CounterAtRest, CallerWaits, PassedUsed,
         HandleNamesItsFile, DistinctHandles, NoLeakedEntry

(* The start of a search: the counter has not passed any handle yet.       *)
LEMMA AssignInvariant ==
  ASSUME IInv, NEW o \in Opens, NEW n \in Names, assignHandle(o, n)
  PROVE  IInv'
<1> USE FileHandleAssumption DEF IInv, assignHandle
<1>1. /\ FILE_HANDLE \in Handles
      /\ search'.running /\ search'.orig = FILE_HANDLE /\ search'.caller = o
      /\ search' \in Search
  BY DEF CounterAtRest
<1>2. FILE_HANDLE' \in 0..MaxHandle
  BY <1>1, IncrementInRange DEF TypeOK
<1>3. TypeOK'
  BY <1>1, <1>2 DEF TypeOK
<1>4. CounterAtRest' /\ CallerWaits'
  BY <1>1 DEF CounterAtRest, CallerWaits
<1>5. PassedUsed'
  BY <1>1, IncrementInRange DEF PassedUsed
<1>6. HandleNamesItsFile' /\ DistinctHandles' /\ NoLeakedEntry'
  BY DEF HandleNamesItsFile, DistinctHandles, NoLeakedEntry
<1> QED
  BY <1>3, <1>4, <1>5, <1>6

(* The search gives its caller a handle nobody holds.                      *)
LEMMA GrantInvariant ==
  ASSUME IInv, search.running, NEW h \in Handles, h # search.orig,
         Table!Unused(fileHandles, h), Return(h)
  PROVE  IInv' /\ fh' # fh
<1> USE FileHandleAssumption DEF IInv
<1> DEFINE c == search.caller
<1>1. /\ search' = NoSearch
      /\ FILE_HANDLE' = h
      /\ fileHandles' = [fileHandles EXCEPT ![h] = search.name]
      /\ fh' = [fh EXCEPT ![c] = h]
      /\ path' = [path EXCEPT ![c] = search.name]
  BY DEF Return, Insert, Table!WithHandle
<1>2. search \in Search
  BY RunningSearch
<1>3. /\ fileHandles[h] = NoName
      /\ fh[c] = 0
      /\ c \in Opens /\ search.name \in Names
      /\ h # 0
  BY <1>2 DEF CallerWaits, Table!Unused
<1>4. \A p \in Opens : fh[p] # h
  BY <1>3 DEF HandleNamesItsFile
<1>5. /\ fileHandles'[h] = search.name
      /\ \A g \in Handles : g # h => fileHandles'[g] = fileHandles[g]
      /\ fh'[c] = h
      /\ path'[c] = search.name
      /\ \A p \in Opens : p # c => fh'[p] = fh[p] /\ path'[p] = path[p]
  BY <1>1, <1>3 DEF TypeOK
<1>6. TypeOK'
  BY <1>1, <1>2 DEF TypeOK
<1>7. CounterAtRest' /\ CallerWaits' /\ PassedUsed'
  BY <1>1 DEF CounterAtRest, CallerWaits, PassedUsed
<1>8. HandleNamesItsFile'
  <2> SUFFICES ASSUME NEW o \in Opens, fh'[o] # 0
               PROVE  path'[o] \in Names /\ fileHandles'[fh'[o]] = path'[o]
    BY DEF HandleNamesItsFile
  <2>1. CASE o = c
    BY <2>1, <1>3, <1>5
  <2>2. CASE o # c
    <3>1. fh'[o] = fh[o] /\ path'[o] = path[o] /\ fh[o] # h /\ fh[o] \in Handles
      BY <2>2, <1>4, <1>5 DEF TypeOK
    <3> QED
      BY <3>1, <1>5 DEF HandleNamesItsFile
  <2> QED
    BY <2>1, <2>2
<1>9. DistinctHandles'
  BY <1>3, <1>4, <1>5 DEF DistinctHandles
<1>10. NoLeakedEntry'
  <2> SUFFICES ASSUME NEW g \in Handles, fileHandles'[g] # NoName
               PROVE  \E o \in Opens : fh'[o] = g
    BY DEF NoLeakedEntry
  <2>1. CASE g = h
    BY <2>1, <1>3, <1>5
  <2>2. CASE g # h
    <3>1. PICK o \in Opens : fh[o] = g
      BY <2>2, <1>5 DEF NoLeakedEntry
    <3> QED
      BY <3>1, <1>3, <1>5
  <2> QED
    BY <2>1, <2>2
<1>11. fh' # fh
  BY <1>3, <1>5
<1> QED
  BY <1>6, <1>7, <1>8, <1>9, <1>10, <1>11

(* The search gives up at the handle it started from.                      *)
LEMMA RefuseInvariant ==
  ASSUME IInv, search.running, Return(search.orig)
  PROVE  IInv'
<1>1. search \in Search
  BY RunningSearch DEF IInv
<1> QED
  BY <1>1, FileHandleAssumption
     DEF Return, IInv, TypeOK, CounterAtRest, CallerWaits, PassedUsed,
         HandleNamesItsFile, DistinctHandles, NoLeakedEntry

(* Past a handle in use the search still knows all it went past.           *)
LEMMA ProbeInvariant ==
  ASSUME IInv, probeUsed
  PROVE  IInv'
<1> USE FileHandleAssumption DEF IInv, probeUsed
<1> DEFINE l == Lift(FILE_HANDLE)
<1>1. FILE_HANDLE \in 0..MaxHandle /\ search \in Search /\ search.orig \in Handles
  BY RunningSearch DEF TypeOK
<1>2. /\ l \in Handles
      /\ FILE_HANDLE > MinHandle => l = FILE_HANDLE
      /\ FILE_HANDLE <= MinHandle => l = MinHandle
  BY <1>1, LiftIsHandle
<1>3. /\ FILE_HANDLE' \in 0..MaxHandle
      /\ l = MaxHandle => FILE_HANDLE' = 0
      /\ l < MaxHandle => FILE_HANDLE' = l + 1
  <2> HIDE DEF l
  <2> QED BY <1>2, IncrementInRange DEF l
<1>4. TypeOK'
  BY <1>3 DEF TypeOK
<1>5. CounterAtRest' /\ CallerWaits'
  BY DEF CounterAtRest, CallerWaits
<1>6. PassedUsed'
  <2> SUFFICES ASSUME NEW g \in Handles,
                      \/ FILE_HANDLE' > search.orig /\ search.orig < g /\ g < FILE_HANDLE'
                      \/ FILE_HANDLE' <= search.orig /\ (search.orig < g \/ g < FILE_HANDLE')
               PROVE  ~Table!Unused(fileHandles, g)
    BY DEF PassedUsed, Table!Unused
  <2>1. CASE g = l
    BY <2>1
  <2>2. CASE g # l
    <3> HIDE DEF l
    <3>1. \/ FILE_HANDLE > search.orig /\ search.orig < g /\ g < FILE_HANDLE
          \/ FILE_HANDLE <= search.orig /\ (search.orig < g \/ g < FILE_HANDLE)
      BY <2>2, <1>1, <1>2, <1>3
    <3> QED
      BY <3>1 DEF PassedUsed
  <2> QED
    BY <2>1, <2>2
<1>7. HandleNamesItsFile' /\ DistinctHandles' /\ NoLeakedEntry'
  BY DEF HandleNamesItsFile, DistinctHandles, NoLeakedEntry
<1> QED
  BY <1>4, <1>5, <1>6, <1>7

(* Closing erases the entry of one caller and of no other.                 *)
LEMMA UnassignInvariant ==
  ASSUME IInv, NEW o \in Opens, unassignHandle(o)
  PROVE  IInv'
<1> USE FileHandleAssumption DEF IInv
<1>1. fh[o] \in Handles
  BY DEF unassignHandle, TypeOK
<1>2. /\ ~search.running /\ UNCHANGED <<search, FILE_HANDLE>>
      /\ fileHandles' = [fileHandles EXCEPT ![fh[o]] = NoName]
      /\ fh' = [fh EXCEPT ![o] = 0]
      /\ path' = [path EXCEPT ![o] = NoName]
  BY DEF unassignHandle, Table!WithoutHandle
<1>3. TypeOK'
  BY <1>2 DEF TypeOK
<1>4. CounterAtRest' /\ CallerWaits' /\ PassedUsed'
  BY <1>2 DEF CounterAtRest, CallerWaits, PassedUsed
<1>5. \A p \in Opens : p # o => /\ fh'[p] = fh[p]
                                /\ path'[p] = path[p]
                                /\ fh[p] # fh[o]
  BY <1>1, <1>2 DEF TypeOK, DistinctHandles
<1>6. fh'[o] = 0 /\ \A g \in Handles : g # fh[o] => fileHandles'[g] = fileHandles[g]
  BY <1>1, <1>2 DEF TypeOK
<1>7. HandleNamesItsFile'
  <2> SUFFICES ASSUME NEW p \in Opens, fh'[p] # 0
               PROVE  path'[p] \in Names /\ fileHandles'[fh'[p]] = path'[p]
    BY DEF HandleNamesItsFile
  <2>1. p # o /\ fh'[p] = fh[p] /\ fh[p] \in Handles
    BY <1>5, <1>6 DEF TypeOK
  <2> QED
    BY <2>1, <1>5, <1>6 DEF HandleNamesItsFile
<1>8. DistinctHandles'
  BY <1>5, <1>6 DEF DistinctHandles
<1>9. NoLeakedEntry'
  <2> SUFFICES ASSUME NEW g \in Handles, fileHandles'[g] # NoName
               PROVE  \E p \in Opens : fh'[p] = g
    BY DEF NoLeakedEntry
  <2>1. g # fh[o]
    BY <1>1, <1>2 DEF TypeOK
  <2>2. PICK p \in Opens : fh[p] = g
    BY <2>1, <1>6 DEF NoLeakedEntry
  <2> QED
    BY <2>1, <2>2, <1>5
<1> QED
  BY <1>3, <1>4, <1>7, <1>8, <1>9

(* Where a search can stop: at a free handle that is not its start, or at  *)
(* its start with every other handle in use.                               *)
LEMMA WhereSearchStops ==
  ASSUME IInv, probeFree \/ exhausted
  PROVE  /\ search.running
         /\ \/ \E h \in Handles : h # search.orig /\ Table!Unused(fileHandles, h) /\ Return(h)
            \/ Return(search.orig) /\ Free \subseteq {search.orig}
<1> USE FileHandleAssumption DEF IInv
<1>0. search.running
  BY DEF probeFree, exhausted
<1>1. FILE_HANDLE \in 0..MaxHandle /\ search \in Search /\ search.orig \in Handles
  BY <1>0, RunningSearch DEF TypeOK
<1>2. CASE exhausted
  BY <1>0, <1>1, <1>2 DEF exhausted, PassedUsed, Free
<1>3. CASE probeFree
  <2> DEFINE l == Lift(FILE_HANDLE)
  <2>1. /\ l \in Handles
        /\ FILE_HANDLE > MinHandle => l = FILE_HANDLE
        /\ FILE_HANDLE <= MinHandle => l = MinHandle
    BY <1>1, LiftIsHandle
  <2>2. FILE_HANDLE # search.orig /\ Table!Unused(fileHandles, l) /\ Return(l)
    BY <1>3 DEF probeFree
  <2> HIDE DEF l
  <2>3. CASE l # search.orig
    BY <1>0, <2>1, <2>2, <2>3
  <2>4. CASE l = search.orig
    <3>1. FILE_HANDLE < search.orig /\ search.orig = MinHandle
      BY <1>1, <2>1, <2>2, <2>4
    <3>2. \A g \in Handles : g # search.orig => ~Table!Unused(fileHandles, g)
      BY <1>0, <1>1, <3>1 DEF PassedUsed
    <3> QED
      BY <1>0, <2>2, <2>4, <3>2 DEF Free
  <2> QED
    BY <2>3, <2>4
<1> QED
  BY <1>2, <1>3

(* Every step of the table keeps the invariant.                            *)
LEMMA StepInvariant == IInv /\ [Next]_vars => IInv'
<1> SUFFICES ASSUME IInv, [Next]_vars PROVE IInv'
  OBVIOUS
<1>1. CASE probeFree \/ exhausted
  BY <1>1, WhereSearchStops, GrantInvariant, RefuseInvariant
<1>2. CASE probeUsed
  BY <1>2, ProbeInvariant
<1>3. CASE \E o \in Opens, n \in Names : assignHandle(o, n)
  BY <1>3, AssignInvariant
<1>4. CASE \E o \in Opens : unassignHandle(o)
  BY <1>4, UnassignInvariant
<1>5. CASE UNCHANGED vars
  BY <1>5 DEF vars, IInv, TypeOK, CounterAtRest, CallerWaits, PassedUsed, HandleNamesItsFile,
              DistinctHandles, NoLeakedEntry, Table!Unused
<1> QED
  BY <1>1, <1>2, <1>3, <1>4, <1>5 DEF Next, generateNextHandle

(* The inductive invariant holds in every reachable state.                 *)
LEMMA Invariant == Spec => []IInv
  BY InitInvariant, StepInvariant, PTL DEF Spec

(* The type invariant of the handle table is an invariant. *)
THEOREM TypeCorrect == Spec => []TypeOK
<1>1. IInv => TypeOK
  BY DEF IInv
<1> QED
  BY <1>1, Invariant, PTL

(* A held handle leads to the file its holder opened, for every width of    *)
(* the counter and any number of callers: however often it wraps.          *)
THEOREM HandlesLeadToFiles == Spec => []HandleNamesItsFile
<1>1. IInv => HandleNamesItsFile
  BY DEF IInv
<1> QED
  BY <1>1, Invariant, PTL

(* No two holders share a handle: closing one never closes another.        *)
THEOREM HandlesAreDistinct == Spec => []DistinctHandles
<1>1. IInv => DistinctHandles
  BY DEF IInv
<1> QED
  BY <1>1, Invariant, PTL

(* No entry of the table outlives its holder, so closing what was opened   *)
(* gives every handle back.                                                *)
THEOREM NoEntryLeaks == Spec => []NoLeakedEntry
<1>1. IInv => NoLeakedEntry
  BY DEF IInv
<1> QED
  BY <1>1, Invariant, PTL

(* A refused open leaves at most one handle free, the one the search       *)
(* started from.                                                           *)
THEOREM RefusalJustified == Spec => RefusedOnlyWhenNearlyFull
<1> DEFINE Refusal == search.running /\ ~search'.running /\ fh' = fh
           Justified == Refusal => Free \subseteq {search.orig}
<1>1. ASSUME IInv, [Next]_vars PROVE [Justified]_vars
  <2> SUFFICES ASSUME Refusal PROVE Free \subseteq {search.orig}
    OBVIOUS
  <2>1. CASE probeFree \/ exhausted
    BY <1>1, <2>1, WhereSearchStops, GrantInvariant
  <2>2. CASE ~(probeFree \/ exhausted)
    BY <1>1, <2>2 DEF Next, generateNextHandle, probeUsed, assignHandle, unassignHandle, vars
  <2> QED
    BY <2>1, <2>2
<1>2. QED
  BY <1>1, Invariant, PTL DEF Spec, RefusedOnlyWhenNearlyFull

(* The counter and the bimap implement the abstract handle table: every    *)
(* entry that appears was unused, and no entry ever changes its name.      *)
THEOREM Refinement == Spec => ImplementsTable
<1>1. Init => Table!Init
  BY DEF Init, Table!Init
<1>2. ASSUME IInv, [Next]_vars PROVE [Table!Next]_fileHandles
  <2>1. CASE probeFree \/ exhausted
    <3>1. ASSUME NEW h \in Handles, h # search.orig, Table!Unused(fileHandles, h), Return(h)
          PROVE  Table!Next
      <4>1. search.name \in Names
        BY <1>2, <2>1, WhereSearchStops, RunningSearch DEF IInv
      <4>2. fileHandles' = Table!WithHandle(fileHandles, h, search.name)
        BY <3>1 DEF Return, Insert
      <4> QED
        BY <3>1, <4>1, <4>2 DEF Table!Next, Table!Assign
    <3>2. CASE Return(search.orig)
      BY <3>2 DEF Return
    <3> QED
      BY <1>2, <2>1, <3>1, <3>2, WhereSearchStops
  <2>2. ASSUME NEW o \in Opens, unassignHandle(o)
        PROVE  Table!Next
    <3>1. fh[o] \in Handles /\ fileHandles[fh[o]] # NoName
      BY <1>2, <2>2, FileHandleAssumption DEF unassignHandle, IInv, TypeOK, HandleNamesItsFile
    <3>2. fileHandles' = Table!WithoutHandle(fileHandles, fh[o])
      BY <2>2 DEF unassignHandle
    <3> QED
      BY <3>1, <3>2 DEF Table!Next, Table!Unassign, Table!Unused
  <2>3. CASE probeUsed \/ UNCHANGED vars
    BY <2>3 DEF probeUsed, vars
  <2>4. ASSUME NEW o \in Opens, NEW n \in Names, assignHandle(o, n)
        PROVE  UNCHANGED fileHandles
    BY <2>4 DEF assignHandle
  <2> QED
    BY <1>2, <2>1, <2>2, <2>3, <2>4 DEF Next, generateNextHandle
<1> QED
  BY <1>1, <1>2, Invariant, PTL DEF Spec, ImplementsTable, Table!Spec
=============================================================================
