--------------------- MODULE LocalMemoryGridFileProofs ---------------------
(***************************************************************************)
(* The chunks of an in-memory file hold it, and it keeps below its limit,  *)
(* for every chunk size and limit, through every allocation, download and  *)
(* flush that fails half way.                                              *)
(***************************************************************************)
EXTENDS LocalMemoryGridFile, Integers, TLAPS

(* The ranges of the constants. *)
LEMMA Constants ==
  /\ ChunkSize \in Nat \ {0} /\ MaxChunks \in Nat \ {0}
  /\ RemoteChunk \in Nat \ {0}
  /\ MaxSize \in Nat \ {0}
<1>1. ChunkSize * MaxChunks \in Nat \ {0}
  BY LocalMemoryGridFileAssumption
<1> QED
  BY <1>1, LocalMemoryGridFileAssumption DEF MaxSize

(* The ranges of what the kernel passes. *)
LEMMA Inputs ==
  /\ Offsets \subseteq 0..MaxSize /\ Lengths \subseteq 1..MaxSize
  /\ Sizes \subseteq 0..MaxSize
BY LocalMemoryGridFileAssumption

(* What a quotient bounds. *)
LEMMA QuotientBounds ==
  ASSUME NEW x \in Nat, NEW d \in Nat \ {0}
  PROVE  /\ x \div d \in Nat
         /\ (x \div d) * d <= x
         /\ x < (x \div d) * d + d
OBVIOUS

(* An order of products is one of their factors. *)
LEMMA CancelFactor ==
  ASSUME NEW a \in Int, NEW b \in Int, NEW d \in Nat \ {0}, a * d < b * d
  PROVE  a < b
OBVIOUS

(* A multiple has no remainder. *)
LEMMA MultipleHasNoRemainder ==
  ASSUME NEW k \in Nat, NEW d \in Nat \ {0}
  PROVE  (k * d) % d = 0
OBVIOUS

(* The chunks for n bytes hold them, and the last is needed. *)
LEMMA ChunksForBounds ==
  ASSUME NEW n \in Nat
  PROVE  /\ ChunksFor(n) \in Nat
         /\ n <= ChunksFor(n) * ChunkSize
         /\ ChunksFor(n) * ChunkSize < n + ChunkSize
<1> DEFINE q == (n + ChunkSize - 1) \div ChunkSize
<1>1. n + ChunkSize - 1 \in Nat
  BY Constants
<1>2. q \in Nat /\ q * ChunkSize <= n + ChunkSize - 1 /\ n + ChunkSize - 1 < q * ChunkSize + ChunkSize
  BY <1>1, Constants, QuotientBounds
<1> HIDE DEF q
<1>3. q * ChunkSize \in Int
  BY <1>2, Constants
<1>4. n <= q * ChunkSize /\ q * ChunkSize < n + ChunkSize
  BY <1>2, <1>3, Constants
<1> QED
  BY <1>2, <1>4 DEF ChunksFor, q

(* Of whole chunks it is their number. *)
LEMMA ChunksForWhole ==
  ASSUME NEW k \in Nat
  PROVE  ChunksFor(k * ChunkSize) = k
<1> DEFINE q == ChunksFor(k * ChunkSize)
<1>1. k * ChunkSize \in Nat
  BY Constants
<1>2. q \in Nat /\ k * ChunkSize <= q * ChunkSize /\ q * ChunkSize < k * ChunkSize + ChunkSize
  BY <1>1, ChunksForBounds
<1> HIDE DEF q
<1>3. k * ChunkSize + ChunkSize = (k + 1) * ChunkSize
  BY Constants
<1>4. q < k + 1
  BY <1>2, <1>3, Constants, CancelFactor
<1>5. k < q + 1
  <2>1. (q + 1) * ChunkSize = q * ChunkSize + ChunkSize
    BY <1>2, Constants
  <2>2. q * ChunkSize \in Int
    BY <1>2, Constants
  <2>3. k * ChunkSize < (q + 1) * ChunkSize
    BY <1>1, <1>2, <2>1, <2>2, Constants
  <2> QED
    BY <1>2, <2>3, Constants, CancelFactor
<1> QED
  BY <1>2, <1>4, <1>5 DEF q

(* A file below the limit needs no more chunks than there may be. *)
LEMMA ChunksForLimit ==
  ASSUME NEW n \in Nat, n < MaxSize
  PROVE  ChunksFor(n) <= MaxChunks
<1>1. ChunksFor(n) \in Nat /\ ChunksFor(n) * ChunkSize < n + ChunkSize
  BY ChunksForBounds
<1>2. MaxSize = MaxChunks * ChunkSize
  BY Constants DEF MaxSize
<1>3. MaxSize + ChunkSize = (MaxChunks + 1) * ChunkSize
  BY <1>2, Constants
<1>4. ChunksFor(n) * ChunkSize \in Int
  BY <1>1, Constants
<1>5. ChunksFor(n) * ChunkSize < (MaxChunks + 1) * ChunkSize
  BY <1>1, <1>3, <1>4, Constants
<1>6. ChunksFor(n) < MaxChunks + 1
  BY <1>1, <1>5, Constants, CancelFactor
<1> QED
  BY <1>1, <1>6, Constants

----------------------------------------------------------------------------
(* A size and a capacity that go together: whole chunks, not too many, that *)
(* hold the file.                                                           *)
Fit(s, c) ==
  /\ \E k \in 0..MaxChunks : c = k * ChunkSize
  /\ s \in Nat /\ s <= c /\ s < MaxSize

LEMMA FitRanges ==
  ASSUME NEW s, NEW c, Fit(s, c)
  PROVE  s \in 0..MaxSize /\ c \in 0..MaxSize /\ c % ChunkSize = 0
<1>1. PICK k \in 0..MaxChunks : c = k * ChunkSize
  BY DEF Fit
<1>2. c \in Nat /\ c % ChunkSize = 0
  BY <1>1, Constants, MultipleHasNoRemainder
<1>3. c <= MaxSize
  BY <1>1, Constants DEF MaxSize
<1> QED
  BY <1>2, <1>3, Constants DEF Fit

(* What the members of an object are, and that an open one has a view.      *)
IInv ==
  /\ TypeOK
  /\ Fit(size, capacity)
  /\ status = "open" => view \in File

(* setSize keeps size and capacity together, even when the allocator gives  *)
(* out after some chunks, as long as it is asked for no negative size.      *)
LEMMA setSizeFits ==
  ASSUME IInv, NEW n \in Nat, NEW granted \in Nat
  PROVE  /\ Fit(setSize(n, granted).size, setSize(n, granted).capacity)
         /\ setSize(n, granted).dirty \in BOOLEAN
<1>1. PICK k \in 0..MaxChunks : capacity = k * ChunkSize
  BY DEF IInv, Fit
<1>2. /\ capacity \in 0..MaxSize /\ size \in 0..MaxSize
      /\ size <= capacity /\ size < MaxSize /\ dirty \in BOOLEAN
  BY FitRanges DEF IInv, Fit, TypeOK
<1>3. CASE n <= size \/ n < capacity
  <2>1. setSize(n, granted) = InPlace(n)
    BY <1>3 DEF setSize
  <2>2. n <= capacity /\ n < MaxSize
    BY <1>2, <1>3, Constants
  <2> QED
    BY <1>1, <2>1, <2>2 DEF InPlace, Fit
<1>4. CASE ~(n <= size \/ n < capacity) /\ n >= MaxSize
  <2>1. setSize(n, granted) = Refused
    BY <1>4 DEF setSize
  <2> QED
    BY <1>2, <2>1 DEF Refused, IInv
<1>5. CASE ~(n <= size \/ n < capacity) /\ ~(n >= MaxSize)
  <2> DEFINE missing == ChunksFor(n) - ChunksFor(capacity)
             got == Smaller(granted, missing)
             room == capacity + got * ChunkSize
  <2>1. setSize(n, granted) = [ok |-> got = missing,
                               size |-> IF got = 0 THEN size ELSE Smaller(room, n),
                               capacity |-> room,
                               dirty |-> dirty \/ got > 0]
    BY <1>5 DEF setSize, Grown
  <2>2. ChunksFor(capacity) = k
    BY <1>1, ChunksForWhole
  <2>3. capacity <= n /\ n < MaxSize
    BY <1>2, <1>5, Constants
  <2>4. ChunksFor(n) \in Nat /\ n <= ChunksFor(n) * ChunkSize /\ ChunksFor(n) <= MaxChunks
    BY <2>3, ChunksForBounds, ChunksForLimit
  <2>5. k <= ChunksFor(n)
    <3>1. (ChunksFor(n) + 1) * ChunkSize = ChunksFor(n) * ChunkSize + ChunkSize
      BY <2>4, Constants
    <3>2. ChunksFor(n) * ChunkSize \in Int
      BY <2>4, Constants
    <3>3. k * ChunkSize < (ChunksFor(n) + 1) * ChunkSize
      BY <1>1, <1>2, <2>3, <2>4, <3>1, <3>2, Constants
    <3>4. k < ChunksFor(n) + 1
      BY <2>4, <3>3, Constants, CancelFactor
    <3> QED
      BY <2>4, <3>4
  <2>6. missing \in Nat /\ missing = ChunksFor(n) - k
    BY <2>2, <2>4, <2>5
  <2> HIDE DEF missing
  <2>7. got \in Nat /\ got <= missing
    BY <2>6 DEF Smaller
  <2> HIDE DEF got
  <2>8. room = (k + got) * ChunkSize
    BY <1>1, <2>7, Constants
  <2>9. k + got \in 0..MaxChunks
    BY <2>4, <2>6, <2>7, Constants
  <2>10. room \in Nat /\ capacity <= room
    <3>1. got * ChunkSize \in Nat
      BY <2>7, Constants
    <3> QED
      BY <1>2, <3>1
  <2> HIDE DEF room
  <2>11. Smaller(room, n) \in Nat /\ Smaller(room, n) <= room /\ Smaller(room, n) < MaxSize
    BY <2>3, <2>10, Constants DEF Smaller
  <2>12. size <= room
    BY <1>2, <2>10
  <2> QED
    BY <1>2, <2>1, <2>8, <2>9, <2>11, <2>12 DEF Fit
<1> QED
  BY <1>3, <1>4, <1>5

(* So does the room a write makes.                                          *)
LEMMA RoomFits ==
  ASSUME IInv, NEW end \in Nat, NEW granted \in Nat
  PROVE  /\ Fit(Room(end, granted).size, Room(end, granted).capacity)
         /\ Room(end, granted).dirty \in BOOLEAN
<1>1. CASE capacity > end
  <2>1. /\ capacity \in 0..MaxSize /\ size \in 0..MaxSize
        /\ size <= capacity /\ size < MaxSize /\ dirty \in BOOLEAN
    BY FitRanges DEF IInv, Fit, TypeOK
  <2>2. Larger(size, end) \in Nat /\ Larger(size, end) <= capacity /\ Larger(size, end) < MaxSize
    BY <1>1, <2>1, Constants DEF Larger
  <2> QED
    BY <1>1, <2>1, <2>2 DEF Room, IInv, Fit
<1>2. CASE ~(capacity > end)
  BY <1>2, setSizeFits DEF Room
<1> QED
  BY <1>1, <1>2

----------------------------------------------------------------------------
(* A part of a file is a content. *)
LEMMA PrefixIsContents ==
  ASSUME NEW bytes \in Contents, NEW n
  PROVE  Prefix(bytes, n) \in Contents
BY DEF Prefix, Contents

LEMMA BlankIsContents == Blank \in Contents
BY DEF Blank, Contents

(* What flush writes is a file. *)
LEMMA FlushBufferIsFile ==
  ASSUME IInv
  PROVE  FlushBuffer \in File
BY PrefixIsContents DEF IInv, TypeOK, FlushBuffer, File

(* An object without chunks. *)
LEMMA EmptyFits == Fit(0, 0)
<1>1. 0 \in 0..MaxChunks /\ 0 = 0 * ChunkSize
  BY Constants
<1> QED
  BY <1>1, Constants DEF Fit

(* What is left to show of a step that keeps size and capacity together.    *)
LEMMA StepFits ==
  ASSUME Fit(size', capacity'),
         status' \in {"none", "open", "failed"}, dirty' \in BOOLEAN, mem' \in Contents,
         stored' \in File \cup {NoFile}, view' \in File \cup {NoFile},
         outOfBounds' \in BOOLEAN, status' = "open" => view' \in File
  PROVE  IInv'
<1>1. size' \in 0..MaxSize /\ capacity' \in 0..MaxSize
  BY FitRanges
<1>2. Fit(size, capacity)'
  BY DEF Fit
<1> QED
  BY <1>1, <1>2 DEF IInv, TypeOK

LEMMA InitIInv == Init => IInv
<1> SUFFICES ASSUME Init PROVE IInv
  OBVIOUS
<1>1. stored \in File \cup {NoFile}
  <2>1. ASSUME NEW n \in {0, ChunkSize, MaxSize}, NEW d \in Data
        PROVE  [len |-> n, bytes |-> Prefix([a \in Addresses |-> d], n)] \in File
    <3>1. ChunkSize <= MaxSize
      BY Constants DEF MaxSize
    <3>2. n \in 0..MaxSize
      BY <3>1, Constants
    <3>3. [a \in Addresses |-> d] \in Contents
      BY DEF Contents
    <3> QED
      BY <3>2, <3>3, PrefixIsContents DEF File
  <2> QED
    BY <2>1 DEF Init
<1>2. 0 \in 0..MaxSize
  BY Constants
<1>3. TypeOK
  BY <1>1, <1>2, BlankIsContents DEF Init, TypeOK
<1> QED
  BY <1>3, EmptyFits DEF Init, IInv

LEMMA openRemotePreserves ==
  ASSUME IInv, openRemote
  PROVE  IInv'
<1>1. stored \in File
  BY DEF IInv, TypeOK, openRemote
<1>2. stored.len \in Nat /\ stored.bytes \in Contents
  BY <1>1 DEF File
<1>3. Fit(size', capacity')
  BY <1>2, Constants, setSizeFits DEF openRemote, Resized
<1> QED
  BY <1>1, <1>2, <1>3, StepFits DEF IInv, TypeOK, openRemote

LEMMA openRemoteFailsPreserves ==
  ASSUME IInv, NEW granted \in 0..MaxChunks, NEW loaded \in 0..MaxSize,
         openRemoteFails(granted, loaded)
  PROVE  IInv'
<1>1. /\ status' = "failed" /\ UNCHANGED <<stored, view, outOfBounds>>
  BY DEF openRemoteFails
<1>2. CASE UNCHANGED <<size, capacity, dirty, mem>>
  BY <1>1, <1>2, StepFits DEF IInv, TypeOK
<1>3. CASE /\ stored # NoFile /\ stored.len <= MaxSize
           /\ Resized(stored.len, granted)
           /\ LET r == setSize(stored.len, granted)
              IN  /\ dirty' = r.dirty
                  /\ IF r.ok
                       THEN /\ loaded * RemoteChunk < stored.len
                            /\ mem' = Prefix(stored.bytes, loaded * RemoteChunk)
                       ELSE UNCHANGED mem
  <2>1. stored.len \in Nat /\ stored.bytes \in Contents
    BY <1>3 DEF IInv, TypeOK, File
  <2>2. Fit(size', capacity') /\ dirty' \in BOOLEAN
    BY <1>3, <2>1, setSizeFits DEF Resized
  <2>3. mem' \in Contents
    BY <1>3, <2>1, PrefixIsContents DEF IInv, TypeOK
  <2> QED
    BY <1>1, <2>2, <2>3, StepFits DEF IInv, TypeOK
<1> QED
  BY <1>2, <1>3 DEF openRemoteFails

LEMMA createPreserves ==
  ASSUME IInv, create
  PROVE  IInv'
<1>1. [len |-> 0, bytes |-> Blank] \in File
  BY BlankIsContents, Constants DEF File
<1> QED
  BY <1>1, StepFits DEF IInv, TypeOK, create

LEMMA truncatePreserves ==
  ASSUME IInv, NEW n \in Sizes, NEW granted \in 0..MaxChunks, truncate(n, granted)
  PROVE  IInv'
<1>1. n \in 0..MaxSize
  BY Inputs
<1>2. Fit(size', capacity') /\ dirty' \in BOOLEAN
  BY <1>1, setSizeFits DEF truncate, Resized
<1>3. view' \in File
  <2>1. view \in File
    BY DEF IInv, truncate
  <2>2. view.bytes \in Contents
    BY <2>1 DEF File
  <2>3. [len |-> n, bytes |-> Prefix(view.bytes, n)] \in File
    BY <1>1, <2>2, PrefixIsContents DEF File
  <2> QED
    BY <2>1, <2>3 DEF truncate
<1> QED
  BY <1>2, <1>3, StepFits DEF IInv, TypeOK, truncate

(* The bytes of a write that start at "from". *)
LEMMA OverwrittenIsContents ==
  ASSUME NEW bytes \in Contents, NEW d \in Data, NEW from, NEW to
  PROVE  [a \in Addresses |-> IF a \in from..to THEN d ELSE bytes[a]] \in Contents
BY DEF Contents

LEMMA writePreserves ==
  ASSUME IInv, NEW d \in Data, NEW offset \in Offsets, NEW len \in Lengths,
         NEW granted \in 0..MaxChunks, offset + len <= MaxSize,
         write(d, offset, len, granted)
  PROVE  IInv'
<1> DEFINE end == offset + len
           r == Room(end, granted)
           at == WriteAddress(offset)
           inBounds == at + len <= r.capacity
<1>1. end \in 0..MaxSize
  BY Inputs
<1>2. Fit(size', capacity') /\ r.dirty \in BOOLEAN
  BY <1>1, RoomFits DEF write
<1>3. dirty' \in BOOLEAN
  BY DEF write, Dirtied
<1>4. outOfBounds' \in BOOLEAN
  BY DEF write
<1>5. mem' \in Contents
  <2>1. mem' = IF r.ok /\ inBounds
                 THEN [a \in Addresses |-> IF a \in at..at + len - 1 THEN d ELSE mem[a]]
                 ELSE mem
    BY DEF write
  <2>2. mem \in Contents
    BY DEF IInv, TypeOK
  <2> HIDE DEF at, r, inBounds
  <2> QED
    BY <2>1, <2>2, OverwrittenIsContents
<1>6. view' \in File
  <2>1. view \in File
    BY DEF IInv, write
  <2>2. view.len \in 0..MaxSize /\ view.bytes \in Contents
    BY <2>1 DEF File
  <2>3. Larger(view.len, end) \in 0..MaxSize
    BY <1>1, <2>2 DEF Larger
  <2>4. [a \in Addresses |-> IF a \in offset..end - 1 THEN d ELSE view.bytes[a]] \in Contents
    BY <2>2, OverwrittenIsContents
  <2> QED
    BY <2>1, <2>3, <2>4 DEF write, File
<1>7. UNCHANGED <<status, stored>>
  BY DEF write
<1> QED
  BY <1>2, <1>3, <1>4, <1>5, <1>6, <1>7, StepFits DEF IInv, TypeOK

(* flush, of the object and of its destructor.                              *)
LEMMA FlushedIsFile ==
  ASSUME IInv, NEW outcome \in Outcomes, Flushed(outcome)
  PROVE  stored' \in File \cup {NoFile}
BY FlushBufferIsFile DEF Flushed, IInv, TypeOK

LEMMA flushPreserves ==
  ASSUME IInv, NEW outcome \in Outcomes, flush(outcome)
  PROVE  IInv'
<1>1. stored' \in File \cup {NoFile}
  BY FlushedIsFile DEF flush
<1>2. dirty' \in BOOLEAN
  BY DEF flush
<1> QED
  BY <1>1, <1>2, StepFits DEF IInv, TypeOK, flush

LEMMA destroyPreserves ==
  ASSUME IInv, NEW outcome \in Outcomes, destroy(outcome)
  PROVE  IInv'
<1>1. stored' \in File \cup {NoFile}
  BY FlushedIsFile DEF destroy
<1> QED
  BY <1>1, EmptyFits, BlankIsContents, StepFits DEF IInv, TypeOK, destroy

LEMMA NextPreserves == IInv /\ [Next]_vars => IInv'
<1> SUFFICES ASSUME IInv, [Next]_vars PROVE IInv'
  OBVIOUS
<1>1. CASE openRemote
  BY <1>1, openRemotePreserves
<1>2. ASSUME NEW granted \in 0..MaxChunks, NEW loaded \in 0..MaxSize,
             openRemoteFails(granted, loaded)
      PROVE  IInv'
  BY <1>2, openRemoteFailsPreserves
<1>3. CASE create
  BY <1>3, createPreserves
<1>4. ASSUME NEW n \in Sizes, NEW granted \in 0..MaxChunks,
             truncate(n, granted) \/ \E answer \in {0, 1} : fallocate(n, granted, answer)
      PROVE  IInv'
  BY <1>4, truncatePreserves DEF fallocate
<1>5. ASSUME NEW d \in Data, NEW offset \in Offsets, NEW len \in Lengths,
             NEW granted \in 0..MaxChunks, offset + len <= MaxSize,
             write(d, offset, len, granted)
      PROVE  IInv'
  BY <1>5, writePreserves
<1>6. ASSUME NEW outcome \in Outcomes, flush(outcome) \/ destroy(outcome) PROVE IInv'
  BY <1>6, flushPreserves, destroyPreserves
<1>7. CASE UNCHANGED vars
  BY <1>7, StepFits DEF vars, object, IInv, TypeOK
<1> QED
  BY <1>1, <1>2, <1>3, <1>4, <1>5, <1>6, <1>7 DEF Next

LEMMA Inductive == Spec => []IInv
BY InitIInv, NextPreserves, PTL DEF Spec

(* The members of an in-memory file, its copy in GridFS and what its users  *)
(* expect keep their shapes and limits: an allocation that fails half way   *)
(* never makes _capacity pass _maxMemFileSize.                              *)
THEOREM TypeCorrect == Spec => []TypeOK
<1>1. IInv => TypeOK
  BY DEF IInv
<1> QED
  BY <1>1, Inductive, PTL

(* The chunks of an in-memory file are whole and hold it.                   *)
THEOREM FileFits == Spec => []ChunksHoldTheFile
<1>1. IInv => ChunksHoldTheFile
  BY FitRanges DEF IInv, Fit, ChunksHoldTheFile
<1> QED
  BY <1>1, Inductive, PTL

----------------------------------------------------------------------------
(* Beside CleanIsStored: an object that is not there has no chunks, and     *)
(* GridFS has no bytes beyond the length of the file.                       *)
CInv ==
  /\ status = "none" => size = 0 /\ capacity = 0
  /\ stored # NoFile => stored.bytes = Prefix(stored.bytes, stored.len)
  /\ CleanIsStored

LEMMA PrefixOfPrefix ==
  ASSUME NEW bytes, NEW n
  PROVE  Prefix(Prefix(bytes, n), n) = Prefix(bytes, n)
BY DEF Prefix

(* The chunks hold the file, so the buffer of a flush has all of it.        *)
LEMMA FlushLengthIsSize == IInv => FlushLength(size) = size
<1> SUFFICES ASSUME IInv PROVE FlushLength(size) = size
  OBVIOUS
<1>1. PICK k \in 0..MaxChunks : capacity = k * ChunkSize
  BY DEF IInv, Fit
<1>2. ChunksFor(capacity) * ChunkSize = capacity
  BY <1>1, ChunksForWhole
<1>3. size \in Nat /\ size <= capacity /\ capacity \in Nat
  BY FitRanges DEF IInv, Fit
<1> QED
  BY <1>2, <1>3 DEF FlushLength, Smaller

(* setSize that leaves an object clean has left it as it was.               *)
LEMMA CleanSetSize ==
  ASSUME IInv, NEW n \in Nat, NEW granted \in Nat, ~setSize(n, granted).dirty
  PROVE  /\ ~dirty
         /\ setSize(n, granted).size = size
         /\ setSize(n, granted).capacity = capacity
<1>1. CASE n <= size \/ n < capacity
  BY <1>1 DEF setSize, InPlace
<1>2. CASE ~(n <= size \/ n < capacity) /\ n >= MaxSize
  BY <1>2 DEF setSize, Refused
<1>3. CASE ~(n <= size \/ n < capacity) /\ ~(n >= MaxSize)
  <2> DEFINE missing == ChunksFor(n) - ChunksFor(capacity)
             got == Smaller(granted, missing)
             room == capacity + got * ChunkSize
  <2>1. setSize(n, granted) = [ok |-> got = missing,
                               size |-> IF got = 0 THEN size ELSE Smaller(room, n),
                               capacity |-> room,
                               dirty |-> dirty \/ got > 0]
    BY <1>3 DEF setSize, Grown
  <2>2. ~(dirty \/ got > 0)
    <3>1. setSize(n, granted).dirty = (dirty \/ got > 0)
      <4> HIDE DEF got, room, missing
      <4> QED
        BY <2>1
    <3> HIDE DEF got
    <3> QED
      BY <3>1, Zenon
  <2>3. got = 0
    <3>1. size \in Nat /\ size <= capacity /\ capacity \in Nat
      BY FitRanges DEF IInv, Fit
    <3>2. PICK k \in 0..MaxChunks : capacity = k * ChunkSize
      BY DEF IInv, Fit
    <3>3. ChunksFor(capacity) = k
      BY <3>2, ChunksForWhole
    <3>4. ChunksFor(n) \in Nat /\ n <= ChunksFor(n) * ChunkSize
      BY ChunksForBounds
    <3>5. k < ChunksFor(n) + 1
      <4>1. (ChunksFor(n) + 1) * ChunkSize = ChunksFor(n) * ChunkSize + ChunkSize
        BY <3>4, Constants
      <4>2. ChunksFor(n) * ChunkSize \in Int
        BY <3>4, Constants
      <4>3. k * ChunkSize < (ChunksFor(n) + 1) * ChunkSize
        BY <1>3, <3>1, <3>2, <3>4, <4>1, <4>2, Constants
      <4> QED
        BY <3>4, <4>3, Constants, CancelFactor
    <3>6. missing \in Nat
      BY <3>3, <3>4, <3>5
    <3> HIDE DEF missing
    <3>7. got \in Nat
      BY <3>6 DEF Smaller
    <3> QED
      BY <2>2, <3>7
  <2> HIDE DEF got
  <2>4. room = capacity
    BY <2>3, Constants, FitRanges DEF IInv, TypeOK
  <2> QED
    BY <2>1, <2>2, <2>3, <2>4
<1> QED
  BY <1>1, <1>2, <1>3

(* setSize that succeeds for an object without chunks gives it its size.    *)
LEMMA FreshSetSize ==
  ASSUME size = 0, capacity = 0, NEW n \in Nat, NEW granted \in Nat,
         setSize(n, granted).ok
  PROVE  setSize(n, granted).size = n
<1>1. CASE n = 0
  BY <1>1 DEF setSize, InPlace
<1>2. CASE n > 0
  <2> DEFINE missing == ChunksFor(n) - ChunksFor(capacity)
             got == Smaller(granted, missing)
             room == capacity + got * ChunkSize
  <2>1. ~(n >= MaxSize)
    BY <1>2 DEF setSize, Refused
  <2>2. setSize(n, granted) = [ok |-> got = missing,
                               size |-> IF got = 0 THEN size ELSE Smaller(room, n),
                               capacity |-> room,
                               dirty |-> dirty \/ got > 0]
    BY <1>2, <2>1 DEF setSize, Grown
  <2>3. got = missing
    <3>1. setSize(n, granted).ok = (got = missing)
      <4>1. setSize(n, granted) = Grown(n, granted)
        BY <1>2, <2>1 DEF setSize
      <4>2. Grown(n, granted).ok = (got = missing)
        BY Zenon DEF Grown
      <4> QED
        BY <4>1, <4>2, Zenon
    <3> HIDE DEF got, missing
    <3> QED
      BY <3>1, Zenon
  <2>4. ChunksFor(n) \in Nat /\ n <= ChunksFor(n) * ChunkSize
    BY ChunksForBounds
  <2>5. ChunksFor(capacity) = 0
    <3>1. 0 * ChunkSize = 0
      BY Constants
    <3> QED
      BY <3>1, ChunksForWhole
  <2>6. got = ChunksFor(n)
    BY <2>3, <2>4, <2>5
  <2> HIDE DEF got
  <2>7. room = ChunksFor(n) * ChunkSize /\ room \in Nat
    BY <2>4, <2>6, Constants
  <2>8. got # 0
    BY <1>2, <2>4, <2>6, Constants
  <2> HIDE DEF room
  <2>9. Smaller(room, n) = n
    BY <2>4, <2>7 DEF Smaller
  <2> QED
    BY <2>2, <2>8, <2>9
<1> QED
  BY <1>1, <1>2

LEMMA InitCInv == Init => CInv
<1> SUFFICES ASSUME Init PROVE CInv
  OBVIOUS
<1>1. stored # NoFile => stored.bytes = Prefix(stored.bytes, stored.len)
  BY PrefixOfPrefix DEF Init
<1> QED
  BY <1>1 DEF Init, CInv, CleanIsStored

(* A successful download leaves in memory what GridFS has.                  *)
LEMMA openRemoteClean ==
  ASSUME IInv, IInv', CInv, openRemote
  PROVE  CInv'
<1>1. /\ status' = "open" /\ stored' = stored /\ mem' = stored.bytes
      /\ stored # NoFile /\ size = 0 /\ capacity = 0
      /\ setSize(stored.len, MaxChunks).ok
      /\ size' = setSize(stored.len, MaxChunks).size
  BY DEF openRemote, Resized, CInv
<1>2. stored \in File /\ stored.len \in Nat
  BY <1>1 DEF IInv, TypeOK, File
<1>3. size' = stored.len
  BY <1>1, <1>2, Constants, FreshSetSize
<1>4. (FlushLength(size) = size)'
  BY FlushLengthIsSize, PTL
<1>5. FlushBuffer' = [len |-> stored.len, bytes |-> Prefix(stored.bytes, stored.len)]
  BY <1>1, <1>3, <1>4 DEF FlushBuffer, Prefix
<1>6. stored = [len |-> stored.len, bytes |-> stored.bytes]
  BY <1>2 DEF File
<1>7. stored = FlushBuffer'
  BY <1>1, <1>5, <1>6 DEF CInv
<1> QED
  BY <1>1, <1>7 DEF CInv, CleanIsStored

LEMMA openRemoteFailsClean ==
  ASSUME CInv, NEW granted, NEW loaded, openRemoteFails(granted, loaded)
  PROVE  CInv'
<1>1. status' = "failed" /\ stored' = stored
  BY DEF openRemoteFails
<1> QED
  BY <1>1 DEF CInv, CleanIsStored

LEMMA createClean ==
  ASSUME IInv, IInv', CInv, create
  PROVE  CInv'
<1>1. /\ status' = "open" /\ stored' = [len |-> 0, bytes |-> Blank]
      /\ size = 0 /\ capacity = 0
      /\ UNCHANGED <<size, capacity, dirty, mem>>
  BY DEF create, CInv
<1>2. (FlushLength(size) = size)'
  BY FlushLengthIsSize, PTL
<1>3. \A bytes : Prefix(bytes, 0) = Blank
  <2>1. \A a \in Addresses : ~(a < 0)
    BY Constants DEF Addresses
  <2> QED
    BY <2>1 DEF Prefix, Blank
<1>4. FlushBuffer' = stored'
  BY <1>1, <1>2, <1>3 DEF FlushBuffer, Prefix
<1>5. stored'.bytes = Prefix(stored'.bytes, stored'.len)
  BY <1>1, <1>3
<1> QED
  BY <1>1, <1>4, <1>5 DEF CInv, CleanIsStored, Prefix

(* A step that leaves the object as it was, or dirty.                       *)
LEMMA UntouchedOrDirty ==
  ASSUME CInv, UNCHANGED <<status, stored>>, status # "none",
         dirty' \/ (~dirty /\ UNCHANGED <<size, capacity, mem>>)
  PROVE  CInv'
<1>1. CASE dirty'
  BY <1>1 DEF CInv, CleanIsStored, Prefix
<1>2. CASE ~dirty /\ UNCHANGED <<size, capacity, mem>>
  <2>1. FlushBuffer' = FlushBuffer
    BY <1>2 DEF FlushBuffer, FlushLength, ChunksFor, Prefix
  <2> QED
    BY <1>2, <2>1 DEF CInv, CleanIsStored, Prefix
<1> QED
  BY <1>1, <1>2

LEMMA truncateClean ==
  ASSUME IInv, CInv, NEW n \in Sizes, NEW granted \in 0..MaxChunks, truncate(n, granted)
  PROVE  CInv'
<1>1. n \in Nat
  BY Inputs
<1>2. /\ status = "open" /\ UNCHANGED <<status, mem, stored>>
      /\ size' = setSize(n, granted).size /\ capacity' = setSize(n, granted).capacity
      /\ dirty' = setSize(n, granted).dirty
  BY DEF truncate, Resized
<1>3. CASE dirty'
  BY <1>2, <1>3, UntouchedOrDirty
<1>4. CASE ~dirty'
  <2>1. ~dirty /\ UNCHANGED <<size, capacity>>
    BY <1>1, <1>2, <1>4, CleanSetSize
  <2> QED
    BY <1>2, <2>1, UntouchedOrDirty
<1> QED
  BY <1>3, <1>4

(* A write that gets its room sets the flag; one that does not leaves the   *)
(* object as it was, or dirty with the chunks it did get.                   *)
LEMMA writeClean ==
  ASSUME IInv, CInv, NEW d, NEW offset \in Offsets, NEW len \in Lengths,
         NEW granted \in 0..MaxChunks, write(d, offset, len, granted)
  PROVE  CInv'
<1> DEFINE end == offset + len
           r == Room(end, granted)
<1>1. end \in Nat
  BY Inputs
<1>2. /\ status = "open" /\ UNCHANGED <<status, stored>>
      /\ size' = r.size /\ capacity' = r.capacity
  BY DEF write
<1>3. dirty' = (r.dirty \/ r.ok)
  BY DEF write, Dirtied
<1>4. ~r.ok => mem' = mem
  BY DEF write
<1>5. CASE dirty'
  BY <1>2, <1>5, UntouchedOrDirty
<1>6. CASE ~dirty'
  <2>1. ~r.dirty /\ ~r.ok
    <3> HIDE DEF r
    <3> QED
      BY <1>3, <1>6, Zenon
  <2>2. ~(capacity > end)
    BY <2>1 DEF Room
  <2>3. r = setSize(end, granted)
    BY <2>2 DEF Room
  <2>4. ~setSize(end, granted).dirty
    BY <2>1, <2>3
  <2>5. ~dirty /\ setSize(end, granted).size = size /\ setSize(end, granted).capacity = capacity
    BY <1>1, <2>4, CleanSetSize
  <2>6. ~dirty /\ UNCHANGED <<size, capacity, mem>>
    BY <1>2, <1>4, <2>1, <2>3, <2>5
  <2> QED
    BY <1>2, <2>6, UntouchedOrDirty
<1> QED
  BY <1>5, <1>6

(* A flush clears the flag only when it has stored the buffer.              *)
LEMMA FlushedClean ==
  ASSUME IInv, CInv, NEW outcome \in Outcomes, Flushed(outcome)
  PROVE  /\ stored' # NoFile => stored'.bytes = Prefix(stored'.bytes, stored'.len)
         /\ dirty /\ outcome = "done" => stored' = FlushBuffer
         /\ ~dirty => stored' = stored
<1>1. FlushBuffer.bytes = Prefix(FlushBuffer.bytes, FlushBuffer.len)
  <2>1. FlushLength(size) = size
    BY FlushLengthIsSize
  <2>2. FlushBuffer = [len |-> size, bytes |-> Prefix(mem, size)]
    BY <2>1 DEF FlushBuffer
  <2> QED
    BY <2>2, PrefixOfPrefix
<1>2. stored' \in {stored, NoFile, FlushBuffer}
  BY DEF Flushed
<1>3. /\ dirty /\ outcome = "done" => stored' = FlushBuffer
      /\ ~dirty => stored' = stored
  BY DEF Flushed
<1> QED
  BY <1>1, <1>2, <1>3 DEF CInv

LEMMA flushClean ==
  ASSUME IInv, CInv, NEW outcome \in Outcomes, flush(outcome)
  PROVE  CInv'
<1>1. /\ stored' # NoFile => stored'.bytes = Prefix(stored'.bytes, stored'.len)
      /\ dirty /\ outcome = "done" => stored' = FlushBuffer
      /\ ~dirty => stored' = stored
  BY FlushedClean DEF flush
<1>2. /\ dirty' = (dirty /\ outcome # "done")
      /\ status # "none" /\ UNCHANGED <<status, size, capacity, mem>>
  BY DEF flush
<1>3. FlushBuffer' = FlushBuffer
  BY <1>2 DEF FlushBuffer, FlushLength, ChunksFor, Prefix
<1>4. Prefix(stored.bytes, stored.len)' = Prefix(stored'.bytes, stored'.len)
  BY DEF Prefix
<1>5. CleanIsStored'
  BY <1>1, <1>2, <1>3 DEF CInv, CleanIsStored
<1> QED
  BY <1>1, <1>2, <1>4, <1>5 DEF CInv

LEMMA destroyClean ==
  ASSUME IInv, CInv, NEW outcome \in Outcomes, destroy(outcome)
  PROVE  CInv'
<1>1. stored' # NoFile => stored'.bytes = Prefix(stored'.bytes, stored'.len)
  BY FlushedClean DEF destroy
<1>2. status' = "none" /\ size' = 0 /\ capacity' = 0
  BY DEF destroy
<1>3. Prefix(stored.bytes, stored.len)' = Prefix(stored'.bytes, stored'.len)
  BY DEF Prefix
<1> QED
  BY <1>1, <1>2, <1>3 DEF CInv, CleanIsStored

LEMMA NextClean == IInv /\ IInv' /\ CInv /\ [Next]_vars => CInv'
<1> SUFFICES ASSUME IInv, IInv', CInv, [Next]_vars PROVE CInv'
  OBVIOUS
<1>1. CASE openRemote
  BY <1>1, openRemoteClean
<1>2. ASSUME NEW granted \in 0..MaxChunks, NEW loaded \in 0..MaxSize,
             openRemoteFails(granted, loaded)
      PROVE  CInv'
  BY <1>2, openRemoteFailsClean
<1>3. CASE create
  BY <1>3, createClean
<1>4. ASSUME NEW n \in Sizes, NEW granted \in 0..MaxChunks,
             truncate(n, granted) \/ \E answer \in {0, 1} : fallocate(n, granted, answer)
      PROVE  CInv'
  BY <1>4, truncateClean DEF fallocate
<1>5. ASSUME NEW d \in Data, NEW offset \in Offsets, NEW len \in Lengths,
             NEW granted \in 0..MaxChunks, write(d, offset, len, granted)
      PROVE  CInv'
  BY <1>5, writeClean
<1>6. ASSUME NEW outcome \in Outcomes, flush(outcome) \/ destroy(outcome) PROVE CInv'
  BY <1>6, flushClean, destroyClean
<1>7. CASE UNCHANGED vars
  <2>1. FlushBuffer' = FlushBuffer
    BY <1>7 DEF vars, object, FlushBuffer, FlushLength, ChunksFor, Prefix
  <2> QED
    BY <1>7, <2>1 DEF vars, object, CInv, CleanIsStored, Prefix
<1> QED
  BY <1>1, <1>2, <1>3, <1>4, <1>5, <1>6, <1>7 DEF Next

(* An object that is not dirty is what GridFS holds, whatever allocation,   *)
(* download or flush failed: a later flush is never wrong to do nothing.    *)
THEOREM CleanStored == Spec => []CleanIsStored
<1>1. IInv /\ CInv /\ [Next]_vars => (IInv /\ CInv)'
  BY NextPreserves, NextClean
<1>2. CInv => CleanIsStored
  BY DEF CInv
<1> QED
  BY <1>1, <1>2, InitIInv, InitCInv, PTL DEF Spec

----------------------------------------------------------------------------
(* What the callers were told is within the chunks, and what setSize did    *)
(* not count of it ends where they end.                                     *)
LInv ==
  status = "open" => /\ view.len < MaxSize
                     /\ view.len <= size \/ view.len = capacity

(* setSize that succeeds has chunks for all it was asked for, and says so   *)
(* in the size unless that is where the chunks end already.  One that fails *)
(* has not lowered the size, but for what no chunk holds.                   *)
LEMMA setSizeAnswer ==
  ASSUME IInv, NEW n \in Nat, NEW granted \in Nat
  PROVE  LET r == setSize(n, granted)
         IN  /\ r.ok => /\ n < MaxSize /\ n <= r.capacity
                        /\ r.size = n \/ n = r.capacity
             /\ ~r.ok => (r.size = size /\ r.capacity = capacity) \/ capacity <= r.size
<1> DEFINE r == setSize(n, granted)
<1>1. PICK k \in 0..MaxChunks : capacity = k * ChunkSize
  BY DEF IInv, Fit
<1>2. /\ capacity \in 0..MaxSize /\ size \in 0..MaxSize
      /\ size <= capacity /\ size < MaxSize
  BY FitRanges DEF IInv, Fit
<1>3. CASE n <= size \/ n < capacity
  <2>1. r = InPlace(n)
    BY <1>3 DEF setSize
  <2>2. n <= capacity /\ n < MaxSize
    BY <1>2, <1>3, Constants
  <2> QED
    BY <2>1, <2>2 DEF InPlace
<1>4. CASE ~(n <= size \/ n < capacity) /\ n >= MaxSize
  <2>1. r = Refused
    BY <1>4 DEF setSize
  <2> QED
    BY <2>1 DEF Refused
<1>5. CASE ~(n <= size \/ n < capacity) /\ ~(n >= MaxSize)
  <2> DEFINE missing == ChunksFor(n) - ChunksFor(capacity)
             got == Smaller(granted, missing)
             room == capacity + got * ChunkSize
  <2>1. ChunksFor(capacity) = k /\ missing = ChunksFor(n) - k
    BY <1>1, ChunksForWhole
  <2>2. /\ r.ok = (got = missing)
        /\ r.size = (IF got = 0 THEN size ELSE Smaller(room, n))
        /\ r.capacity = room
    <3>1. r = Grown(n, granted)
      BY <1>5 DEF setSize
    <3>2. /\ Grown(n, granted).ok = (got = missing)
          /\ Grown(n, granted).size = (IF got = 0 THEN size ELSE Smaller(room, n))
          /\ Grown(n, granted).capacity = room
      BY Zenon DEF Grown
    <3> HIDE DEF r, got, missing, room
    <3> QED
      BY <3>1, <3>2, Zenon
  <2>3. capacity <= n /\ n < MaxSize
    BY <1>2, <1>5, Constants
  <2>4. ChunksFor(n) \in Nat /\ n <= ChunksFor(n) * ChunkSize
    BY ChunksForBounds
  <2>5. k <= ChunksFor(n)
    <3>1. (ChunksFor(n) + 1) * ChunkSize = ChunksFor(n) * ChunkSize + ChunkSize
      BY <2>4, Constants
    <3>2. ChunksFor(n) * ChunkSize \in Int
      BY <2>4, Constants
    <3>3. k * ChunkSize < (ChunksFor(n) + 1) * ChunkSize
      BY <1>1, <1>2, <2>3, <2>4, <3>1, <3>2, Constants
    <3>4. k < ChunksFor(n) + 1
      BY <2>4, <3>3, Constants, CancelFactor
    <3> QED
      BY <2>4, <3>4
  <2>6. missing \in Nat
    BY <2>1, <2>4, <2>5
  <2>7. got \in Nat /\ got <= missing
    <3> HIDE DEF missing
    <3> QED
      BY <2>6 DEF Smaller
  <2>8. got * ChunkSize \in Nat /\ room \in Nat /\ capacity <= room
    <3> HIDE DEF got
    <3>1. got * ChunkSize \in Nat
      BY <2>7, Constants
    <3> QED
      BY <1>2, <3>1
  <2>9. got = missing => room = ChunksFor(n) * ChunkSize
    <3>1. ASSUME got = missing PROVE room = (k + missing) * ChunkSize
      <4> HIDE DEF got, missing
      <4> QED
        BY <1>1, <2>6, <3>1, Constants
    <3>2. k + missing = ChunksFor(n)
      BY <1>1, <2>1, <2>4
    <3> HIDE DEF missing, got, room
    <3> QED
      BY <3>1, <3>2
  <2>10. got = missing /\ got = 0 => n = room
    <3> HIDE DEF got, missing
    <3>1. got = 0 => room = capacity
      BY <1>2, Constants
    <3> HIDE DEF room
    <3> QED
      BY <1>2, <2>3, <2>4, <2>9, <3>1
  <2> HIDE DEF got, missing, r
  <2>11. got = 0 => room = capacity
    BY <1>2, Constants
  <2> HIDE DEF room
  <2>12. CASE got = missing
    <3>1. r.ok /\ n <= room
      BY <2>2, <2>4, <2>9, <2>12
    <3>2. r.size = n \/ n = room
      BY <2>2, <2>8, <2>10, <2>12, <3>1 DEF Smaller
    <3> QED
      BY <2>2, <2>3, <3>1, <3>2 DEF r
  <2>13. CASE got # missing
    <3>1. ~r.ok
      BY <2>2, <2>13, Zenon
    <3>2. got = 0 => r.size = size /\ r.capacity = capacity
      BY <2>2, <2>11
    <3>3. got # 0 => capacity <= r.size
      BY <1>2, <2>2, <2>3, <2>8 DEF Smaller
    <3> QED
      BY <3>1, <3>2, <3>3 DEF r
  <2> QED
    BY <2>12, <2>13
<1> QED
  BY <1>3, <1>4, <1>5

(* So does the room a write makes, whose callers were told of "len" bytes.  *)
LEMMA RoomAnswer ==
  ASSUME IInv, NEW end \in Nat, NEW granted \in Nat,
         NEW len \in Nat, len < MaxSize, len <= size \/ len = capacity
  PROVE  LET r == Room(end, granted)
         IN  /\ r.ok => /\ end < MaxSize /\ end <= r.capacity
                        /\ \/ Larger(len, end) <= r.size
                           \/ Larger(len, end) = r.capacity
             /\ ~r.ok => len <= r.size \/ len = r.capacity
<1> DEFINE r == Room(end, granted)
<1>1. /\ capacity \in 0..MaxSize /\ size \in 0..MaxSize
      /\ size <= capacity /\ size < MaxSize
  BY FitRanges DEF IInv, Fit
<1>2. CASE capacity > end
  <2>1. r.ok /\ r.size = Larger(size, end) /\ r.capacity = capacity
    BY <1>2 DEF Room
  <2> HIDE DEF r
  <2>2. end < MaxSize /\ end <= capacity
    BY <1>1, <1>2, Constants
  <2>3. Larger(len, end) <= Larger(size, end) \/ Larger(len, end) = capacity
    BY <1>1, <2>2 DEF Larger
  <2> QED
    BY <2>1, <2>2, <2>3 DEF r
<1>3. CASE ~(capacity > end)
  <2>1. r = setSize(end, granted)
    BY <1>3 DEF Room
  <2> HIDE DEF r
  <2>2. /\ r.ok => /\ end < MaxSize /\ end <= r.capacity
                   /\ r.size = end \/ end = r.capacity
        /\ ~r.ok => (r.size = size /\ r.capacity = capacity) \/ capacity <= r.size
    BY <2>1, setSizeAnswer
  <2>3. Larger(len, end) = end
    BY <1>1, <1>3 DEF Larger
  <2>4. /\ Fit(r.size, r.capacity)
    BY <2>1, setSizeFits
  <2>5. r.size \in Nat
    BY <2>4 DEF Fit
  <2> QED
    BY <1>1, <2>2, <2>3, <2>5 DEF r
<1> QED
  BY <1>2, <1>3

(* The ranges of an open file. *)
LEMMA OpenFile ==
  ASSUME IInv, LInv, status = "open"
  PROVE  /\ view \in File /\ view.len \in Nat /\ view.bytes \in Contents
         /\ view.len < MaxSize /\ (view.len <= size \/ view.len = capacity)
         /\ size \in Nat /\ capacity \in Nat /\ size <= capacity
BY FitRanges DEF IInv, LInv, Fit, File

LEMMA openRemoteAnswers ==
  ASSUME IInv, CInv, openRemote
  PROVE  LInv'
<1>1. /\ view' = stored /\ stored # NoFile /\ size = 0 /\ capacity = 0
      /\ setSize(stored.len, MaxChunks).ok
      /\ size' = setSize(stored.len, MaxChunks).size
  BY DEF openRemote, Resized, CInv
<1>2. stored.len \in Nat
  BY <1>1 DEF IInv, TypeOK, File
<1>3. size' = stored.len
  BY <1>1, <1>2, Constants, FreshSetSize
<1>4. stored.len < MaxSize
  BY <1>1, <1>2, Constants, setSizeAnswer
<1> QED
  BY <1>1, <1>2, <1>3, <1>4 DEF LInv

LEMMA truncateAnswers ==
  ASSUME IInv, LInv, NEW n \in Sizes, NEW granted \in 0..MaxChunks, truncate(n, granted)
  PROVE  LInv'
<1> DEFINE r == setSize(n, granted)
<1>1. n \in Nat
  BY Inputs
<1>2. /\ status = "open" /\ size' = r.size /\ capacity' = r.capacity
      /\ r.ok => view' = [len |-> n, bytes |-> Prefix(view.bytes, n)]
      /\ ~r.ok => view' = view
  BY DEF truncate, Resized
<1>3. /\ r.ok => /\ n < MaxSize /\ n <= r.capacity
                 /\ r.size = n \/ n = r.capacity
      /\ ~r.ok => (r.size = size /\ r.capacity = capacity) \/ capacity <= r.size
  BY <1>1, setSizeAnswer
<1>4. r.size \in Nat
  <2>1. Fit(r.size, r.capacity)
    BY <1>1, Constants, setSizeFits
  <2> QED
    BY <2>1 DEF Fit
<1> HIDE DEF r
<1>5. CASE r.ok
  BY <1>1, <1>2, <1>3, <1>5 DEF LInv
<1>6. CASE ~r.ok
  BY <1>2, <1>3, <1>4, <1>6, OpenFile DEF LInv
<1> QED
  BY <1>5, <1>6

LEMMA writeAnswers ==
  ASSUME IInv, LInv, NEW d, NEW offset \in Offsets, NEW len \in Lengths,
         NEW granted \in 0..MaxChunks, write(d, offset, len, granted)
  PROVE  LInv'
<1> DEFINE end == offset + len
           r == Room(end, granted)
<1>1. end \in Nat
  BY Inputs
<1>2. /\ status = "open" /\ size' = r.size /\ capacity' = r.capacity
      /\ r.ok => view'.len = Larger(view.len, end)
      /\ ~r.ok => view' = view
  BY DEF write
<1>3. /\ r.ok => /\ end < MaxSize /\ end <= r.capacity
                 /\ Larger(view.len, end) <= r.size \/ Larger(view.len, end) = r.capacity
      /\ ~r.ok => view.len <= r.size \/ view.len = r.capacity
  BY <1>1, <1>2, OpenFile, RoomAnswer
<1> HIDE DEF r, end
<1>4. end < MaxSize => Larger(view.len, end) < MaxSize
  BY <1>2, OpenFile DEF Larger
<1>5. CASE r.ok
  BY <1>2, <1>3, <1>4, <1>5 DEF LInv
<1>6. CASE ~r.ok
  BY <1>2, <1>3, <1>6, OpenFile DEF LInv
<1> QED
  BY <1>5, <1>6

LEMMA NextAnswers == IInv /\ CInv /\ LInv /\ [Next]_vars => LInv'
<1> SUFFICES ASSUME IInv, CInv, LInv, [Next]_vars PROVE LInv'
  OBVIOUS
<1>1. CASE openRemote
  BY <1>1, openRemoteAnswers
<1>2. ASSUME NEW granted, NEW loaded, openRemoteFails(granted, loaded)
      PROVE  LInv'
  BY <1>2 DEF openRemoteFails, LInv
<1>3. CASE create
  BY <1>3, Constants DEF create, LInv, CInv
<1>4. ASSUME NEW n \in Sizes, NEW granted \in 0..MaxChunks,
             truncate(n, granted) \/ \E answer \in {0, 1} : fallocate(n, granted, answer)
      PROVE  LInv'
  BY <1>4, truncateAnswers DEF fallocate
<1>5. ASSUME NEW d \in Data, NEW offset \in Offsets, NEW len \in Lengths,
             NEW granted \in 0..MaxChunks, write(d, offset, len, granted)
      PROVE  LInv'
  BY <1>5, writeAnswers
<1>6. ASSUME NEW outcome \in Outcomes, flush(outcome) \/ destroy(outcome) PROVE LInv'
  BY <1>6 DEF flush, destroy, LInv
<1>7. CASE UNCHANGED vars
  BY <1>7 DEF vars, object, LInv
<1> QED
  BY <1>1, <1>2, <1>3, <1>4, <1>5, <1>6, <1>7 DEF Next

LEMMA Answered == Spec => [](IInv /\ LInv)
<1>1. Init => LInv
  BY DEF Init, LInv
<1>2. IInv /\ CInv /\ LInv /\ [Next]_vars => (IInv /\ CInv /\ LInv)'
  BY NextPreserves, NextClean, NextAnswers
<1> QED
  BY <1>1, <1>2, InitIInv, InitCInv, PTL DEF Spec

(* A write inside what an earlier write, or a setSize that worked, reached  *)
(* never fails for lack of memory, whatever was refused since.  (The 0 of   *)
(* fallocate promises no such thing: it says that setSize did not work.)    *)
THEOREM ReachedRoomStays == Spec => []ReachedNeedsNoMemory
<1>1. ASSUME IInv, LInv
      PROVE  ReachedNeedsNoMemory
  <2> SUFFICES ASSUME status = "open", NEW end \in 1..MaxSize, end <= view.len
               PROVE  Room(end, 0).ok
    BY DEF ReachedNeedsNoMemory
  <2>1. end < MaxSize /\ end <= capacity /\ capacity \in Nat /\ end \in Nat
    BY <1>1, OpenFile, Constants
  <2>2. CASE capacity > end
    BY <2>2 DEF Room
  <2>3. CASE ~(capacity > end)
    <3>1. Room(end, 0) = setSize(end, 0) /\ end = capacity
      BY <2>1, <2>3 DEF Room
    <3>2. CASE end <= size
      BY <3>1, <3>2 DEF setSize, InPlace
    <3>3. CASE ~(end <= size)
      <4>1. setSize(end, 0) = Grown(end, 0)
        BY <2>1, <3>1, <3>3, Constants DEF setSize
      <4>2. Smaller(0, ChunksFor(end) - ChunksFor(capacity)) = ChunksFor(end) - ChunksFor(capacity)
        BY <2>1, <3>1, ChunksForBounds DEF Smaller
      <4>3. Grown(end, 0).ok
        BY <4>2, Zenon DEF Grown
      <4> QED
        BY <3>1, <4>1, <4>3
    <3> QED
      BY <3>2, <3>3
  <2> QED
    BY <2>2, <2>3
<1>2. IInv /\ LInv => ReachedNeedsNoMemory
  BY <1>1
<1> QED
  BY <1>2, Answered, PTL

(* read copies from allocated chunks only, for every offset and length a    *)
(* reader can ask for and whatever size the file was truncated to: the      *)
(* chunks it counts are there, though it leaves out one that is not full.   *)
THEOREM ReadStaysInBounds == Spec => []ReadInBounds
<1>1. ASSUME IInv
      PROVE  ReadInBounds
  <2> SUFFICES ASSUME NEW offset \in Addresses, NEW len \in 1..MaxSize, offset < size
               PROVE  offset + read(len, offset) <= capacity
    BY DEF ReadInBounds
  <2>1. PICK k \in 0..MaxChunks : capacity = k * ChunkSize
    BY <1>1 DEF IInv, Fit
  <2>2. /\ size \in Nat /\ capacity \in Nat /\ size <= capacity
        /\ offset \in Nat /\ len \in Nat /\ k \in Nat
    BY <1>1, <2>1, FitRanges, Constants DEF IInv, Fit, Addresses
  <2> DEFINE q == NumChunks
  <2>3. q \in Nat /\ q * ChunkSize <= size + 1
    BY <2>2, Constants, QuotientBounds DEF NumChunks
  <2> HIDE DEF q
  <2>4. q * ChunkSize \in Nat
    BY <2>3, Constants
  <2>5. q * ChunkSize <= capacity
    <3>1. CASE ChunkSize = 1
      BY <3>1, LocalMemoryGridFileAssumption
    <3>2. CASE ChunkSize > 1
      <4>1. (k + 1) * ChunkSize = k * ChunkSize + ChunkSize
        BY <2>2, Constants
      <4>2. q * ChunkSize < (k + 1) * ChunkSize
        BY <2>1, <2>2, <2>3, <2>4, <3>2, <4>1, Constants
      <4>3. q < k + 1
        BY <2>2, <2>3, <4>2, Constants, CancelFactor
      <4>4. CASE q = k
        BY <2>1, <2>2, <4>4
      <4>5. CASE q < k
        <5>1. k * ChunkSize = q * ChunkSize + (k - q) * ChunkSize
          BY <2>2, <2>3, Constants
        <5>2. (k - q) * ChunkSize \in Nat
          BY <2>2, <2>3, <4>5, Constants
        <5> QED
          BY <2>1, <2>2, <2>4, <5>1, <5>2
      <4> QED
        BY <2>2, <2>3, <4>3, <4>4, <4>5
    <3> QED
      BY <3>1, <3>2, Constants
  <2>6. read(len, offset) \in {0, Smaller(len, q * ChunkSize - offset)}
    <3>1. ~(offset >= size)
      BY <2>2
    <3>2. read(len, offset) = IF offset \div ChunkSize < q
                                THEN Smaller(len, q * ChunkSize - offset) ELSE 0
      BY <3>1 DEF read, q
    <3> QED
      BY <3>2
  <2>7. Smaller(len, q * ChunkSize - offset) <= q * ChunkSize - offset
    BY <2>2, <2>4 DEF Smaller
  <2>8. Smaller(len, q * ChunkSize - offset) \in Int
    BY <2>2, <2>4 DEF Smaller
  <2>9. CASE read(len, offset) = 0
    BY <2>2, <2>9
  <2>10. CASE read(len, offset) = Smaller(len, q * ChunkSize - offset)
    BY <2>2, <2>4, <2>5, <2>7, <2>8, <2>10
  <2> QED
    BY <2>6, <2>9, <2>10
<1>2. IInv => ReadInBounds
  BY <1>1
<1> QED
  BY <1>2, Inductive, PTL

----------------------------------------------------------------------------
(* No write starts at the last byte of a chunk.  So it is where files are   *)
(* written from the start of a page: chunks are whole pages.                *)
PageStarts == \A offset \in Offsets : (offset + 1) \div ChunkSize = offset \div ChunkSize

(* Such a write goes where its caller wants it. *)
LEMMA WriteGoesToOffset ==
  ASSUME PageStarts, NEW offset \in Offsets
  PROVE  WriteAddress(offset) = offset
<1>1. offset \in Nat
  BY Inputs
<1>2. (offset \div ChunkSize) * ChunkSize + (offset % ChunkSize) = offset
  BY <1>1, Constants
<1> QED
  BY <1>2 DEF PageStarts, WriteAddress

(* What the callers wrote is in memory, also where the size is too small.   *)
KInv ==
  /\ ~outOfBounds
  /\ status = "open" =>
       \A p \in Addresses : view.bytes[p] # Junk => mem[p] = view.bytes[p]

LEMMA writeKeeps ==
  ASSUME PageStarts, IInv, LInv, KInv, NEW d \in Data, NEW offset \in Offsets,
         NEW len \in Lengths, NEW granted \in 0..MaxChunks, write(d, offset, len, granted)
  PROVE  KInv'
<1> DEFINE end == offset + len
           r == Room(end, granted)
<1>1. end \in Nat /\ offset \in Nat /\ len \in Nat
  BY Inputs
<1>2. status = "open" /\ status' = "open"
  BY DEF write
<1>3. r.ok => end <= r.capacity
  BY <1>1, <1>2, OpenFile, RoomAnswer
<1>4. /\ ~outOfBounds'
      /\ r.ok => \A p \in Addresses : mem'[p] = IF p \in offset..end - 1 THEN d ELSE mem[p]
      /\ ~r.ok => mem' = mem
  <2> DEFINE at == WriteAddress(offset)
             inBounds == at + len <= r.capacity
  <2>1. /\ outOfBounds' = (r.ok /\ ~inBounds)
        /\ mem' = IF r.ok /\ inBounds
                    THEN [a \in Addresses |-> IF a \in at..at + len - 1 THEN d ELSE mem[a]]
                    ELSE mem
    BY DEF write
  <2>2. at = offset /\ at + len = end
    BY WriteGoesToOffset
  <2>3. r.ok => inBounds
    <3> HIDE DEF r, at, end
    <3> QED
      BY <1>3, <2>2
  <2>4. ~outOfBounds'
    <3> HIDE DEF r, inBounds
    <3> QED
      BY <2>1, <2>3, Zenon
  <2> HIDE DEF r, inBounds, at, end
  <2>5. ASSUME r.ok, NEW p \in Addresses
        PROVE  mem'[p] = IF p \in offset..end - 1 THEN d ELSE mem[p]
    <3>1. mem'[p] = IF p \in at..at + len - 1 THEN d ELSE mem[p]
      BY <2>1, <2>3, <2>5
    <3> QED
      BY <1>1, <2>2, <3>1
  <2>6. ~r.ok => mem' = mem
    BY <2>1
  <2> QED
    BY <2>4, <2>5, <2>6
<1>5. /\ r.ok => view'.bytes = [a \in Addresses |->
                                  IF a \in offset..end - 1 THEN d ELSE view.bytes[a]]
      /\ ~r.ok => view' = view
  BY DEF write
<1> HIDE DEF r, end
<1>6. ASSUME NEW p \in Addresses, view'.bytes[p] # Junk
      PROVE  mem'[p] = view'.bytes[p]
  BY <1>2, <1>4, <1>5, <1>6 DEF KInv
<1> QED
  BY <1>4, <1>6 DEF KInv

LEMMA NextKeeps ==
  ASSUME PageStarts, IInv, LInv, KInv, [Next]_vars
  PROVE  KInv'
<1>1. CASE openRemote
  BY <1>1 DEF openRemote, KInv
<1>2. ASSUME NEW granted, NEW loaded, openRemoteFails(granted, loaded)
      PROVE  KInv'
  BY <1>2 DEF openRemoteFails, KInv
<1>3. CASE create
  BY <1>3 DEF create, KInv, Blank
<1>4. ASSUME NEW n \in Sizes, NEW granted \in 0..MaxChunks,
             truncate(n, granted) \/ \E answer \in {0, 1} : fallocate(n, granted, answer)
      PROVE  KInv'
  <2>1. /\ status = "open" /\ UNCHANGED <<mem, outOfBounds>>
        /\ view'.bytes = Prefix(view.bytes, n) \/ view' = view
    BY <1>4 DEF truncate, fallocate
  <2> QED
    BY <2>1 DEF KInv, Prefix
<1>5. ASSUME NEW d \in Data, NEW offset \in Offsets, NEW len \in Lengths,
             NEW granted \in 0..MaxChunks, write(d, offset, len, granted)
      PROVE  KInv'
  BY <1>5, writeKeeps
<1>6. ASSUME NEW outcome \in Outcomes, flush(outcome) \/ destroy(outcome)
      PROVE  KInv'
  BY <1>6 DEF flush, destroy, KInv
<1>7. CASE UNCHANGED vars
  BY <1>7 DEF vars, object, KInv
<1> QED
  BY <1>1, <1>2, <1>3, <1>4, <1>5, <1>6, <1>7 DEF Next

LEMMA Kept == ASSUME PageStarts PROVE Spec => [](IInv /\ LInv /\ KInv)
<1>1. Init => KInv
  BY DEF Init, KInv
<1>2. IInv /\ LInv /\ KInv /\ [Next]_vars => KInv'
  BY NextKeeps
<1> QED
  BY <1>1, <1>2, Answered, PTL DEF Spec

(* Writes that do not start at the last byte of a chunk touch allocated     *)
(* chunks only, for any length, however many chunks they span.              *)
THEOREM WritesStayInBounds == ASSUME PageStarts PROVE Spec => []WriteInBounds
<1>1. KInv => WriteInBounds
  BY DEF KInv, WriteInBounds
<1> QED
  BY <1>1, Kept, PTL

(* Their bytes are what memory holds at their place, through any growth,    *)
(* truncation, failed allocation, flush and reload.                         *)
THEOREM ContentIsKept == ASSUME PageStarts PROVE Spec => []ContentKept
<1>1. KInv => ContentKept
  BY DEF KInv, ContentKept
<1> QED
  BY <1>1, Kept, PTL

(* The file is too short only where its writes ended with its last chunk,   *)
(* and then it still has all their bytes.                                   *)
THEOREM ShortAtChunkEndOnly == ASSUME PageStarts PROVE Spec => []ShortOnlyAtChunkEnd
<1>1. ASSUME IInv, LInv, KInv
      PROVE  ShortOnlyAtChunkEnd
  <2> SUFFICES ASSUME status = "open", size < view.len
               PROVE  /\ view.len = capacity
                      /\ \A p \in Addresses :
                           (p < view.len /\ view.bytes[p] # Junk) => mem[p] = view.bytes[p]
    BY DEF ShortOnlyAtChunkEnd
  <2>1. view.len = capacity
    BY <1>1, OpenFile
  <2> QED
    BY <1>1, <2>1 DEF KInv
<1>2. IInv /\ LInv /\ KInv => ShortOnlyAtChunkEnd
  BY <1>1
<1> QED
  BY <1>2, Kept, PTL
=============================================================================
