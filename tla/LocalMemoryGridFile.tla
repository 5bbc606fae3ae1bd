------------------------ MODULE LocalMemoryGridFile ------------------------
(***************************************************************************)
(* The in-memory copy of one GridFS file that is open for writing          *)
(* (local_grid_file.cpp): a vector of chunks of _chunkSize bytes that      *)
(* setSize extends, the size and dirty flag beside it, the write and read  *)
(* that address the chunks, flush, which replaces the file in GridFS, and  *)
(* openRemote, which loads it.  Byte a of chunk c is address               *)
(* c * ChunkSize + a, so the vector is a function from addresses and       *)
(* _capacity tells how far it reaches.  A write carries one datum in all   *)
(* its bytes.  One thread uses the object: mgridfs runs with -s.           *)
(***************************************************************************)
EXTENDS Naturals

CONSTANTS
  ChunkSize,    \* _memChunkSize, a multiple of 1024 in the code
  MaxChunks,    \* _maxMemFileChunks
  RemoteChunk,  \* the chunk size of the file in GridFS
  Data,         \* what a written byte can hold
  Junk,         \* memory nobody wrote
  Offsets,      \* the offsets and lengths the kernel passes to write
  Lengths,
  Sizes         \* and the sizes it passes to truncate and fallocate

MaxSize == ChunkSize * MaxChunks  \* _maxMemFileSize

ASSUME LocalMemoryGridFileAssumption ==
  /\ ChunkSize \in Nat \ {0} /\ ChunkSize % 2 = 0
  /\ MaxChunks \in Nat \ {0}
  /\ RemoteChunk \in Nat \ {0} /\ RemoteChunk % 2 = 0
  /\ Junk \notin Data
  /\ Offsets \subseteq 0..MaxSize
  /\ Lengths \subseteq 1..MaxSize
  /\ Sizes \subseteq 0..MaxSize

VARIABLES
  status,       \* of the object: "none", "open", or "failed" by openRemote
  size,         \* _size
  capacity,     \* _capacity
  dirty,        \* _dirty
  mem,          \* the bytes of _chunks
  stored,       \* the file in GridFS, or NoFile
  view,         \* what is read if every write and setSize that worked counts
  outOfBounds   \* memcpy has left the chunks

object == <<status, size, capacity, dirty, mem>>
vars == <<object, stored, view, outOfBounds>>

Addresses == 0..MaxSize - 1
Contents == [Addresses -> Data \cup {Junk}]
File == [len : 0..MaxSize, bytes : Contents]
NoFile == [len |-> 0, bytes |-> <<>>]

Smaller(a, b) == IF a < b THEN a ELSE b
Larger(a, b) == IF a < b THEN b ELSE a

Blank == [a \in Addresses |-> Junk]

(* The bytes of a file of n bytes: nothing beyond its length. *)
Prefix(bytes, n) == [a \in Addresses |-> IF a < n THEN bytes[a] ELSE Junk]

----------------------------------------------------------------------------
(* The definitions named Slip_... are mutants: each is a plausible slip in  *)
(* the definition below it, and none is part of the specification.         *)

(* (n + _chunkSize - 1) / _chunkSize *)
ChunksFor(n) == (n + ChunkSize - 1) \div ChunkSize

(* What setSize returns and leaves in the members: the new size without a   *)
(* new chunk, and a refusal.                                                *)
InPlace(n) == [ok |-> TRUE, size |-> n, capacity |-> capacity, dirty |-> TRUE]
Refused == [ok |-> FALSE, size |-> size, capacity |-> capacity, dirty |-> dirty]

Slip_SizeBeforeChunks(n, granted) ==
  LET missing == ChunksFor(n) - ChunksFor(capacity)
      got == Smaller(granted, missing)
  IN  [ok |-> got = missing, size |-> n,
       capacity |-> capacity + got * ChunkSize, dirty |-> TRUE]

Slip_GrowsByWholeFile(n, granted) ==
  LET got == Smaller(granted, ChunksFor(n))
      room == capacity + got * ChunkSize
  IN  [ok |-> got = ChunksFor(n), size |-> Smaller(room, n),
       capacity |-> room, dirty |-> TRUE]

Slip_PartIsEnough(n, granted) ==
  LET missing == ChunksFor(n) - ChunksFor(capacity)
      got == Smaller(granted, missing)
      room == capacity + got * ChunkSize
  IN  [ok |-> got = missing \/ got > 0,
       size |-> IF got = 0 THEN size ELSE Smaller(room, n),
       capacity |-> room,
       dirty |-> dirty \/ got > 0]

(* The loop over the missing chunks, when the allocator has "granted" left  *)
(* to give.  It sets _size with every chunk: with n = _capacity > _size no  *)
(* chunk is missing, the size stays, and the answer is still true.          *)
Grown(n, granted) ==
  LET missing == ChunksFor(n) - ChunksFor(capacity)
      got == Smaller(granted, missing)
      room == capacity + got * ChunkSize
  IN  [ok |-> got = missing,
       size |-> IF got = 0 THEN size ELSE Smaller(room, n),
       capacity |-> room,
       dirty |-> dirty \/ got > 0]

Slip_NoGrowthInPlace(n, granted) ==
  IF n <= size THEN InPlace(n)
  ELSE IF n < capacity THEN InPlace(size)
  ELSE IF n >= MaxSize THEN Refused
  ELSE Grown(n, granted)

setSize(n, granted) ==
  IF n <= size \/ n < capacity THEN InPlace(n)
  ELSE IF n >= MaxSize THEN Refused
  ELSE Grown(n, granted)

Resized(n, granted) ==
  LET r == setSize(n, granted)
  IN  size' = r.size /\ capacity' = r.capacity

Slip_ChunkStart(offset) == (offset \div ChunkSize) * ChunkSize

Slip_NextChunk(offset) == (offset \div ChunkSize + 1) * ChunkSize + (offset % ChunkSize)

(* _write looks up the chunk of offset + 1 and the offset within the chunk  *)
(* of offset; after the first chunk it goes on at the start of the next.    *)
WriteAddress(offset) == ((offset + 1) \div ChunkSize) * ChunkSize + (offset % ChunkSize)

Init ==
  /\ status = "none"
  /\ size = 0 /\ capacity = 0 /\ dirty = FALSE
  /\ mem = Blank
  /\ \/ stored = NoFile
     \/ \E n \in {0, ChunkSize, MaxSize}, d \in Data :
          stored = [len |-> n, bytes |-> Prefix([a \in Addresses |-> d], n)]
  /\ view = stored
  /\ outOfBounds = FALSE

----------------------------------------------------------------------------
(* createFile, then openRemote: setSize, and a _write for every chunk of    *)
(* GridFS.  Both chunk sizes are even, so no such _write starts at the last *)
(* byte of a chunk and every byte gets to its place.                        *)
openRemote ==
  /\ status = "none" /\ stored # NoFile /\ stored.len <= MaxSize
  /\ setSize(stored.len, MaxChunks).ok
  /\ status' = "open"
  /\ Resized(stored.len, MaxChunks)
  /\ dirty' = FALSE
  /\ mem' = stored.bytes
  /\ view' = stored
  /\ UNCHANGED <<stored, outOfBounds>>

(* openRemote returns an error.  Nothing happened to the object when the    *)
(* file is missing or too long or the query fails; else it is filled as far *)
(* as memory and the "loaded" chunks of GridFS went, and left dirty.        *)
openRemoteFails(granted, loaded) ==
  /\ status = "none"
  /\ status' = "failed"
  /\ \/ UNCHANGED <<size, capacity, dirty, mem>>
     \/ /\ stored # NoFile /\ stored.len <= MaxSize
        /\ Resized(stored.len, granted)
        /\ LET r == setSize(stored.len, granted)
           IN  /\ dirty' = r.dirty
               /\ IF r.ok
                    THEN /\ loaded * RemoteChunk < stored.len
                         /\ mem' = Prefix(stored.bytes, loaded * RemoteChunk)
                    ELSE UNCHANGED mem
  /\ UNCHANGED <<stored, view, outOfBounds>>

(* createFile for mgridfs_create: the file in GridFS is new and empty. *)
create ==
  /\ status = "none" /\ stored = NoFile
  /\ status' = "open"
  /\ stored' = [len |-> 0, bytes |-> Blank]
  /\ view' = stored'
  /\ UNCHANGED <<size, capacity, dirty, mem, outOfBounds>>

(* mgridfs_truncate, mgridfs_ftruncate and O_TRUNC. *)
truncate(n, granted) ==
  /\ status = "open" /\ ~outOfBounds
  /\ LET r == setSize(n, granted)
     IN  /\ Resized(n, granted)
         /\ dirty' = r.dirty
         /\ view' = IF r.ok THEN [len |-> n, bytes |-> Prefix(view.bytes, n)] ELSE view
  /\ UNCHANGED <<status, mem, stored, outOfBounds>>

(* mgridfs_fallocate of a range that ends at n gives the file that size. It *)
(* returns the bool of setSize as it is: 0, which FUSE takes for success,   *)
(* when setSize has failed.                                                 *)
fallocate(n, granted, answer) ==
  /\ truncate(n, granted)
  /\ answer = IF setSize(n, granted).ok THEN 1 ELSE 0

(* The room for a write that ends at "end". *)
Room(end, granted) ==
  IF capacity > end
    THEN [ok |-> TRUE, size |-> Larger(size, end), capacity |-> capacity, dirty |-> dirty]
    ELSE setSize(end, granted)

Slip_Dirtied(room) == room.dirty

(* _dirty after it: _write sets the flag. *)
Dirtied(room) == room.dirty \/ room.ok

(* write(data, len, offset): room for the bytes, then _write.  -ENOMEM      *)
(* leaves what setSize did.                                                 *)
write(d, offset, len, granted) ==
  /\ status = "open" /\ ~outOfBounds
  /\ LET end == offset + len
         r == Room(end, granted)
         at == WriteAddress(offset)
         inBounds == at + len <= r.capacity
     IN  /\ size' = r.size /\ capacity' = r.capacity
         /\ dirty' = Dirtied(r)
         /\ outOfBounds' = (r.ok /\ ~inBounds)
         /\ mem' = IF r.ok /\ inBounds
                     THEN [a \in Addresses |->
                             IF a \in at..at + len - 1 THEN d ELSE mem[a]]
                     ELSE mem
         /\ view' = IF r.ok
                      THEN [len |-> Larger(view.len, end),
                            bytes |-> [a \in Addresses |->
                                         IF a \in offset..end - 1 THEN d ELSE view.bytes[a]]]
                      ELSE view
  /\ UNCHANGED <<status, stored>>

----------------------------------------------------------------------------
(* createFlushBuffer copies chunk by chunk until nothing is pending. *)
FlushLength(n) == Smaller(n, ChunksFor(capacity) * ChunkSize)

FlushBuffer == [len |-> size, bytes |-> Prefix(mem, FlushLength(size))]

Outcomes == {"unchanged", "removed", "stored", "done"}

(* What flush leaves in GridFS and in _dirty.  "unchanged": no memory for   *)
(* the buffer, no connection, or no file of that name.  "removed": an       *)
(* exception after removeFile.  "stored": an exception in the update of the *)
(* metadata.  Only the last line clears _dirty.                             *)
Flushed(outcome) ==
  /\ stored' = IF ~dirty \/ outcome = "unchanged" THEN stored
               ELSE IF outcome = "removed" THEN NoFile ELSE FlushBuffer
  /\ stored = NoFile => outcome = "unchanged"

flush(outcome) ==
  /\ status # "none" /\ ~outOfBounds
  /\ Flushed(outcome)
  /\ dirty' = (dirty /\ outcome # "done")
  /\ UNCHANGED <<status, size, capacity, mem, view, outOfBounds>>

(* The destructor flushes a dirty object and drops the chunks. *)
destroy(outcome) ==
  /\ status # "none" /\ ~outOfBounds
  /\ Flushed(outcome)
  /\ status' = "none"
  /\ size' = 0 /\ capacity' = 0 /\ dirty' = FALSE
  /\ mem' = Blank
  /\ UNCHANGED <<view, outOfBounds>>

(* read(len, offset): past the end it returns -EOF, and EOF is -1.  Else    *)
(* it copies from the address "offset" up to the last chunk it counts.      *)
Slip_NumChunks == (size + ChunkSize) \div ChunkSize

NumChunks == (size + 1) \div ChunkSize

read(len, offset) ==
  IF offset >= size THEN 1
  ELSE IF offset \div ChunkSize < NumChunks
    THEN Smaller(len, NumChunks * ChunkSize - offset)
    ELSE 0

Next ==
  \/ openRemote
  \/ \E granted \in 0..MaxChunks, loaded \in 0..MaxSize : openRemoteFails(granted, loaded)
  \/ create
  \/ \E n \in Sizes, granted \in 0..MaxChunks :
       truncate(n, granted) \/ \E answer \in {0, 1} : fallocate(n, granted, answer)
  \/ \E d \in Data, offset \in Offsets, len \in Lengths, granted \in 0..MaxChunks :
       offset + len <= MaxSize /\ write(d, offset, len, granted)
  \/ \E outcome \in Outcomes : flush(outcome) \/ destroy(outcome)

Spec == Init /\ [][Next]_vars

----------------------------------------------------------------------------
(* The members stay within _maxMemFileSize: an allocation that fails half   *)
(* way never makes _capacity pass it.                                       *)
TypeOK ==
  /\ status \in {"none", "open", "failed"}
  /\ size \in 0..MaxSize /\ capacity \in 0..MaxSize
  /\ dirty \in BOOLEAN
  /\ mem \in Contents
  /\ stored \in File \cup {NoFile}
  /\ view \in File \cup {NoFile}
  /\ outOfBounds \in BOOLEAN

(* The chunks hold the whole file, whatever allocation failed on the way,   *)
(* and are whole.  The size stays below _maxMemFileSize.                    *)
ChunksHoldTheFile ==
  /\ size <= capacity /\ size < MaxSize
  /\ capacity % ChunkSize = 0

(* What a successful write put into the file is what memory holds at its    *)
(* place, as far as the file reaches, through any later growth, truncation, *)
(* failed allocation, flush and reload.                                     *)
ContentKept ==
  status = "open" =>
    \A p \in Addresses :
      (p < size /\ p < view.len /\ view.bytes[p] # Junk) => mem[p] = view.bytes[p]

(* The file is shorter than its successful writes only if they ended where  *)
(* the last chunk ends, the one case in which setSize forgets the size; the *)
(* bytes themselves are in memory then.                                     *)
ShortOnlyAtChunkEnd ==
  (status = "open" /\ size < view.len) =>
    /\ view.len = capacity
    /\ \A p \in Addresses :
         (p < view.len /\ view.bytes[p] # Junk) => mem[p] = view.bytes[p]

(* A write inside what a write, or a setSize that worked, has reached needs *)
(* no further memory, also after a truncation to a smaller size and back,   *)
(* and after growth that failed half way.                                   *)
ReachedNeedsNoMemory ==
  status = "open" =>
    \A end \in 1..MaxSize : end <= view.len => Room(end, 0).ok

(* While the flag says that nothing is to be flushed, GridFS holds what     *)
(* memory holds: a flush that failed anywhere is tried again.               *)
CleanIsStored == (status = "open" /\ ~dirty) => stored = FlushBuffer

(* read never copies from beyond the allocated chunks, for any request.     *)
ReadInBounds ==
  \A offset \in Addresses, len \in 1..MaxSize :
    offset < size => offset + read(len, offset) <= capacity

----------------------------------------------------------------------------
(* README.md lists "copy" among the operations that work: the file is as    *)
(* long as its last successful write made it.  (Not so: see                 *)
(* ShortOnlyAtChunkEnd.)                                                    *)
AckedWriteKept == status = "open" => size >= view.len

(* "Assumes the appropriate space is available and the chunks have been     *)
(* allocated": a write touches allocated chunks only.  (So for writes that  *)
(* start where a page does, but not for one at the last byte of a chunk.)   *)
WriteInBounds == ~outOfBounds

(* "Read should return exactly the number of bytes requested except on EOF  *)
(* or error".  (Not so: the last chunk is not counted unless it is full.)   *)
ReadReturnsRequested ==
  status = "open" =>
    \A offset \in Addresses, len \in 1..MaxSize :
      offset < size => read(len, offset) = Smaller(len, size - offset)

(* "If this function returns success then any subsequent write request to   *)
(* specified range is guaranteed not to fail because of lack of space".     *)
(* (Not so: it returns success exactly when it has failed.)                 *)
FallocateGuaranteesSpace ==
  [][\A n \in Sizes, granted \in 0..MaxChunks :
       fallocate(n, granted, 0) => (\A end \in 1..n : Room(end, 0).ok)']_vars
=============================================================================
