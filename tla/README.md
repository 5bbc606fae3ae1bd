# mgridfs in TLA+

mgridfs is a FUSE file system whose files live in MongoDB GridFS.  This
directory holds its specifications: the handle table, the in-memory copy of a
file that is open for writing, the handlers that tie the two to GridFS, and the
directory tree kept in the metadata of the documents.  Paths below are
relative to `src/`.

## The system

| Part | State | Operations | Talks to |
|---|---|---|---|
| File handle table, `file_handle.cpp` | bimap of handles and names, a counter (both process-wide) | `assignHandle`, `generateNextHandle`, `unassignHandle`, `isValid` | called by every handler with a `fuse_file_info` |
| In-memory file, `local_grid_file.cpp` | chunks, `_size`, `_capacity`, `_dirty` | `setSize`, `write`, `read`, `openRemote`, `flush`, destructor | GridFS: find, remove, store, update |
| Map of in-memory files, `local_gridfs.cpp` | name to in-memory file | `findByName`, `createFile`, `releaseFile` | owns the in-memory files |
| File handlers, `file_meta_ops.cpp` | none of their own | `open`, `create`, `read`, `write`, `truncate`, `flush`, `release`, `fsync`, `unlink`, `rename`, `symlink`, attributes | all of the above, and `fs.files` directly |
| Directory handlers, `dir_meta_ops.cpp` | none | `mkdir`, `rmdir`, `opendir`, `readdir`, `releasedir` | handle table, `fs.files` |
| Root and statistics, `fs_meta_ops.cpp` | none | `load_or_create_root`, `statfs` | `fs.files` |
| Options, `fs_options.cpp` | `globalFSOptions`: connection, sizes | `fromCommandLine` | the sizes go to the in-memory files |
| Helpers, logger, `main.cpp` | log level | path helpers, FUSE dispatch | |
| GridFS and the kernel (external) | `fs.files`, `fs.chunks`; open files and their handles | | |

What is hard here:

* **Several calls of the database make one operation.**  `flush` finds, removes,
  stores and updates; `create` and `mkdir` store and update.  Any of them can
  throw, before or after the server has acted, and the process can die between
  two.  `release` tries a failed flush twice more.
* **Two names for one file in memory.**  A file opened twice has two handles and
  one buffer; the first release drops it.
* **Two views of one file.**  `getattr` and `read` answer from the buffer when
  there is one and from GridFS when there is none.
* **Two keys for one directory entry.**  Lookup goes by `filename`, listing by
  `metadata.directory` and `metadata.filename`, which are written at different
  moments and by different handlers.
* **Metadata by way of the handler.**  `flush` reads owner and mode before it
  removes the document and writes them into the new one four steps later.
* **Boundaries.**  A counter that wraps; sizes equal to the capacity; offsets at
  the last byte of a chunk; an allocation that fails half way; a chunk size that
  overflows to 0; unsigned differences in `statfs`.
* **Other mounts** of the same collection, which share documents and nothing
  else.

What makes each part correct: a handle a caller holds leads to its file and to
no other caller's; the chunks hold the file; what a write acknowledged is what
is read until GridFS has it; a clean buffer equals GridFS; no buffer without an
open writer; no name with two documents; a file keeps the owner and mode it was
given; what is listed is what can be looked up; no division by zero; every
handler returns.  `FileSystem` says it from the users' side.  Every place where
this can go wrong is a row of `hazards` in `PROJECT.json`, at its line.

## The modules

`HandleTable` is the abstract handle table: an assignment takes a handle that
is unused, an entry keeps its name, and goes when it is unassigned.

`FileHandle` is `file_handle.cpp`, one iteration of the search loop a step
(`probeFree`, `probeUsed`, `exhausted`).  `FILE_HANDLE` is `_FILE_HANDLE`,
`fileHandles` is the left view of the bimap, `fh` and `path` are what the kernel
keeps of each open file.  The counter wraps after `MaxHandle`, 2^64 - 1 in the
code; 0 is no handle.  The module implements `HandleTable` with
`table <- fileHandles`.

`LocalMemoryGridFile` is one in-memory file, by the byte.  The chunks are one
function from addresses, chunk `c` at `c * ChunkSize`; `capacity` says how far
they are allocated.  `setSize` is an operator that returns what the C++ function
returns and leaves in the members, for a given number of chunks the allocator
still grants.  `stored` is the file in GridFS and `view` what one reads if every
write and `setSize` that worked counts.  A byte nobody wrote is `Junk`.
`fallocate` is `truncate` with the answer the code gives, the bool of `setSize`
as an int: 1 when it worked and 0, which FUSE takes for success, when it did not.

`MGridFS` composes the handlers with the handle table (the operators of
`HandleTable`, which `FileHandle` implements), the map and GridFS.  A file's
content is one value here, its owner and mode another (`meta`; `NoMeta` is a
document whose update after `storeFile` has not run).  A mount is in one handler
at a time; `call` says which and before which call of the database it is, so the
steps of different mounts interleave.  `flushFind`, `flushRemove`, `flushStore`
and `flushUpdate` are the calls of one `flush`: the first keeps the metadata it
read in `call`, the last writes it, and throws when there was none.  `FlushEnds`
is what the handler does after it: `flush` and `fsync` return, `release` and a
failed `open` go on to `releaseFile`, which flushes again, to the destructor,
which flushes once more, and then the object is gone.  A failing call (`Fault`)
may have taken effect (`Perhaps`).  `rename` gives one document of the old name
the new one, as `mgridfs_rename` does, whatever has that name already: onto an
existing file it leaves two documents of one name, and every later call finds one
or the other.  Two history variables are for the properties: `given` is the owner
and mode users gave a file last, and `excused` has "race" once a mount changed a
document while another was between two calls for a file of its name, "onto" once
a file was renamed onto another (`Watch`).

The documents' ids are a bounded set, so an `_id` may come again after its
document is removed; real ones never do, and the properties hold all the same.

`FileSystem` is what `MGridFS` with one mount implements: a map from names to
contents that users create, write, save, remove and rename to free names in one
step each.  A rename onto an existing name ends what it promises (`Mix`): both
documents are there, and which of them a later call finds is open.
Users write what is in `Written`: the contents `MGridFS` lets them write, and the
empty one, but not what an open that fails leaves (`Garbage`).
`files[n]` is what a read returns (`Held`: the buffer once it is loaded, else the
document), `unsaved` the dirty buffers, `broken` says that a call failed or the
process died.  Only then can an unsaved file be lost (`Lose`), or a file be
spoilt by an open that fails (`Spoil`); a file that is saved and not being opened
never changes but by its users.

`Namespace` is the tree: a document has its path and, once the update after
`storeFile` ran, its directory, base name and kind.  `loadRoot` is
`mgridfs_load_or_create_root`; `make` begins `mkdir`, `create` and `symlink`
(of kind "file": the tree does not tell the last two apart), `store` and
`update` are their two calls; `rmdir` and `remove` are the two calls of
`mgridfs_rmdir`.  `update` goes by `_id` and sets the metadata alone, as the code
does, so a document that was renamed since `store` keeps its new path and gets
the parts of the old one; a new document never takes an `_id` that a handler
still holds (`Fresh`).  `excused` is a history variable: "race" once a mount
changed a document at, above or below the path another mount's handler is about
to change, "moved" once the document that a handler has stored and is about to
update was renamed, "onto" once a file was renamed onto another.

`Startup` is the arithmetic of one process: `fromCommandLine` computes the sizes
from the options in an `unsigned int` of `Word` values and a `size_t` of
`Word * Word`, `loadRoot` mounts or not, `setSize` makes chunks of a file and
would divide by a chunk size of 0, `statfs` computes its answer from
`db.stats()`.  The double of `statfs` is taken to be less than one file off
(`Total`): the cast then gives the exact quotient rounded down, one more, or one
less.  A double of 53 bits is that exact up to some 2^51 files.  An option that
is not given is 0, as in the code.

`FileHandleProofs`, `LocalMemoryGridFileProofs`, `MGridFSProofs`,
`OneMountProofs` (which extends it), `NamespaceProofs` and `StartupProofs` hold
the theorems, each about the module its name begins with, `OneMountProofs` about
`MGridFS`.  The `MC_` modules give symmetry and input sets.  Definitions named
`Slip_...` are mutants of the definition below them: they show that a property
can fail, and no specification uses them.

Left out of the states: who may do what (`default_permissions` is the
kernel's), times, and the contents of links.  A `chmod` or `chown` sets the whole
of owner and mode, and does not make the metadata of a document that has none
whole.  The kernel looks a name up before it creates it, and does not rename or
remove what it has not found.  libfuse turns the removal of an open file into a
rename, so `unlink` is of closed files.  `createFile` running out of memory ends
as the failed branch of `openLoad` does.

## The runs

| Run | What it checks |
|---|---|
| `handles` | Four handles, five callers, two names. `HandleNamesItsFile`, `DistinctHandles`, `NoLeakedEntry`, `RefusedOnlyWhenNearlyFull`, `SearchEnds`, and the refinement `ImplementsTable` |
| `memory_file` | Two chunks of four bytes, page-aligned writes of two and four bytes, truncations at and beside the chunk boundary, every number of chunks the allocator can grant, every outcome of a flush. `ChunksHoldTheFile`, `ContentKept`, `ShortOnlyAtChunkEnd`, `CleanIsStored`, `ReadInBounds`, `ReachedNeedsNoMemory`, `WriteInBounds` |
| `one_mount` | One mount, two names, two handles, two documents, two failures or crashes, every operation but `chmod`, renames onto the other name included. `BufferHasWriter`, `HandlesMatch`, `UniqueNames`, `CleanIsStored`, `MetadataComplete`, `DirtyUntilStored`, `CallsReturn`, and the refinement `ImplementsFileSystem` |
| `two_mounts` | Two mounts and one name, one handle each, two owners, removal and `chmod`, one failure or crash. `BufferHasWriter`, `FilesSurvive`, `AttributesKept` |
| `namespace` | Two mounts, seven paths, four documents, renames onto existing names, one failure. `ListedIsThere`, `ListingMatchesLookup`, `NoOrphans`, `UniquePaths` |
| `startup` | Integers of 5 bits, a KB of 4 bytes, options absent, in range and overflowing, sizes at and beside chunk boundaries, databases with and without room. `SizesAsAsked`, `NeverDividesByZero`, `ChunksFit`, `StatfsAddsUp` |

Each run also checks the type invariant of its module, `two_mounts` excepted.

Six runs end in a counterexample to something the repository says of itself:

| Run | The line | The code |
|---|---|---|
| `lost_tail` | README: "copy" works | A write that ends exactly at `_capacity` leaves `_size` short: neither branch of `setSize` sets it (`local_grid_file.cpp:82`, `:109`). `ShortOnlyAtChunkEnd` shows that this is the only way |
| `misplaced_write` | `_write`: "Assumes the appropriate space is available" | The chunk is computed from `offset + 1` (`local_grid_file.cpp:220`): a write from the last byte of a chunk goes one chunk too far |
| `short_read` | `read` "should return exactly the number of bytes requested" | The last chunk counts only when it is full (`local_grid_file.cpp:256`) |
| `no_space` | `fallocate`: after success a write in the range "is guaranteed not to fail because of lack of space" | It returns the bool of `setSize` (`file_meta_ops.cpp:1040`): 0, success, is a `setSize` that failed |
| `early_release` | "only the last release" ends writing | Any release drops the buffer (`file_meta_ops.cpp:700`) |
| `stale_directory` | README: "move" works | `metadata.directory` keeps the old directory (`file_meta_ops.cpp:240`) |

The passing runs avoid the last case (`Scope` of `Namespace` without `"across"`)
and the second (`PageOffsets`): `memory_file` takes the offsets of writes that go
through the page cache a page at a time, which never start at the last byte of a
chunk, whose size is a whole number of KB (`SizesAsAsked`).  That is an assumption
about users: a write of any other offset, such as an append, reaches mgridfs as
it is, and `misplaced_write` is about those.  The passing runs contain the other
cases: their properties are what holds in spite of them.

Two more things the code does are in the passing runs, where the properties say how
far they reach.  An `open` whose download fails half way flushes the half-filled
object over the file (`file_meta_ops.cpp:430`, `openChunks`, `Spoil`).  A rename onto
an existing name leaves the document that has it (`file_meta_ops.cpp:239`), so that
`mv a b` ends with two documents named b (`rename`, `Onto`, `Mix`).

### Bounds

* `handles`: the counter wraps after four opens; with five callers the table can
  be full, be full when another caller comes, and be empty but for the start.
* `memory_file`: two chunks are the least with a boundary inside the file, four
  bytes a chunk the least in which a page is not a chunk.  A file of
  `_maxMemFileSize` bytes is among the initial ones.
* `one_mount`: `MaxFaults = 2` fails a flush and its first retry, or a handler
  and then the process.  Two handles make a file that is open twice; two names
  make a handle table with different entries and a rename.  Two documents are one
  for each name, or two of one name after a rename onto it; `create` starts only
  when one is left.  Owner and mode have one value here, with a document that has
  none beside it: `two_mounts`, which tells two apart, is about what is carried from
  document to document.
* `two_mounts`: three documents are more than one name can have with two
  flushes under way.  One handle for each mount, because `one_mount` has a file
  that is open twice and the races between mounts need no second one; one
  failure, because the races need none.  Deadlock is not checked because an open
  that fails in `openRemote` leaves its handle in the table
  (`file_meta_ops.cpp:431`), and two such opens use up the handles of the model,
  in which nothing is then left to do.
* `namespace`: paths of length two give a directory within a directory, four
  documents the root, a directory and two files, or two roots; `Room` stops a
  handler from starting when no document is left.
* `startup`: 8 KB overflow to 0 and 9 KB to 1; the lengths reach the largest
  limit.  Deadlock is not checked because a mount that is refused ends.

### Fairness

`FairSpec` of `FileHandle` assumes that a search loop that has started runs on,
`FairSpec` of `MGridFS` that a handler that has started does, and that every
call of the database returns or throws.  Both are the one thread of a mount
executing its code.  Users are under no fairness: nobody has to open, write or
release anything.  `SearchEnds` is stated for states with a free handle: with
none, a search that starts from the least handle goes round for ever, because
the loop body lifts the counter past its start; 2^64 handles are never all in
use.

## What is proved

Every safety property of a passing run, type invariants, action properties and
both refinements included, is a theorem for all values of the constants.  The
assumptions of the modules (`FileHandleAssumption` and its like) give the
constants their ranges.  Some theorems assume more, because the property is false
otherwise:

| Hypothesis | Says | Because |
|---|---|---|
| `PageStarts` | no write starts at the last byte of a chunk | `misplaced_write`; true of writes of whole pages |
| `OneDirectory` | no file is renamed into another directory | `stale_directory` |
| `OneMount` | one mount uses the documents | two that write one file can leave two documents of its name, or lose a write: "lack of ACIDity across multiple documents" in `README.md` |
| `NoRenameOfOpen` | no file is renamed, or renamed onto, while it is open | its buffer keeps the old name and what is written is lost |
### The handle table

`FileHandleProofs`, for every `MinHandle < MaxHandle`, every set of callers and
names: `TypeCorrect` (`TypeOK`), `HandlesLeadToFiles` (`HandleNamesItsFile`),
`HandlesAreDistinct` (`DistinctHandles`), `NoEntryLeaks` (`NoLeakedEntry`),
`RefusalJustified` (`RefusedOnlyWhenNearlyFull`) and `Refinement` (`Spec`
implements `HandleTable`).

The argument is one inductive invariant, `IInv`.  `HandleNamesItsFile` and
`DistinctHandles` are inductive once one knows that `generateNextHandle` stops at
an unused handle only.  The refusal needs more: while a search runs, every handle
between its start and the counter, going round through `MaxHandle` and
`MinHandle`, is in use (`PassedUsed`), so that when the counter is back at the
start there is no other free one; and between searches the counter is a handle,
never a wrapped 0 (`CounterAtRest`).  `WhereSearchStops` draws the conclusion
both for `RefusalJustified` and for the step of the refinement.

### The file in memory

`LocalMemoryGridFileProofs`, for every chunk size and limit, every set of
offsets, lengths and data, every number of chunks the allocator grants:

* `TypeCorrect` (`TypeOK`) and `FileFits` (`ChunksHoldTheFile`).  The invariant
  `IInv` says that size and capacity `Fit`: the capacity is a whole number of
  chunks, not more than `MaxChunks`, and holds the file.  `setSizeFits` and
  `RoomFits` show that `setSize` keeps it so when the allocator gives out half
  way; every action is then a short step (`StepFits`).
* `CleanStored` (`CleanIsStored`) needs two facts more (`CInv`): an object that is
  not there has no chunks, so that a download that succeeds sets the size it read
  (`FreshSetSize`), and GridFS has no bytes beyond the end of a file.  A `setSize`
  that leaves an object clean has done nothing (`CleanSetSize`).
* `ReadStaysInBounds` (`ReadInBounds`) follows from `Fit`: the chunks `read` counts
  end at most one byte after the size, and the capacity is a whole number of
  chunks.
* `ReachedRoomStays` (`ReachedNeedsNoMemory`) needs to know how far what the
  callers were told can be from `_size` (`LInv`): below `_maxMemFileSize`, and not beyond
  the size unless it is exactly the capacity.  `setSizeAnswer` and `RoomAnswer`
  show that an answer of `setSize` keeps it so, a refusal after some chunks
  included, whose size may pass what was told before.
* `WritesStayInBounds` (`WriteInBounds`), `ContentIsKept` (`ContentKept`) and
  `ShortAtChunkEndOnly` (`ShortOnlyAtChunkEnd`) assume `PageStarts`: then a write
  goes to its offset (`WriteGoesToOffset`), `LInv` gives it the chunks, and every
  acknowledged byte is in memory whether or not the size reaches it (`KInv`).
  That is stronger than `ContentKept`, which looks below `_size` only, and it is
  what makes the property survive a size that comes back.

### The handlers, any number of mounts

`MGridFSProofs`, for any number of mounts, names, handles, documents and failing
calls:

* `TypeCorrect` (`TypeOK`), `BuffersHaveWriters` (`BufferHasWriter`) and
  `OpenHandlesNamed`, the half of `HandlesMatch` that holds with other mounts;
* `OwnerAndModeKept` (`AttributesKept`);
* `FilesKeepExisting` (`FilesSurvive`).

`IInv` has four parts.  `MountOK` relates what one mount keeps to the handler it is
in: a handler that flushes has a dirty file in memory, one that opens or closes
has its handle and that handle its name, and a file in memory has an open writer
or such a handler.  A property of the states between handlers is not inductive
without it, since the flushes of one release are up to twelve calls of the
database.  `Surviving`
says that without failing calls a file is missing only while some mount is about
to store it.  `Kept` says that, until a race or a rename onto a name, a name has
one document, a handler about to store one has removed the other, and owner and
mode are the given ones, in the document or in the handler that carries them
across.  The steps of another
mount leave this alone unless they change a document of the same name, which is
what
`excused` records; a rename onto a name ends it too (`Watch`).

### The handlers, one mount

`OneMountProofs` assumes `OneMount`, which keeps "race" out of `excused` for good
(`OneInv`).  `Finds` adds that the document a handler has found or stored is
still what it takes it for, `Clears` and `Completes` that without failing calls
no open fails once it has found its file, and only a handler in the middle of a
flush or create has a document without metadata, `Few` that the handles in the
table that no file has open and no handler opens (`Lost`) are no more than the
calls that failed: a step loses one at most, and only when a call fails
(`LosesOne`).  From these:

* `HandlesAreOpenFiles` (`HandlesMatch`), `NamesAreUnique` (`UniqueNames`, until a
  rename onto a name) and `DocumentsHaveMetadata` (`MetadataComplete`);
* `WrittenUntilStored` (the action property `DirtyUntilStored`);
* `CleanFilesAreStored` (`CleanIsStored`), which also assumes `NoRenameOfOpen`.
  `CleanInv` says that a clean file in memory, once loaded, is what a document of
  its name in GridFS has, and holds with renames onto a name, too;
* `ImplementsAFileSystem` (`ImplementsFileSystem`), which assumes it, too.  Until
  a rename onto a name nothing is excused, so a name has one document before and
  after a step (`Single`), the one that `Held` reads.

The refinement maps a step of a handler to one operation of `FileSystem` or to a
stutter: `FileStep` says what a step can do to what one name holds, `Viewed` that
it does so to at most one name, `Renames` and `Dies` are the two kinds of step
that touch more, and `ViewStep` turns each into an action of the abstract module.
The remove and the store of a flush are stutters, because a read in between
answers from the buffer.

### The tree

`NamespaceProofs`, for any number of mounts, names and documents, any depth:
`TypeCorrect` (`TypeOK`) and `PathsAreUnique` (`UniquePaths`), and with
`OneDirectory` `ListedIsFound` (`ListedIsThere`), `ListingIsLookup`
(`ListingMatchesLookup`) and `FilesAreHoused` (`NoOrphans`).

Each has its invariant above the types of the documents and handlers (`TInv`).
`SInv`: the metadata of every document are the parts of its path, and a handler
about to update one has its path.  `MInv`: without failing calls a document
without metadata is being made.  `UInv`: the path a handler is about to store has
no document.  `OInv`: what a handler has found when it looked is still so when it
acts (`Waits`), and a document is in a directory that is there.  The last relies
on the race being excused: `NearStays` says that a step of one mount leaves every
document near the path of another's handler alone.  The sequences need two facts,
that a path is a sequence of bounded length (`PathIsSeq`) and that it is its
parent with its base name appended (`PathParts`).

`SInv`, and with it the two properties of listings, exempt the histories with
"moved", for which they are false: one mount stores a document, another renames
it, the first updates it, and the directory lists a name nobody can look up.

### The arithmetic

`StartupProofs`, for every `Word`, every `Kilo` that divides it, all options and
statistics: `TypeCorrect` (`TypeOK`), `SizesCorrect` (`SizesAsAsked`),
`DivisionSafe` (`NeverDividesByZero`), `ChunksEnough` (`ChunksFit`) and
`StatfsCorrect` (`StatfsAddsUp`).

The invariant is that a process past the parser has exactly the options computed
from what was asked (`Configured`).  The product of two numbers of one word fits
two (`ProductFits`), so the limit never wraps, and is 0 when the chunk size has
overflown to 0: `setSize` then refuses every size before it divides.  The files of
`statfs` are bounded from both sides of the exact quotient (`TotalCorrect`), on the
assumption about the double that `Total` makes.

### What only TLC checks

Liveness: `SearchEnds` and `CallsReturn` need fairness and `ENABLED`, which the
prover does not have.  The six runs with a counterexample are what they are.  And
that the properties can fail: the mutants.

## What is not modelled

Times: `uploadDate`, `metadata.lastUpdated`, `utime` and `utimens`.  One handler
stores a time and one reads it; the one surprise, that `utimens` takes the time
it is given only when that is 0, is a hazard in `PROJECT.json` without a
property.  What `fallocate` keeps of a file that is longer than the range.  The
handlers that answer with a constant (`mknod`, `link`, `lock`, `flock`, `ioctl`,
`poll`, `bmap`, extended attributes, `fsyncdir`): they change nothing.  The
options that are text, the logger, the performance driver: no state of the file
system depends on them.  `get512BlockCount`: one division.  Renaming directories:
README.md says "only single file".  Renaming a file that is open for writing
(`Scope` with `"renameOpen"`): its buffer keeps the old name, the next flush
fails, and `ImplementsFileSystem` does not hold; no line of the repository says
that it should.  A mount without `-s`: README.md lists thread-safety among the
known issues.  That two mounts writing one file can leave two documents of its
name, that a crash in a flush can leave none, and that races between mounts can
orphan an entry or lose a `chmod` is "lack of ACIDity across multiple documents"
there: `UniqueNames` and `ImplementsFileSystem` are properties of one mount,
`AttributesKept`, `NoOrphans` and `UniquePaths` exempt the histories with a race, and
`ListedIsThere` and `ListingMatchesLookup` those with "moved".  After a rename onto
an existing name, modelled in `MGridFS` and in `Namespace`, the properties that
two documents of one name break exempt the history: `UniqueNames`, `AttributesKept`
and `UniquePaths`; and `ImplementsFileSystem` promises nothing from then on.

## Plan

1. `Namespace` and the flush of `MGridFS` in one module: a flush that replaces a
   directory or a link another mount made of the name meanwhile.
2. Proofs: what of `CleanIsStored` and of the refinement is left with several
   mounts that write different files.
3. The times, with the time a caller asked for beside the one stored.
