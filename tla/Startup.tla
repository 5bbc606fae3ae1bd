------------------------------ MODULE Startup ------------------------------
(***************************************************************************)
(* A mgridfs process from its command line (fs_options.cpp, main.cpp) to   *)
(* the answers that are arithmetic: the sizes of in-memory files, which    *)
(* LocalMemoryGridFile.tla takes as constants, the chunks setSize makes of *)
(* them, and statfs.  An option that is not given is 0.  Parsing, with     *)
(* "%d", has already brought every number into an unsigned int.            *)
(***************************************************************************)
EXTENDS Integers

CONSTANTS
  Word,           \* values of an unsigned int, 2^32; a size_t has Word * Word
  Kilo,           \* 1024
  MaxPort,        \* 65535
  DefaultPort,    \* 27017
  DefaultChunk,   \* DEFAULT_MEMORY_GRID_FILE_CHUNK_SIZE, in KB
  DefaultChunks,  \* DEFAULT_MAX_MEMORY_FILE_CHUNKS
  Ports,          \* what users give for --port,
  ChunkSizes,     \* --memChunkSize
  ChunkCounts,    \* and --maxMemFileChunks
  Lengths,        \* the lengths of files
  Sizes,          \* storageSize and fileSize of db.stats()
  Objects         \* and its number of objects

ASSUME StartupAssumption ==
  /\ Word \in Nat \ {0} /\ Kilo \in 1..Word - 1 /\ Word % Kilo = 0
  /\ DefaultChunk \in 1..Word - 1 /\ DefaultChunks \in 1..Word - 1
  /\ DefaultChunk * Kilo < Word
  /\ DefaultPort \in 1..MaxPort /\ MaxPort \in Nat
  /\ Ports \subseteq 0..Word - 1
  /\ ChunkSizes \subseteq 0..Word - 1 /\ ChunkCounts \subseteq 0..Word - 1
  /\ Lengths \subseteq Nat \ {0}
  /\ Sizes \subseteq 0..Word * Word - 1 /\ Objects \subseteq Nat

VARIABLES
  asked,    \* the options as they were given
  at,       \* "parse", "root", "mounted", "refused" or "dead"
  options,  \* globalFSOptions
  file,     \* an in-memory file: its length and number of chunks
  stat      \* the answer of statfs and the statistics it is about

vars == <<asked, at, options, file, stat>>

NoFile == [len |-> 0, chunks |-> 0]
NoStat == [storage |-> 0, objects |-> 0, blocks |-> 0, bavail |-> 0, files |-> 0, ffree |-> 0]

Or(given, default) == IF given = 0 THEN default ELSE given

Init ==
  /\ asked \in [port : Ports, chunk : ChunkSizes, chunks : ChunkCounts]
  /\ at = "parse"
  /\ options = [port |-> 0, memChunkSize |-> 0, maxMemFileChunks |-> 0, maxMemFileSize |-> 0]
  /\ file = NoFile
  /\ stat = NoStat

----------------------------------------------------------------------------
(* The definitions named Slip_... are mutants: each is a plausible slip in  *)
(* the definition below it, and none is part of the specification.         *)

(* The chunk size in bytes: KB times 1024 in an unsigned int. *)
Slip_Bytes(kb) == IF kb * Kilo < Word THEN kb * Kilo ELSE Word - 1

Bytes(kb) == (kb * Kilo) % Word

Slip_Product(chunkSize, chunks) == (chunkSize * chunks) % Word

(* The product of two size_t. *)
Product(chunkSize, chunks) == (chunkSize * chunks) % (Word * Word)

Slip_Options ==
  [port |-> asked.port, memChunkSize |-> Bytes(Or(asked.chunk, DefaultChunk)),
   maxMemFileChunks |-> Or(asked.chunks, DefaultChunks),
   maxMemFileSize |-> Product(Bytes(Or(asked.chunk, DefaultChunk)), Or(asked.chunks, DefaultChunks))]

Options ==
  LET chunkSize == Bytes(Or(asked.chunk, DefaultChunk))
      chunks == Or(asked.chunks, DefaultChunks)
  IN  [port |-> Or(asked.port, DefaultPort),
       memChunkSize |-> chunkSize,
       maxMemFileChunks |-> chunks,
       maxMemFileSize |-> Product(chunkSize, chunks)]

(* FSOptions::fromCommandLine as far as the root, and its refusal of a port *)
(* above 65535, by which the program ends.                                  *)
fromCommandLine ==
  /\ at = "parse"
  /\ IF asked.port > MaxPort
       THEN at' = "refused" /\ UNCHANGED options
       ELSE at' = "root" /\ options' = Options
  /\ UNCHANGED <<asked, file, stat>>

(* mgridfs_load_or_create_root succeeds, and main mounts, or it does not.   *)
loadRoot ==
  /\ at = "root"
  /\ at' \in {"mounted", "refused"}
  /\ UNCHANGED <<asked, options, file, stat>>

Slip_Refuses(n) == options.maxMemFileSize > 0 /\ n >= options.maxMemFileSize

Refuses(n) == n >= options.maxMemFileSize

Slip_ChunksOf(n, chunkSize) == n \div chunkSize

ChunksOf(n, chunkSize) == ((n + chunkSize - 1) % (Word * Word)) \div chunkSize

(* setSize(n) of a new in-memory file, n > 0.  A division by zero ends the  *)
(* process.                                                                 *)
setSize(n) ==
  /\ at = "mounted"
  /\ ~Refuses(n)
  /\ IF options.memChunkSize = 0
       THEN at' = "dead" /\ UNCHANGED file
       ELSE /\ file' = [len |-> n, chunks |-> ChunksOf(n, options.memChunkSize)]
            /\ UNCHANGED at
  /\ UNCHANGED <<asked, options, stat>>

Slip_Total(blocks, storage, objects) == {(blocks \div storage) * objects}

(* blocks * 1.0 / storage * objects, cast to a long.  The double is taken   *)
(* to be less than one off, as it is up to some 2^51 files: the cast cuts   *)
(* off the rest, after rounding up or down past an integer or not.  It is   *)
(* not below objects, since a quotient above 1 is not rounded below 1.      *)
Total(blocks, storage, objects) ==
  LET exact == (blocks * objects) \div storage
  IN  {total \in exact - 1..exact + 1 :
         total >= objects /\ total * storage < blocks * objects + storage}

(* mgridfs_statfs.  The files of a database contain what it stores, or, for *)
(* a server that does not report them, fileSize reads as 0.                 *)
statfs(storage, blocks, objects) ==
  /\ at = "mounted"
  /\ storage > 0 /\ (storage <= blocks \/ blocks = 0)
  /\ LET bavail == (blocks - storage) % (Word * Word)
         answer(files) == [storage |-> storage, objects |-> objects, blocks |-> blocks,
                           bavail |-> bavail, files |-> files, ffree |-> files - objects]
     IN  IF bavail > 0 /\ blocks > 0
           THEN \E total \in Total(blocks, storage, objects) : stat' = answer(total)
           ELSE stat' = answer(objects)
  /\ UNCHANGED <<asked, at, options, file>>

Next ==
  \/ fromCommandLine
  \/ loadRoot
  \/ \E n \in Lengths : setSize(n)
  \/ \E storage, blocks \in Sizes, objects \in Objects : statfs(storage, blocks, objects)

Spec == Init /\ [][Next]_vars

----------------------------------------------------------------------------
(* Every member keeps its width, and no port that was refused is used.      *)
TypeOK ==
  /\ asked \in [port : Ports, chunk : ChunkSizes, chunks : ChunkCounts]
  /\ at \in {"parse", "root", "mounted", "refused", "dead"}
  /\ options \in [port : 0..MaxPort, memChunkSize : 0..Word - 1,
                  maxMemFileChunks : 0..Word - 1, maxMemFileSize : 0..Word * Word - 1]
  /\ at = "mounted" => options.port > 0
  /\ file \in [len : Nat, chunks : Nat]
  /\ stat \in [storage : Nat, objects : Nat, blocks : Nat, bavail : 0..Word * Word - 1,
               files : Nat, ffree : Nat]

(* The limit of a file, which setSize keeps it below, is memChunkSize times *)
(* maxMemFileChunks bytes and has not wrapped.  The chunk size is the one   *)
(* that was asked for, unless its KB overflow the unsigned int, and then    *)
(* still a whole number of KB, so that no chunk ends at an odd address, on  *)
(* which LocalMemoryGridFile.tla relies.                                    *)
SizesAsAsked ==
  at = "mounted" =>
    /\ options.maxMemFileSize = options.memChunkSize * options.maxMemFileChunks
    /\ options.memChunkSize % Kilo = 0
    /\ LET kb == Or(asked.chunk, DefaultChunk)
       IN  kb * Kilo < Word => options.memChunkSize = kb * Kilo

(* setSize never divides by a chunk size that has overflown to 0: the limit *)
(* of the file is then 0 too, and every size is refused before.             *)
NeverDividesByZero == at # "dead"

(* The chunks of a file hold it, the last one is needed, and there are no   *)
(* more of them than --maxMemFileChunks allows.                             *)
ChunksFit ==
  file.len > 0 =>
    /\ file.len <= file.chunks * options.memChunkSize
    /\ (file.chunks - 1) * options.memChunkSize < file.len
    /\ file.chunks <= options.maxMemFileChunks

(* df adds up when the server reports its files: what is used and what is   *)
(* free make the total, in bytes and in files, and the free files are to    *)
(* the used as the free bytes to the used: less than one file too many, by  *)
(* the rounding of the double, or two too few, by that and the cast.        *)
StatfsAddsUp ==
  stat.blocks > 0 =>
    /\ stat.bavail + stat.storage = stat.blocks
    /\ stat.files = stat.objects + stat.ffree
    /\ stat.ffree * stat.storage - stat.bavail * stat.objects
         \in 1 - 2 * stat.storage..stat.storage - 1
=============================================================================
