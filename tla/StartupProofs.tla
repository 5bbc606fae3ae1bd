--------------------------- MODULE StartupProofs ---------------------------
(***************************************************************************)
(* The sizes of in-memory files fit their types and are safe to divide by, *)
(* the chunks made of them are enough and no more than allowed, and the    *)
(* answer of statfs adds up: for every width of an unsigned int, whatever  *)
(* the command line says and whatever the database reports, as long as the *)
(* double of statfs is less than one file off (Total).                     *)
(***************************************************************************)
EXTENDS Startup, TLAPS

----------------------------------------------------------------------------
(* The ranges of the constants. *)
LEMMA Constants ==
  /\ Word \in Nat \ {0} /\ Kilo \in Nat \ {0} /\ MaxPort \in Nat
  /\ DefaultPort \in 1..MaxPort
  /\ DefaultChunk \in 1..Word - 1 /\ DefaultChunks \in 1..Word - 1
BY StartupAssumption

(* The ranges of the inputs. *)
LEMMA Inputs ==
  /\ \A n \in Ports \cup ChunkSizes \cup ChunkCounts : n \in 0..Word - 1
  /\ Lengths \subseteq Nat \ {0}
  /\ Sizes \subseteq 0..Word * Word - 1
  /\ Objects \subseteq Nat
BY StartupAssumption

(* A remainder is below what one divides by. *)
LEMMA RemainderRange ==
  ASSUME NEW x \in Int, NEW d \in Nat \ {0}
  PROVE  x % d \in 0..d - 1
OBVIOUS

(* A number that is below what one divides by is its own remainder. *)
LEMMA RemainderOfSmall ==
  ASSUME NEW d \in Nat \ {0}, NEW x \in 0..d - 1
  PROVE  x % d = x
OBVIOUS

(* What a quotient bounds. *)
LEMMA QuotientBounds ==
  ASSUME NEW x \in Nat, NEW d \in Nat \ {0}
  PROVE  /\ x \div d \in Nat
         /\ (x \div d) * d <= x
         /\ x < (x \div d) * d + d
OBVIOUS

(* An order of products is one of their factors. *)
LEMMA CancelFactor ==
  ASSUME NEW a \in Int, NEW b \in Int, NEW d \in Nat \ {0}, a * d < b * d
  PROVE  a < b
OBVIOUS

(* The product of two numbers of one word fits two words. *)
LEMMA ProductFits ==
  ASSUME NEW a \in 0..Word - 1, NEW b \in 0..Word - 1
  PROVE  a * b \in 0..Word * Word - 1
BY Constants

(* A multiple has no remainder. *)
LEMMA MultipleHasNoRemainder ==
  ASSUME NEW k \in Int, NEW d \in Nat \ {0}
  PROVE  (k * d) % d = 0
OBVIOUS

(* A common factor can be taken out of a difference. *)
LEMMA Distribute ==
  ASSUME NEW a \in Int, NEW b \in Int, NEW c \in Int, NEW d \in Int
  PROVE  a * d - b * (c * d) = (a - b * c) * d
<1>1. (a - b * c) * d = a * d - (b * c) * d
  OBVIOUS
<1>2. (b * c) * d = b * (c * d)
  OBVIOUS
<1> QED
  BY <1>1, <1>2

(* A product by a divisor of Word keeps it as divisor when it wraps. *)
LEMMA WrappedMultiple ==
  ASSUME NEW kb \in Nat
  PROVE  Bytes(kb) % Kilo = 0
<1> DEFINE w == Word \div Kilo
           q == (kb * Kilo) \div Word
<1>1. w \in Int /\ q \in Int /\ kb - q * w \in Int
  BY Constants
<1>2. Word = w * Kilo
  BY StartupAssumption
<1>3. Bytes(kb) = kb * Kilo - q * Word
  BY Constants DEF Bytes
<1>4. Bytes(kb) = (kb - q * w) * Kilo
  <2> HIDE DEF w, q
  <2>1. kb * Kilo - q * (w * Kilo) = (kb - q * w) * Kilo
    BY <1>1, Constants, Distribute
  <2> QED
    BY <1>2, <1>3, <2>1
<1> HIDE DEF w, q
<1> QED
  BY <1>1, <1>4, Constants, MultipleHasNoRemainder

----------------------------------------------------------------------------
(* What fromCommandLine computes from options it does not refuse.           *)
LEMMA OptionsCorrect ==
  ASSUME asked \in [port : Ports, chunk : ChunkSizes, chunks : ChunkCounts],
         asked.port <= MaxPort
  PROVE  /\ Options \in [port : 1..MaxPort, memChunkSize : 0..Word - 1,
                         maxMemFileChunks : 1..Word - 1,
                         maxMemFileSize : 0..Word * Word - 1]
         /\ Options.maxMemFileSize = Options.memChunkSize * Options.maxMemFileChunks
         /\ Options.memChunkSize % Kilo = 0
         /\ Or(asked.chunk, DefaultChunk) * Kilo < Word =>
              Options.memChunkSize = Or(asked.chunk, DefaultChunk) * Kilo
<1> DEFINE kb == Or(asked.chunk, DefaultChunk)
           chunks == Or(asked.chunks, DefaultChunks)
           port == Or(asked.port, DefaultPort)
<1>1. kb \in 1..Word - 1 /\ chunks \in 1..Word - 1 /\ port \in 1..MaxPort
  <2>1. /\ asked.port \in 0..MaxPort
        /\ asked.chunk \in 0..Word - 1
        /\ asked.chunks \in 0..Word - 1
    <3>1. asked.port \in Ports /\ asked.chunk \in ChunkSizes /\ asked.chunks \in ChunkCounts
      OBVIOUS
    <3> QED
      BY <3>1, Inputs, Constants
  <2>2. ASSUME NEW top \in Nat, NEW default \in 1..top, NEW n \in 0..top
        PROVE  Or(n, default) \in 1..top
    BY DEF Or
  <2>3. kb \in 1..Word - 1
    BY <2>1, <2>2, Constants
  <2>4. chunks \in 1..Word - 1
    BY <2>1, <2>2, Constants
  <2>5. port \in 1..MaxPort
    BY <2>1, <2>2, Constants
  <2> QED
    BY <2>3, <2>4, <2>5
<1>2. Options = [port |-> port, memChunkSize |-> Bytes(kb), maxMemFileChunks |-> chunks,
                 maxMemFileSize |-> Product(Bytes(kb), chunks)]
  BY DEF Options
<1> HIDE DEF kb, chunks, port
<1>3. kb * Kilo \in Int /\ kb * Kilo \in Nat
  BY <1>1, Constants
<1>4. Bytes(kb) \in 0..Word - 1
  BY <1>3, Constants, RemainderRange DEF Bytes
<1>5. Bytes(kb) % Kilo = 0
  BY <1>1, WrappedMultiple
<1>6. kb * Kilo < Word => Bytes(kb) = kb * Kilo
  BY <1>3, Constants, RemainderOfSmall DEF Bytes
<1>7. Bytes(kb) * chunks \in 0..Word * Word - 1
  BY <1>1, <1>4, Constants, ProductFits
<1>8. Product(Bytes(kb), chunks) = Bytes(kb) * chunks
  <2>1. Word * Word \in Nat \ {0}
    BY Constants
  <2> QED
    BY <1>7, <2>1, RemainderOfSmall DEF Product
<1> QED
  BY <1>1, <1>2, <1>4, <1>5, <1>6, <1>7, <1>8 DEF kb

(* The chunks of a file of n bytes below the limit. *)
LEMMA ChunksCorrect ==
  ASSUME NEW c \in 1..Word - 1, NEW k \in 1..Word - 1, NEW n \in Nat \ {0}, n < c * k
  PROVE  /\ ChunksOf(n, c) \in Nat
         /\ n <= ChunksOf(n, c) * c
         /\ (ChunksOf(n, c) - 1) * c < n
         /\ ChunksOf(n, c) <= k
<1> DEFINE x == n + c - 1
           q == x \div c
<1>1. x \in 0..Word * Word - 1
  <2>1. c * k <= c * (Word - 1)
    BY Constants
  <2>2. c * (Word - 1) + c = c * Word
    BY Constants
  <2>3. c * Word <= Word * Word
    BY Constants
  <2> QED
    BY <2>1, <2>2, <2>3, Constants
<1>2. Word * Word \in Nat \ {0}
  BY Constants
<1>3. ChunksOf(n, c) = q
  BY <1>1, <1>2, RemainderOfSmall DEF ChunksOf
<1>4. q \in Nat /\ q * c <= x /\ x < q * c + c
  BY <1>1, Constants, QuotientBounds
<1> HIDE DEF q
<1>5. (q - 1) * c = q * c - c
  BY <1>4
<1>6. n <= q * c /\ (q - 1) * c < n
  BY <1>4, <1>5
<1>7. q - 1 < k
  <2>1. (q - 1) * c < k * c
    BY <1>4, <1>6
  <2> QED
    BY <1>4, <2>1, CancelFactor
<1> QED
  BY <1>3, <1>4, <1>6, <1>7

(* The number of files statfs computes.                                     *)
LEMMA TotalCorrect ==
  ASSUME NEW storage \in Nat \ {0}, NEW blocks \in Nat,
         NEW objects \in Nat, NEW total \in Total(blocks, storage, objects)
  PROVE  /\ total \in Nat /\ total >= objects
         /\ total * storage - blocks * objects \in 1 - 2 * storage..storage - 1
<1> DEFINE all == blocks * objects
           exact == all \div storage
<1>1. all \in Nat
  OBVIOUS
<1>2. exact \in Nat /\ exact * storage <= all /\ all < exact * storage + storage
  BY <1>1, QuotientBounds
<1>3. /\ total \in exact - 1..exact + 1
      /\ total >= objects /\ total * storage < all + storage
  BY DEF Total
<1> HIDE DEF all, exact
<1>4. total \in Nat /\ total >= exact - 1
  BY <1>2, <1>3
<1>5. exact * storage - storage <= total * storage
  <2>1. (exact - 1) * storage = exact * storage - storage
    BY <1>2
  <2>2. (exact - 1) * storage <= total * storage
    BY <1>2, <1>4
  <2> QED
    BY <2>1, <2>2
<1>6. total * storage - all \in 1 - 2 * storage..storage - 1
  <2>1. total * storage \in Int /\ exact * storage \in Int
    BY <1>2, <1>4
  <2> QED
    BY <1>1, <1>2, <1>3, <1>5, <2>1
<1> QED
  BY <1>3, <1>4, <1>6 DEF all

(* The files that are free, as a difference of totals and of what is used.  *)
LEMMA FreeShare ==
  ASSUME NEW storage \in Int, NEW blocks \in Int, NEW objects \in Int, NEW total \in Int
  PROVE  (total - objects) * storage - (blocks - storage) * objects
           = total * storage - blocks * objects
<1>1. (total - objects) * storage = total * storage - objects * storage
  OBVIOUS
<1>2. (blocks - storage) * objects = blocks * objects - storage * objects
  OBVIOUS
<1> QED
  BY <1>1, <1>2

----------------------------------------------------------------------------
(* The inductive invariant: once parsed, the options are those computed     *)
(* from what was asked, and before that there is no file.                   *)
Configured ==
  at \in {"root", "mounted"} => asked.port <= MaxPort /\ options = Options

IInv ==
  /\ TypeOK
  /\ Configured
  /\ at \in {"parse", "root"} => file = NoFile
  /\ NeverDividesByZero
  /\ ChunksFit
  /\ StatfsAddsUp

LEMMA InitIInv == Init => IInv
<1> SUFFICES ASSUME Init PROVE IInv
  OBVIOUS
<1>1. options \in [port : 0..MaxPort, memChunkSize : 0..Word - 1,
                  maxMemFileChunks : 0..Word - 1, maxMemFileSize : 0..Word * Word - 1]
  <2>1. 0 \in 0..MaxPort /\ 0 \in 0..Word - 1
    BY Constants
  <2>2. 0 \in 0..Word * Word - 1
    BY <2>1, Constants, ProductFits
  <2> QED
    BY <2>1, <2>2 DEF Init
<1>2. TypeOK
  <2>1. 0 \in 0..Word * Word - 1
    BY Constants, ProductFits
  <2> QED
    BY <1>1, <2>1 DEF Init, TypeOK, NoFile, NoStat
<1> QED
  BY <1>2 DEF Init, IInv, Configured, NeverDividesByZero, ChunksFit, StatfsAddsUp, NoFile, NoStat

(* Parsing.                                                                 *)
LEMMA ParsePreserves == IInv /\ fromCommandLine => IInv'
<1> SUFFICES ASSUME IInv, fromCommandLine PROVE IInv'
  OBVIOUS
<1> USE DEF IInv, fromCommandLine
<1>1. CASE asked.port > MaxPort
  BY <1>1 DEF TypeOK, Configured, NeverDividesByZero, ChunksFit, StatfsAddsUp, NoFile
<1>2. CASE ~(asked.port > MaxPort)
  <2>1. asked.port <= MaxPort
    <3>1. asked.port \in 0..Word - 1
      BY Inputs DEF TypeOK
    <3> QED
      BY <1>2, <3>1, Constants
  <2>2. at' = "root" /\ options' = Options /\ UNCHANGED <<asked, file, stat>>
    BY <1>2
  <2>3. Options' = Options
    BY <2>2 DEF Options
  <2>4. /\ Options \in [port : 0..MaxPort, memChunkSize : 0..Word - 1,
                        maxMemFileChunks : 0..Word - 1, maxMemFileSize : 0..Word * Word - 1]
    <3>1. Options \in [port : 1..MaxPort, memChunkSize : 0..Word - 1,
                         maxMemFileChunks : 1..Word - 1,
                         maxMemFileSize : 0..Word * Word - 1]
      BY <2>1, OptionsCorrect DEF TypeOK
    <3>2. 1..MaxPort \subseteq 0..MaxPort /\ 1..Word - 1 \subseteq 0..Word - 1
      BY Constants
    <3> QED
      BY <3>1, <3>2
  <2>5. TypeOK'
    BY <2>2, <2>4 DEF TypeOK
  <2> QED
    BY <2>1, <2>2, <2>3, <2>5 DEF Configured, NeverDividesByZero, ChunksFit, StatfsAddsUp, NoFile
<1> QED
  BY <1>1, <1>2

(* Mounting.                                                                *)
LEMMA RootPreserves == IInv /\ loadRoot => IInv'
<1> SUFFICES ASSUME IInv, loadRoot PROVE IInv'
  OBVIOUS
<1> USE DEF IInv, loadRoot
<1>1. options.port > 0
  <2>1. options = Options
    BY DEF Configured
  <2>2. options.port \in 1..MaxPort
    BY <2>1, OptionsCorrect DEF Configured, TypeOK
  <2> QED
    BY <2>2, Constants
<1>2. Options' = Options
  BY DEF Options
<1> QED
  BY <1>1, <1>2 DEF TypeOK, Configured, NeverDividesByZero, ChunksFit, StatfsAddsUp, NoFile

(* The limit of a file of chunks of no bytes is no bytes: setSize gets to   *)
(* its division only with chunks of some.                                   *)
LEMMA SizePreserves ==
  ASSUME NEW n \in Lengths, IInv, setSize(n)
  PROVE  IInv'
<1> USE DEF IInv
<1> DEFINE c == options.memChunkSize
           k == options.maxMemFileChunks
<1>1. at = "mounted" /\ options = Options /\ asked.port <= MaxPort
  BY DEF setSize, Configured
<1>2. c \in 0..Word - 1 /\ k \in 1..Word - 1 /\ options.maxMemFileSize = c * k
  BY <1>1, OptionsCorrect DEF TypeOK
<1>3. n \in Nat \ {0}
  BY Inputs
<1>4. c * k \in Int
  BY <1>2, Constants
<1>5. n < c * k
  BY <1>2, <1>3, <1>4 DEF setSize, Refuses
<1>6. c \in 1..Word - 1
  BY <1>2, <1>3, <1>5, Constants
<1>7. /\ file' = [len |-> n, chunks |-> ChunksOf(n, c)]
      /\ UNCHANGED <<at, asked, options, stat>>
  BY <1>6, Constants DEF setSize
<1> HIDE DEF c, k
<1>8. /\ ChunksOf(n, c) \in Nat
      /\ n <= ChunksOf(n, c) * c
      /\ (ChunksOf(n, c) - 1) * c < n
      /\ ChunksOf(n, c) <= k
  BY <1>2, <1>3, <1>5, <1>6, ChunksCorrect
<1>9. ChunksFit'
  BY <1>7, <1>8 DEF ChunksFit, c, k
<1>10. Options' = Options
  BY <1>7 DEF Options
<1>11. TypeOK'
  BY <1>3, <1>7, <1>8 DEF TypeOK
<1> QED
  BY <1>1, <1>7, <1>9, <1>10, <1>11 DEF Configured, NeverDividesByZero, StatfsAddsUp

(* What statfs takes away from the total is what is stored.                 *)
LEMMA StatPreserves ==
  ASSUME NEW storage \in Sizes, NEW blocks \in Sizes, NEW objects \in Objects,
         IInv, statfs(storage, blocks, objects)
  PROVE  IInv'
<1> USE DEF IInv
<1> DEFINE bavail == (blocks - storage) % (Word * Word)
           answer(files) == [storage |-> storage, objects |-> objects, blocks |-> blocks,
                             bavail |-> bavail, files |-> files, ffree |-> files - objects]
<1>1. Word * Word \in Nat \ {0}
  BY Constants
<1>2. /\ storage \in Nat \ {0} /\ blocks \in Nat /\ objects \in Nat
      /\ storage <= Word * Word - 1 /\ blocks <= Word * Word - 1
  BY <1>1, Inputs DEF statfs
<1>3. storage <= blocks \/ blocks = 0
  BY DEF statfs
<1>4. bavail \in 0..Word * Word - 1
  <2>1. blocks - storage \in Int
    BY <1>2
  <2> QED
    BY <1>1, <2>1, RemainderRange
<1>5. storage <= blocks => bavail = blocks - storage
  BY <1>1, <1>2, RemainderOfSmall
<1>6. \E files : /\ stat' = answer(files)
                 /\ IF bavail > 0 /\ blocks > 0
                      THEN files \in Total(blocks, storage, objects)
                      ELSE files = objects
  BY DEF statfs
<1> HIDE DEF bavail
<1>7. PICK files : /\ stat' = answer(files)
                   /\ IF bavail > 0 /\ blocks > 0
                        THEN files \in Total(blocks, storage, objects)
                        ELSE files = objects
  BY <1>6
<1>8. UNCHANGED <<asked, at, options, file>>
  BY DEF statfs
<1>9. CASE bavail > 0 /\ blocks > 0
  <2>1. storage <= blocks
    BY <1>2, <1>3, <1>9
  <2>2. /\ files \in Nat /\ files >= objects
        /\ files * storage - blocks * objects \in 1 - 2 * storage..storage - 1
    BY <1>2, <1>7, <1>9, TotalCorrect
  <2>3. (files - objects) * storage - bavail * objects \in 1 - 2 * storage..storage - 1
    BY <1>2, <1>5, <2>1, <2>2, FreeShare
  <2>4. files - objects \in Nat
    BY <1>2, <2>2
  <2>5. StatfsAddsUp'
    BY <1>2, <1>5, <1>7, <2>1, <2>2, <2>3, <2>4 DEF StatfsAddsUp
  <2> QED
    BY <1>2, <1>4, <1>7, <1>8, <2>2, <2>4, <2>5
       DEF TypeOK, Configured, NeverDividesByZero, ChunksFit, Options
<1>10. CASE ~(bavail > 0 /\ blocks > 0)
  <2>1. files = objects /\ objects - objects = 0
    BY <1>2, <1>7, <1>10
  <2>2. blocks > 0 => bavail = 0 /\ blocks = storage
    BY <1>1, <1>2, <1>3, <1>4, <1>5, <1>10
  <2>3. 0 * storage - 0 * objects \in 1 - 2 * storage..storage - 1
    BY <1>2
  <2>4. StatfsAddsUp'
    BY <1>2, <1>7, <2>1, <2>2, <2>3 DEF StatfsAddsUp
  <2> QED
    BY <1>2, <1>4, <1>7, <1>8, <2>1, <2>4
       DEF TypeOK, Configured, NeverDividesByZero, ChunksFit, Options
<1> QED
  BY <1>9, <1>10

LEMMA NextPreserves == IInv /\ [Next]_vars => IInv'
<1> SUFFICES ASSUME IInv, [Next]_vars PROVE IInv'
  OBVIOUS
<1>1. CASE fromCommandLine
  BY <1>1, ParsePreserves
<1>2. CASE loadRoot
  BY <1>2, RootPreserves
<1>3. ASSUME NEW n \in Lengths, setSize(n) PROVE IInv'
  BY <1>3, SizePreserves
<1>4. ASSUME NEW storage \in Sizes, NEW blocks \in Sizes, NEW objects \in Objects,
             statfs(storage, blocks, objects)
      PROVE  IInv'
  BY <1>4, StatPreserves
<1>5. CASE UNCHANGED vars
  BY <1>5 DEF vars, IInv, TypeOK, Configured, Options, NeverDividesByZero, ChunksFit,
              StatfsAddsUp, NoFile
<1> QED
  BY <1>1, <1>2, <1>3, <1>4, <1>5 DEF Next

LEMMA Inductive == Spec => []IInv
BY InitIInv, NextPreserves, PTL DEF Spec

(* Every member keeps its width: no size overflows the size_t it is in.     *)
THEOREM TypeCorrect == Spec => []TypeOK
<1>1. IInv => TypeOK
  BY DEF IInv
<1> QED
  BY <1>1, Inductive, PTL

(* A mounted file system has the sizes that were asked for, unless the KB   *)
(* overflow, and whole KB then.                                             *)
THEOREM SizesCorrect == Spec => []SizesAsAsked
<1>1. IInv => SizesAsAsked
  BY OptionsCorrect DEF IInv, Configured, TypeOK, SizesAsAsked
<1> QED
  BY <1>1, Inductive, PTL

(* setSize never divides by zero, whatever --memChunkSize was.              *)
THEOREM DivisionSafe == Spec => []NeverDividesByZero
<1>1. IInv => NeverDividesByZero
  BY DEF IInv
<1> QED
  BY <1>1, Inductive, PTL

(* The chunks of an in-memory file hold it and keep to --maxMemFileChunks.  *)
THEOREM ChunksEnough == Spec => []ChunksFit
<1>1. IInv => ChunksFit
  BY DEF IInv
<1> QED
  BY <1>1, Inductive, PTL

(* df adds up for every database whose server reports its files, as long as *)
(* the double of statfs is less than one file off, up or down.              *)
THEOREM StatfsCorrect == Spec => []StatfsAddsUp
<1>1. IInv => StatfsAddsUp
  BY DEF IInv
<1> QED
  BY <1>1, Inductive, PTL
=============================================================================
