SPECIFICATION Spec
CONSTANTS
  Word = 32
  Kilo = 4
  MaxPort = 15
  DefaultPort = 7
  DefaultChunk = 2
  DefaultChunks = 3
  Ports <- SomePorts
  ChunkSizes <- SomeChunkSizes
  ChunkCounts <- SomeChunkCounts
  Lengths <- SomeLengths
  Sizes <- SomeSizes
  Objects <- SomeObjects
INVARIANT TypeOK
INVARIANT SizesAsAsked
INVARIANT NeverDividesByZero
INVARIANT ChunksFit
INVARIANT StatfsAddsUp
CHECK_DEADLOCK FALSE
