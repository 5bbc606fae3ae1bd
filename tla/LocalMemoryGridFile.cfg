SPECIFICATION Spec
CONSTANTS
  ChunkSize = 4
  MaxChunks = 2
  RemoteChunk = 2
  Data = {d1, d2}
  Junk = Junk
  Offsets <- PageOffsets
  Lengths = {2, 4}
  Sizes = {0, 3, 4, 7}
SYMMETRY Symmetry
INVARIANT TypeOK
INVARIANT ChunksHoldTheFile
INVARIANT ContentKept
INVARIANT ShortOnlyAtChunkEnd
INVARIANT CleanIsStored
INVARIANT ReadInBounds
INVARIANT ReachedNeedsNoMemory
INVARIANT WriteInBounds
