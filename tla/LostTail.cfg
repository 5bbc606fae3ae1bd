SPECIFICATION Spec
CONSTANTS
  ChunkSize = 4
  MaxChunks = 2
  RemoteChunk = 2
  Data = {d1}
  Junk = Junk
  Offsets <- PageOffsets
  Lengths = {2}
  Sizes = {}
INVARIANT AckedWriteKept
