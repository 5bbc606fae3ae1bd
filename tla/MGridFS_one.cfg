SPECIFICATION FairSpec
CONSTANTS
  Mounts = {m1}
  Names = {a, b}
  NoName = NoName
  Handles = {1, 2}
  Ids = {1, 2}
  Data = {d1}
  Attrs = {v1}
  Scope = {"unlink", "rename", "renameOnto"}
  MaxFaults = 2
INVARIANT TypeOK
 
 
INVARIANT UniqueNames
INVARIANT CleanIsStored
INVARIANT MetadataComplete
PROPERTY DirtyUntilStored
PROPERTY CallsReturn
PROPERTY ImplementsFileSystem
