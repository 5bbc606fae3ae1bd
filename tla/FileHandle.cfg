SPECIFICATION FairSpec
CONSTANTS
  Opens = {o1, o2, o3, o4, o5}
  Names = {a, b}
  NoName = NoName
  MinHandle = 2
  MaxHandle = 5
INVARIANT TypeOK
INVARIANT HandleNamesItsFile
INVARIANT DistinctHandles
INVARIANT NoLeakedEntry
PROPERTY RefusedOnlyWhenNearlyFull
PROPERTY SearchEnds
PROPERTY ImplementsTable
