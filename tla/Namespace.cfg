SPECIFICATION Spec
CONSTANTS
  Mounts = {m1, m2}
  Components = {x, y}
  MaxDepth = 2
  Ids = {i1, i2, i3, i4}
  Scope = {"onto"}
  MaxFaults = 1
SYMMETRY Symmetry
INVARIANT TypeOK
INVARIANT ListedIsThere
INVARIANT ListingMatchesLookup
INVARIANT NoOrphans
INVARIANT UniquePaths
