SPECIFICATION Spec
CONSTANTS
  Mounts = {m1}
  Components = {x, y}
  MaxDepth = 2
  Ids = {i1, i2, i3}
  Scope = {"across"}
  MaxFaults = 0
SYMMETRY Symmetry
INVARIANT ListingMatchesLookup
