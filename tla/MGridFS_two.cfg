SPECIFICATION Spec
CONSTANTS
  Mounts = {m1, m2}
  Names = {a}
  NoName = NoName
  Handles = {1}
  Ids = {i1, i2, i3}
  Data = {d1}
  Attrs = {v1, v2}
  Scope = {"unlink", "chmod"}
  MaxFaults = 1
SYMMETRY TwoSymmetry
 
INVARIANT FilesSurvive
INVARIANT AttributesKept
CHECK_DEADLOCK FALSE
