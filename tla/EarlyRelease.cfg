SPECIFICATION Spec
CONSTANTS
  Mounts = {m1}
  Names = {a, b}
  NoName = NoName
  Handles = {1, 2}
  Ids = {1, 2}
  Data = {d1}
  Attrs = {v1}
  Scope = {}
  MaxFaults = 0
INVARIANT WritersHaveBuffer
