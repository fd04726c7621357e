SPECIFICATION Spec
CONSTANTS
  c1 = c1
  c2 = c2
  c3 = c3
  c4 = c4
  Keys = {c1, c2, c3, c4}
  Capacity = 4
  Hash <- Collide
SYMMETRY SameHash
INVARIANTS MapMatchesPool SyncedIsExact EventsMatchSet
