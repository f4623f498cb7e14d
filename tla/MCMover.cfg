SPECIFICATION OnePlacementSpec
CONSTANTS
  e1 = e1
  e2 = e2
  e3 = e3
  s1 = s1
  s2 = s2
  p1 = p1
  p2 = p2
  Expert = {e1, e2, e3}
  SlabSlot = {s1, s2}
  PoolSlot = {p1, p2}
  Record = {r1}
  None = None
  Card = {c1, c2}
  HostBuilt = {e3}
  Lead = 1
  PatchMax = 1
INVARIANTS NoStaleRead HomeHoldsBytes TableAsIssued
PROPERTIES MovesComplete
