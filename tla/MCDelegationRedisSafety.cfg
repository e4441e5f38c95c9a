SPECIFICATION Spec
CONSTANTS
  Tasks = {t1, t2}
  Pods = {p1, p2}
  Calls = {c1, c2}
  None = None
  MaxPosts = 3
  MaxFaults = 2
  MaxStarts = 4
SYMMETRY Interchangeable
INVARIANTS
  TypeOK
  OneEntryUnlessFailed
  HeldByOne
  OrphansHaveACause
  ClaimIsBacked
CHECK_DEADLOCK FALSE
