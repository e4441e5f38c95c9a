SPECIFICATION Spec
CONSTANTS
  Gates = {g1}
  Sessions = {s1}
  Session <- OneSession
  Reviewers = {r1, r2}
  Decisions = {"approved", "rejected"}
  Outside = {}
  None = None
  MaxTurns = 2
  MaxOpened = 2
  MaxFaults = 1
SYMMETRY Interchangeable
INVARIANTS
  SecondDecisionRaced
  ToldIsOnRecord
CHECK_DEADLOCK FALSE
