SPECIFICATION Spec
CONSTANTS
  Gates = {g1}
  Sessions = {s1}
  Session <- OneSession
  Reviewers = {r1}
  Decisions = {"approved", "rejected"}
  Outside = {}
  None = None
  MaxTurns = 1
  MaxOpened = 2
  MaxFaults = 0
INVARIANT DecisionsReinjected
CHECK_DEADLOCK FALSE
