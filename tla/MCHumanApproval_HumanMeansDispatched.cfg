SPECIFICATION Spec
CONSTANTS
  Gates = {g1}
  Sessions = {s1}
  Session <- OneSession
  Reviewers = {}
  Decisions = {"approved", "rejected"}
  Outside = {a2a}
  None = None
  MaxTurns = 1
  MaxOpened = 2
  MaxFaults = 0
INVARIANT HumanMeansDispatched
CHECK_DEADLOCK FALSE
