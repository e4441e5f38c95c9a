SPECIFICATION FairSpec
CONSTANTS
  Gates = {g1}
  Sessions = {s1}
  Session <- OneSession
  Reviewers = {r1}
  Decisions = {"approved", "rejected", "cancelled"}
  Outside = {a2a}
  None = None
  MaxTurns = 2
  MaxOpened = 2
  MaxFaults = 1
INVARIANT DispatchIsFlagged
PROPERTIES
  TurnIsLogged
  GateIsResumed
CHECK_DEADLOCK FALSE
