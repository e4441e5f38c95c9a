SPECIFICATION FairSpec
CONSTANTS
  Tasks = {t1, t2, t3, t4}
  Sentinel = None
INVARIANTS
  DrainMeansDone
  StopDrains
PROPERTIES
  ImplementsQueue
  AcceptedIsRun
