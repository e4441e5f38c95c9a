SPECIFICATION FairSpec
CONSTANTS
  Tasks = {t1, t2}
  Pods = {p1, p2}
  Calls = {c1}
  None = None
  MaxPosts = 2
  MaxFaults = 2
  MaxStarts = 3
PROPERTIES
  ImplementsQueue
  EntryIsSettled
CHECK_DEADLOCK FALSE
