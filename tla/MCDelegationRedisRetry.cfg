SPECIFICATION Spec
CONSTANTS
  Tasks = {t1}
  Pods = {p1}
  Calls = {c1}
  None = None
  MaxPosts = 2
  MaxFaults = 0
  MaxStarts = 1
INVARIANT FailedIsRetryable
CHECK_DEADLOCK FALSE
