SPECIFICATION MCSpec
CONSTANTS
  Flows = {f1, f2}
  Inbound = {i1, i2}
  Margin = 3
  Lifetimes = {3, 5}
  MaxTTL = 4
  GoogleTTL = 2
  Delay = 1
  Travel = 1
  MaxTime = 8
  Writers = {w1, w2}
  Urls = {u1, u2}
  Notes = {n1}
  NoRow = NoRow
  MaxWrites = 4
  TTL = 7
  Slowest = 1
  Absent = Absent
  MaxSecond = 16
  Calls = {c1, c2}
  Places = {p1}
  Unusable = Unusable
  Nobody = Nobody
  RecordTTL = 2
  Answering = 1
  RetryDelay = 1
  MaxTries = 2
  MaxMoment = 3
  Tasks = {t1, t2}
  MaxStates = 2
  MaxLives = 2
  Jobs = {j1, j2}
  Acceptors = {a1, a2}
  MaxClients = 4
SYMMETRY Interchangeable
INVARIANTS
  TypeOK
  CallsAreNotRefused
  AdmittedWasLive
  SavesAreSerial
  AliveWhileBeating
  ResolvedIsRecent
  PushIsAccepted
  CompletedIsAccepted
  SharedIsOpen
  ConnectionsAreKnown
PROPERTIES
  OutageForgetsNobody
CHECK_DEADLOCK FALSE
