SPECIFICATION MCSpec
CONSTANTS
  Keys = {k1}
  Requests = {r1, r2}
  TTL = 2
  None = None
  MaxClock = 4
  Ids = {"a", "b"}
  NoCall = NoCall
  MinTail = 2
  Limit = 7
  Reserve = 2
  Prefix <- PrefixSegments
  Versions <- DottedVersions
  Models <- Configured
  Clients <- AllClients
  MessageKinds <- Kinds
  HasOpenAI = TRUE
SYMMETRY Interchangeable
INVARIANTS
  TypeOK
  VerdictIsRecent
  OutageFollowsLastAnswer
  ResultsFollowCalls
  ConversationReachesTheModel
  PromptFits
  RoutedAsNamed
CHECK_DEADLOCK FALSE
