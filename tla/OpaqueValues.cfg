CONSTANTS
  Nothing = Nothing
  LastRow = 3
  Rows <- MCRows
  Veiled <- MCVeiled
  Backends <- MCBackends
  PageRequests <- MCPageRequests
  DefaultPageSize = 1
  MaxPageSize = 2
  MaxWrites = 1
  MaxSeen = 5
  Fields <- MCFields
  Associations <- MCAssociations
  Keys <- MCKeys
  Codecs = {"relay", "prefix", "raw"}
  Prefixed = {"User", "Task"}
  ScopedBy <- MCScopedBy
  Scopes <- MCScopes
  IdRequests <- SoundRequests
  WrittenRows = {"t1", "t2"}
SPECIFICATION SealedSpec
INVARIANTS
  PageIsTrue
  WalkSeesEveryRowOnce
  IdsReachTheirRows
  RawKeysStayRaw
PROPERTY WalkEnds
CHECK_DEADLOCK FALSE
