CONSTANTS
  sql = sql
  kv = kv
  rest = rest
  b1 = b1
  b2 = b2
  NoHandle = NoHandle
  Adapters = {sql, kv, rest}
  TxAdapters = {sql, kv}
  Branches = {b1, b2}
  Plans <- Bodies
  MaxOps = 3
  MaxTx = 4
SPECIFICATION FairSpec
INVARIANTS
  LateWorkIsNeverCommitted
  NeverFinalisedTwice
  NothingLeftOpen
  CallbacksFollowTheCommits
PROPERTIES
  KeepsThePromise
  EventuallySettles
