CONSTANTS
  sql = sql
  kv = kv
  rest = rest
  b1 = b1
  b2 = b2
  NoHandle = NoHandle
  Adapters = {sql, kv, rest}
  TxAdapters = {sql, kv}
  Branches = {b1, b2}
  Plans <- SameAdapters
  MaxOps = 1
  MaxTx = 2
SPECIFICATION Spec
INVARIANT ReturnMeansCommitted
