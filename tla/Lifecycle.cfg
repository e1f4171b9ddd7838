CONSTANTS
  A = A
  B = B
  J = J
  None = None
  KeyTo <- MCKeyTo
  Apps <- MCApps
  MaxCalls = 2
  MaxFaults = 1
  MaxChanges = 2
SPECIFICATION Spec
INVARIANTS AsDeclaredOrRefused NothingReadsAroundUnheard
PROPERTY InitialiseSettles
CHECK_DEADLOCK FALSE
