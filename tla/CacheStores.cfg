CONSTANTS
  k1 = k1
  k2 = k2
  k3 = k3
  Nothing = Nothing
  CacheKeys = {k1, k2, k3}
  Values = {1, 2, 5}
  SharedValues = {3, 5}
  MaxEntries = 2
  MaxSize = 4
  TTLs = {1}
  MaxTime = 2
  MaxGen = 2
  MaxClock = 3
  MaxCleared = 1
SPECIFICATION StoresSpec
INVARIANTS
  Accounting
PROPERTIES
  NothingOutdated
