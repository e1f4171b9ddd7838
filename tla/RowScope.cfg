SPECIFICATION Spec
CONSTANTS
  Tasks = {t1, t2}
  Rows = {r1, r2}
  t1 = t1
  t2 = t2
  p1 = p1
  p2 = p2
  o1 = o1
  o2 = o2
  r1 = r1
  r2 = r2
  Owners = {o1, o2}
  Principals = {p1, p2}
  Requests <- MCRequests
  Answers <- MCAnswers
  Adapters <- MCAdapters
  StartTables <- MCTables
  OnScopeMiss = "empty"
  Request = Request
  NoMemo = NoMemo
  NoValue = NoValue
  MaxOthers = 1
INVARIANTS
  OnlyVisibleRows
  WritesStayInScope
PROPERTIES
  EveryTaskEnds
