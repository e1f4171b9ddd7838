CONSTANTS
  Task = Task
  User = User
  Models <- MCModels
  Columns <- MCColumns
  Meta <- MCMeta
  Ignored <- MCIgnored
  Relations <- MCRelations
  Cases <- MCCases
  MaxFaults = 2
SPECIFICATION Spec
INVARIANTS NothingPastTheGates ToldWhatHappened
PROPERTY IsAnswered
CHECK_DEADLOCK FALSE
