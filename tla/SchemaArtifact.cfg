CONSTANTS
  Workers = {"cli", "server"}
  OrmOf <- MCOrmOf
  Revisions <- MCRevisions
  First = "base"
  Permissions <- MCPermissions
  TasksOf <- MCTasksOf
  Files = {"schema.json"}
  Registered = {}
  None = None
  Torn = Torn
  MaxTasks = 3
  MaxRestarts = 1
SPECIFICATION Spec
INVARIANTS SchemaFollowsItsPermission FreshOrTold ThrowsForAReason
PROPERTY NeverHalfWritten
CHECK_DEADLOCK FALSE
