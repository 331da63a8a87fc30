CONSTANTS
  Messages = {m1, m2}
  MaxRows = 2
  DatabaseOpens <- MCDatabaseOpens
SPECIFICATION Spec
INVARIANT DeletionIsKept
CHECK_DEADLOCK FALSE
