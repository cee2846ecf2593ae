SPECIFICATION AnySpec
CONSTANTS
  Thread = {t1}
  Master = t1
  MaxTask = 3
  MaxGroup = 1
  Task = {1, 2}
  Group = {1}
  Addr = {}
  Clauses <- NoClause
PROPERTY SleepsOnlyIfNothingReady
CHECK_DEADLOCK FALSE
