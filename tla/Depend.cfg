SPECIFICATION SafeSpec
CONSTANTS
  Thread = {t1, t2}
  Master = t1
  MaxTask = 4
  MaxGroup = 2
  Task <- MCTask
  Group <- MCGroup
  Addr <- MCAddr
  Clauses <- MCClauses
INVARIANTS
  DependencesRespected ChainSound EmptyMeansDone NothingFreedIsUsed WaitsSound SomeoneAwake
CHECK_DEADLOCK FALSE
