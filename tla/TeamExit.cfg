SPECIFICATION MCSpec
CONSTANTS
  Thread = {t1}
  Rounds = 1
  MaxTasks = 0
  Counter = 2
  MaxThreads = 5
  Programs <- MCPrograms
  Hands = {h1, h2}
  First = h1
  NumInit = 2
  NumAdd = 2
  MaxStates = 4
  MaxAgain = 0
INVARIANT ExitingThreadsToo
