SPECIFICATION MCSpec
CONSTANTS
  Thread = {t1, t2, t3}
  Rounds = 3
  MaxTasks = 2
  Counter = 2
  MaxThreads = 5
  Programs <- MCPrograms
  Hands = {h1, h2}
  First = h1
  NumInit = 2
  NumAdd = 2
  MaxStates = 8
  MaxAgain = 1
INVARIANTS
  FlagsSound  EveryMemberRuns CountsExact StatesSound
PROPERTIES ImplementsBarrier TeamsEnd
