SPECIFICATION Spec
CONSTANTS
  Thread = {h1, h2}
  None = None
  NTasks = 3
  Programs <- MCTiedCritical
INVARIANTS NoCorruptQueue
