SPECIFICATION Spec
CONSTANTS
  Thread = {h1, h2}
  None = None
  NTasks = 3
  Programs <- MCPrograms
SYMMETRY Symmetry
INVARIANTS
  TypeOK Bookkeeping TaskSchedulingConstraint RegionComplete
  CriticalSound NotStranded
PROPERTIES TiedTasksStay
