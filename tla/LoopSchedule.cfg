SPECIFICATION Spec
CONSTANTS
  Width = 8
  MaxThreads = 3
  Loops <- MCLoops
  Scheds = {"STATIC", "DYNAMIC", "GUIDED", "SECTIONS", "GRAINSIZE", "NUM_TASKS"}
  Combined = FALSE
INVARIANTS LoopCovered
PROPERTIES Monotonic
