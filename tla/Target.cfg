SPECIFICATION SafeSpec
CONSTANTS
  Thread = {h1, h2}
  Cell <- MCCell
  Tgt = {1, 2, 3}
  Images <- MCImages
  Programs <- MCPrograms
  MaxDepth = 2
  MaxDyn = 2
  NULL = NULL
SYMMETRY Symmetry
INVARIANTS StaysMapped RefcountsExact Coherent
CHECK_DEADLOCK FALSE
