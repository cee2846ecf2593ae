SPECIFICATION SafeSpec
CONSTANTS
  Node = {n1, n2, n3, n4}
  MaxPrio = 2
INVARIANTS RingsSound ReadsExact
PROPERTY ImplementsTaskQueue
SYMMETRY Symmetry
