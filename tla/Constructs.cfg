SPECIFICATION MCSpec
CONSTANTS
  Thread = {0, 1, 2}
  Master = 0
  Constructs = 4
  Chunk = 1
  MaxWs = 7
  NULL = NULL
  Kinds = {"nowait", "barrier", "copy"}
  N = 3
  Regions <- MCRegions
  NThreads = 3
  WordBits = 3
  Nests <- MCNests
INVARIANTS
  NoUseAfterFree OneWorkShareEach InOrder SinksPosted
PROPERTIES ConstructsEnd
