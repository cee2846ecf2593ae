SPECIFICATION FairSpec
CONSTANTS
  Thread = {h1, h2}
  None = None
  NTasks = 3
  Programs <- MCEnds
PROPERTIES RegionEnds
