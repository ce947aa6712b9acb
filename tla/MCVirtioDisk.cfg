SPECIFICATION FairSpec
CONSTANTS
  Callers = {1, 2, 3, 4}
  Boot = 4
  Sectors = {1}
  Values = {0, 1}
  Loads <- MCLoads
  NUM = 8
INVARIANTS Tracked NoSleeperLeft
PROPERTIES Refines Completes
CHECK_DEADLOCK FALSE
