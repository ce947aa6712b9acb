SPECIFICATION Spec
CONSTANTS
  Paths <- MCPaths
  Procs = {1, 2}
  First = 1
  MaxOpen = 3
  MaxFiles = 3
  MaxDents = 3
  Loads <- MCLoads
INVARIANTS FileRefs  
CHECK_DEADLOCK FALSE
