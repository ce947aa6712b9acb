SPECIFICATION Spec
CONSTANTS
  Procs = {1, 2}
  First = 1
  UserPages = 7
  StackPages = 2
  MaxVma = 3
  Programs <- MCPrograms
INVARIANTS   RefsMatch 
CHECK_DEADLOCK FALSE
