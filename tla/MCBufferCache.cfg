SPECIFICATION Spec
CONSTANTS
  Procs = {1, 2, 3}
  Tags = {1, 2, 3, 4}
  Values = {0, 1}
  Count = 3
  Loads <- MCLoads
INVARIANTS RefsCount HeldRight 
CHECK_DEADLOCK FALSE
