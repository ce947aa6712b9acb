SPECIFICATION LiveSpec
CONSTANTS
  N = 2
  NoProc = NoProc
  Slot = 2
  TRAP_LIMIT = 3
  LowestPrio = 19
  Prio <- SamePrio
  MaxSleep = 2
INVARIANTS Masked NoOversleep 
PROPERTIES RunnableRuns SleepReturns
