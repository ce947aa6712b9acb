SPECIFICATION LiveSpec
CONSTANTS
  N = 3
  NoProc = NoProc
  MaxPid = 3
PROPERTY
  WaitReturns
CHECK_DEADLOCK FALSE
