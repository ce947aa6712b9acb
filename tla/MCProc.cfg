SPECIFICATION Spec
CONSTANTS
  N = 3
  NoProc = NoProc
  MaxPid = 4
INVARIANTS ExitSeen SetupOwned ReapQuiet NothingLost
CHECK_DEADLOCK FALSE
