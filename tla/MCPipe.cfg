SPECIFICATION LiveSpec
CONSTANTS
    p1 = p1
    p2 = p2
    b1 = b1
    b2 = b2
    Procs = {p1, p2}
    Bytes = {b1, b2}
    NoProc = NoProc
    NoByte = NoByte
    PIPE_BUF_SIZE = 2
    MaxLen = 3
INVARIANTS NoLostWakeup NoUseAfterDelete
PROPERTIES FifoSpec ClosedReturns
CHECK_DEADLOCK FALSE
