CONSTANTS
  NPages = 10
  Requests = {1, 2, 3}
SPECIFICATION PmmSpec
INVARIANTS BlocksOK Coalesced
PROPERTY Refines
