SPECIFICATION Spec
CONSTANTS
  p1 = p1
  p2 = p2
  Readers = {p1, p2}
  Modes <- CarefulModes
  INPUT_BUF = 4
  WORD = 8
  MaxRead = 2
  Plain = {"a"}
INVARIANTS AsleepEmpty 
PROPERTY Refines
