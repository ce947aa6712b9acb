SPECIFICATION Spec
CONSTANTS
  Procs = {1, 2}
  Blocks = {1, 2, 3}
  Count = 2
  NumSector = 2
  MaxHeld = 2
INVARIANTS ListWhole HeldWhole PinHolds
