SPECIFICATION Spec
CONSTANTS
  Keys <- MCKeys
  MaxHeld = 2
  MaxLeds = 1
  Reported <- MCReported
  MaxStrays = 1
INVARIANTS
  Inv
  NothingStuck
PROPERTIES
  TypedInSync
  CtrlBeforeLetter
