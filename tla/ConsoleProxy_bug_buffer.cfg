SPECIFICATION Spec
CONSTANTS
  MaxFrames = 1
  Drops = {}
INVARIANT PayloadIntact
CHECK_DEADLOCK FALSE
