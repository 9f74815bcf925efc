SPECIFICATION Spec
CONSTANTS
  Messages <- MCMessages
  MaxMessages = 2
INVARIANTS
  Inv
  DrawnInOrder
  WholeUpdates
  OneUpdateQueued
PROPERTIES
  KeepsUp
CHECK_DEADLOCK FALSE
