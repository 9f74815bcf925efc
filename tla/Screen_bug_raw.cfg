SPECIFICATION Spec
CONSTANTS
  Messages <- RawMessages
  MaxMessages = 1
INVARIANT BlitsItsPixels
CHECK_DEADLOCK FALSE
