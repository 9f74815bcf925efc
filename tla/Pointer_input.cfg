SPECIFICATION Spec
CONSTANTS
  Fingers = {f1, f2, f3}
  Moves <- MCMoves
  Start <- MCStart
  Places <- MCPlaces
  Scrolls <- MCScrolls
  MaxButtons = 2
  Width = 2
  MOVE_THRESHOLD = 1
  dragThreshold = 0
  WHEEL_STEP = 2
  GESTURE_SENS = 1
  DOUBLE_TAP_THRESHOLD = 2
SYMMETRY MCSymmetry
INVARIANTS
  TypeOK
  FingersKnown
  NoStuckButton
  PositionKept
PROPERTIES
  OneHoldAtATime
