SPECIFICATION Spec
CONSTANTS
  Circuits = {c1, c2}
  maxAttempts = 2
  Window = 2
  MaxTime = 4
  MaxGrants = 6
SYMMETRY Symmetry
INVARIANTS
  LimitHolds
PROPERTY RefusalsAreEarned
CHECK_DEADLOCK FALSE
