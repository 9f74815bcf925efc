SPECIFICATION FairSpec
CONSTANTS
  Circuits = {c1}
  Faults = {"refresh", "reuse", "odd", "absent", "fail"}
  MaxTime = 3
  None = None
INVARIANTS
  UptimeWithinLife
PROPERTIES
  UptimeNeverShrinks
  StatusSettles
CHECK_DEADLOCK FALSE
