SPECIFICATION Spec
CONSTANTS
  None = None
  Keys = {k1}
  Circuits = {c1, c2}
  Admins = {c1, c2}
  Grace = 2
  Faults = {"reuse", "away", "fail", "crash"}
SYMMETRY Symmetry
INVARIANTS
  StampIsFresh
PROPERTIES
  PurgeAfterGrace
  RetentionSpec
  RemovalHasCause
