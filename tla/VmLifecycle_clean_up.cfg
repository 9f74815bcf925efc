SPECIFICATION FairSpec
CONSTANTS
  None = None
  Keys = {k1}
  Circuits = {c1}
  Admins = {c1}
  Grace = 2
  Faults = {"reuse", "start", "foreign", "remove", "away", "fail", "crash"}
PROPERTIES
  LapsedIsDeleted
