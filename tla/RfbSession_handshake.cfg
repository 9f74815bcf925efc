SPECIFICATION Spec
CONSTANTS
  Servers <- MCServers
  Given <- MCGiven
  Quits <- MCQuits
INVARIANTS
  Inv
  Outcome
  LastWord
PROPERTIES
  Settles
CHECK_DEADLOCK FALSE
