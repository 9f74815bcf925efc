SPECIFICATION FairSpec
CONSTANTS
  Clicks = {t1, t2}
  Timer = timer
INVARIANTS
  NeverStuck
  OneCommand
PROPERTY PageFollows
CHECK_DEADLOCK FALSE
