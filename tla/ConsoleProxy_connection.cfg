SPECIFICATION FairSpec
CONSTANTS
  MaxFrames = 2
  Drops = {"client", "proxmox"}
INVARIANTS
  TypeOK
  FramesInOrder
  NoneLeftOpen
PROPERTIES
  EndsWithPeer
  PumpsEnd
CHECK_DEADLOCK FALSE
