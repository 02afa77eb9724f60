SPECIFICATION FairSpec
CONSTANTS
  a = a
  b = b
  c = c
  Node <- MCNode
  Uses <- MCUses
  Overlap = FALSE
INVARIANTS TypeOK ReplayedFirst FirstAlone
PROPERTIES Resumed
CHECK_DEADLOCK FALSE
