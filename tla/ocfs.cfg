SPECIFICATION FairSpec
CONSTANTS
  t1 = t1
  t2 = t2
  Task <- Two
  Uses <- MCUses
INVARIANTS TypeOK WaitersTold HoldersCovered NoBug Fresh
PROPERTIES Served
CHECK_DEADLOCK FALSE
