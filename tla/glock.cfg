SPECIFICATION FairSpec
CONSTANTS
  h1 = h1
  h2 = h2
  h3 = h3
  Holder <- MCHolder
  Uses <- MCUses
INVARIANTS TypeOK HoldersAgree RemoteExcluded NoBug RefsCounted
CHECK_DEADLOCK FALSE
