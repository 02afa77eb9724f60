SPECIFICATION FairSpec
CONSTANTS
  Lkb = {l1, l2, l3}
  AskedModes <- TwoModes
  Uses <- AllCases
INVARIANTS TypeOK NamesKnownFirst ChildrenCounted RefsCounted
PROPERTY ParentUnlocks
CHECK_DEADLOCK FALSE
