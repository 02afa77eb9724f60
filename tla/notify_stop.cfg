SPECIFICATION FairSpec
CONSTANTS
  Lkb = {l1, l2, l3}
  AskedModes <- TwoModes
  Uses <- StopCases
PROPERTY RecoveryRuns
CHECK_DEADLOCK FALSE
