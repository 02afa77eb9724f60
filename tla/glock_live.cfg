SPECIFICATION FairSpec
CONSTANTS
  h1 = h1
  h2 = h2
  h3 = h3
  Holder <- Pair
  Uses <- LiveUses
PROPERTIES Served
CHECK_DEADLOCK FALSE
