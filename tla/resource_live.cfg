SPECIFICATION LiveSpec
CONSTANTS
  Lkb = {l1, l2, l3}
  NoLkb = NoLkb
  NoBast = {}
  UsedModes <- AllModes
  RequestFlags <- AllFlags
  ConvertFlags <- AllFlags
  Recovery = TRUE
PROPERTIES WaitersServed
