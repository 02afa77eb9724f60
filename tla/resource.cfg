SPECIFICATION SafeSpec
CONSTANTS
  Lkb = {l1, l2, l3, l4}
  NoLkb = NoLkb
  NoBast = {}
  UsedModes <- AllModes
  RequestFlags <- AllFlags
  ConvertFlags <- AllFlags
  Recovery = TRUE
SYMMETRY Symmetry
INVARIANTS TypeOK Compatible NoStuckLock BlockersAsked HeadReachesHolder
PROPERTY ServiceSpec
