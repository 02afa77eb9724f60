SPECIFICATION Spec
CONSTANTS
  d = d
  a = a
  b = b
  l1 = l1
  l2 = l2
  l3 = l3
  l4 = l4
  Node = {d, a, b}
  NoNode = NoNode
  NoRsb = NoRsb
  Dir = d
  Lkb = {l1, l2, l3, l4}
  NoLkb = NoLkb
  Uses <- AllCases
INVARIANTS TypeOK OneMaster DirIsAuthority NothingUnexpected NoStaleRecord AssertionsHold
CHECK_DEADLOCK FALSE
