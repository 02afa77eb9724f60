SPECIFICATION FairSpec
CONSTANTS
  a = a
  b = b
  Remote <- MCRemote
  Dir = b
  Uses <- MCUses
INVARIANTS TypeOK ToldOnce Settled
PROPERTIES Answered
CHECK_DEADLOCK FALSE
