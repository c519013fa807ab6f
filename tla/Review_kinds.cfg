SPECIFICATION FairSpec
CONSTANTS
  a = a
  b = b
  h = h
  f = f
  p = p
  None = None
  Reviews <- MCNone
  Harvests <- MCHarvests
  Followups <- MCFollowups
  Asks <- MCAsks
  Terse <- MCNone
  Texts <- MCPlain
  LanesMayDie = TRUE
  WritesMayFail = TRUE
  MaxWipes = 0
CHECK_DEADLOCK TRUE
PROPERTIES
  CommandsEnd
