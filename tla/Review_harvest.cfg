SPECIFICATION Spec
CONSTANTS
  a = a
  b = b
  h = h
  f = f
  p = p
  None = None
  Reviews <- MCOne
  Harvests <- MCHarvests
  Followups <- MCNone
  Asks <- MCNone
  Terse <- MCNone
  Texts <- MCTexts
  LanesMayDie = FALSE
  WritesMayFail = TRUE
  MaxWipes = 0
CHECK_DEADLOCK TRUE
INVARIANTS
  HarvestDelivers
