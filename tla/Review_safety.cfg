SPECIFICATION Spec
CONSTANTS
  a = a
  b = b
  h = h
  f = f
  p = p
  None = None
  Reviews <- MCTwo
  Harvests <- MCNone
  Followups <- MCNone
  Asks <- MCNone
  Terse <- MCTerse
  Texts <- MCTexts
  LanesMayDie = TRUE
  WritesMayFail = TRUE
  MaxWipes = 1
CHECK_DEADLOCK TRUE
INVARIANTS
  ReportIsOwnAnswer
  TextSurvives
  ReviewLeavesNoRefusal
  ReceiptNamesLog
  EnginesTakeTurns
PROPERTIES
  HintIsFresh
  FailureNamesARetry
