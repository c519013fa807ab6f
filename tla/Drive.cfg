SPECIFICATION FairSpec
CONSTANTS
  first = first
  second = second
  review = review
  test = test
  extra = extra
  conftest = conftest
  source = source
  secret = secret
  NoPath = NoPath
  Lanes <- MCLanes
  Others <- MCOthers
  Verification <- MCVerification
  Present <- MCPresent
  Sealed <- MCSealed
  Packed <- MCPacked
  Private <- MCPrivate
  MaxIters = 2
  OtherRuns = 1
  Edits = 2
CHECK_DEADLOCK FALSE
INVARIANTS
  ImplementsOwnPlan
  PassIsEarned
  PackIsClean
PROPERTIES
  DrivesEnd
