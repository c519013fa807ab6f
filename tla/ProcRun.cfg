SPECIFICATION FairSpec
CONSTANTS
  child = child
  helper = helper
  stubborn = stubborn
  daemon = daemon
  Members <- MCMembers
  leader = child
  Stubborn <- MCStubborn
  Daemons <- MCDaemons
  MaxInterrupts = 2
CHECK_DEADLOCK FALSE
INVARIANTS
  TypeOK
  NothingOutlives
  OutputComplete
  LauncherSparesBrowser
PROPERTIES
  DeadlineBoundsCall
  EndsWhenQuiet
