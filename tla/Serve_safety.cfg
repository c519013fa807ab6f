SPECIFICATION Spec
CONSTANTS
  plain = plain
  stream = stream
  chatty = chatty
  review = review
  Nobody = Nobody
  Clients <- MCThree
  Streams <- MCStreams
  Chatty <- MCChatty
  Others <- MCOthers
  OtherRuns = 2
  MaxHandlers = 2
  ThreadsMayFail = FALSE
  LanesMayDie = FALSE
CHECK_DEADLOCK TRUE
INVARIANTS
  TypeOK
  SingleFlight
  GuardHeldByLiveHandler
  DepartedPlainSpendsNothing
  SlotsAccountedFor
  NobodyIsDropped
