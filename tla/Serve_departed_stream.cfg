SPECIFICATION Spec
CONSTANTS
  plain = plain
  stream = stream
  chatty = chatty
  review = review
  Nobody = Nobody
  Clients <- MCTwo
  Streams <- MCStreams
  Chatty <- MCNone
  Others <- MCOthers
  OtherRuns = 1
  MaxHandlers = 2
  ThreadsMayFail = FALSE
  LanesMayDie = FALSE
CHECK_DEADLOCK FALSE
INVARIANTS
  DepartedStreamSpendsNothing
