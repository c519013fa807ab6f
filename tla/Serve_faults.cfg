SPECIFICATION FairSpec
CONSTANTS
  plain = plain
  stream = stream
  chatty = chatty
  review = review
  Nobody = Nobody
  Clients <- MCTwo
  Streams <- MCStreams
  Chatty <- MCNone
  Others <- MCOthers
  OtherRuns = 2
  MaxHandlers = 2
  ThreadsMayFail = TRUE
  LanesMayDie = TRUE
CHECK_DEADLOCK FALSE
INVARIANTS
  GuardCoversWork
  OnlyOrphansOverlap
PROPERTIES
  GuardComesBack
  AdmissionIsBounded
