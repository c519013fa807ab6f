SPECIFICATION FairSpec
CONSTANTS
  p1 = p1
  p2 = p2
  p3 = p3
  i1 = i1
  i2 = i2
  i3 = i3
  NoProc = NoProc
  NoFile = NoFile
  Procs <- MCProcs
  Bounded <- MCBounded
  Inodes <- MCInodes
CHECK_DEADLOCK TRUE
INVARIANTS
  TypeOK
  MutualExclusion
  HolderFileNamesHolder
PROPERTIES
  ImplementsMutex
  BoundedCallsReturn
  WaitMeansTraffic
