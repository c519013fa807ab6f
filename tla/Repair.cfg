SPECIFICATION Spec
CONSTANTS
  export = export
  other = other
  repair = repair
  first = first
  second = second
  lane = lane
  NoBytes = NoBytes
  NoLog = NoLog
  Bytes <- MCBytes
  Exporters <- MCExporters
  Repairers <- MCRepairers
  Roots <- MCRoots
  Place <- MCPlace
  Commits = 2
  Logs = 2
  Alters = 1
SYMMETRY Symmetry
INVARIANTS
  MarkerIsTrue
  BriefIsRecorded
