\* A string that the host sets, exported and loaded again.
SPECIFICATION Spec
CONSTANTS
  MarkerSize = 4
  NumberSize = 8
  Sessions <- HostSessions
  Names <- MCNames
  MaxChanges = 1
  MaxSaves = 1
INVARIANTS
  ExportReadsBack
CHECK_DEADLOCK FALSE
