\* Every session.
SPECIFICATION Spec
CONSTANTS
  MarkerSize = 4
  NumberSize = 8
  Sessions <- MCSessions
  Names <- MCNames
  MaxChanges = 1
  MaxSaves = 2
INVARIANTS
  ReadsAsMeant SavedReadsBack ExportReadsExactly JsonShowsWhatLookupsFind
\* A text that is no document ends the session.
CHECK_DEADLOCK FALSE
