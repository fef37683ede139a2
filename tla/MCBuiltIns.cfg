\* Every built-in function with small arguments, and again with its result.
SPECIFICATION Spec
CONSTANTS
  MarkerSize = 4
  NumberSize = 8
  Calls <- AllCalls
  Nestable <- Unaries
  MaxNested = 1
  RangeLimit = 8
INVARIANTS
  PiecesRejoin
  TrimsOnlyTheEnds
  RangeStopsBeforeItsEnd
  ListsKeepTheirItems
  LaterObjectsWin
  NumbersConvertBack
  FormatUsesItsArguments
\* A call returns and the evaluation is over.
CHECK_DEADLOCK FALSE
