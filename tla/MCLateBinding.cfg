SPECIFICATION Spec
CONSTANTS
  Names = {"a"}
  LateNames = {"b"}
  Keys = {"k"}
  MaxBound = 1
  MaxValues = 1
  MaxItems = 1
  MaxCalls = 1
  MaxCopies = 0
INVARIANTS
  CopiesParallel
\* The host may stop at any time.
CHECK_DEADLOCK FALSE
