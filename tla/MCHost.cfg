\* MCNext bounds the two kinds of hosts apart.
SPECIFICATION MCSpec
CONSTANTS
  Names = {"a"}
  LateNames = {}
  Keys = {"k", "l"}
  MaxBound = 3
  MaxValues = 1
  MaxItems = 2
  MaxCalls = 2
  MaxCopies = 1
INVARIANTS
  TypeOK Acyclic ArenasApart KeysOnce CopiesAreEqual
PROPERTIES
  ValuesNeverChange CopiesEnd
\* The host may stop at any time.
CHECK_DEADLOCK FALSE
