SPECIFICATION MCSpec
CONSTANTS
  Roots <- MCRoots
  Paths <- MCPaths
  Capacities <- MCCapacities
  IsLong <- MCIsLong
INVARIANTS
  BlocksAreReached
  AttributesAreReached
  AllOrNothing
  PathMeansReference
\* The host reads no further when an iterator has nothing left.
CHECK_DEADLOCK FALSE
