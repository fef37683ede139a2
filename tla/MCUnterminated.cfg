\* What is said of a directive that is not closed.
SPECIFICATION Spec
CONSTANT
  Sources <- MCSources
INVARIANT
  UnterminatedNamesInnermost
CHECK_DEADLOCK FALSE
