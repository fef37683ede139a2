\* Every short text.
SPECIFICATION Spec
CONSTANT
  Sources <- MCSources
INVARIANTS
  CompilesToItsGrammar
  NamesOfOpenLoops
\* The compiler returns.
CHECK_DEADLOCK FALSE
