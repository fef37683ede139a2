\* Every small document under three sets of bindings: the evaluation returns, and
\* returns what the document means.
SPECIFICATION Spec
CONSTANTS
  Docs <- MCDocs
  Bindings <- MCBindings
  Builtins <- BuiltinArity
  CallBuiltin <- ApplyBuiltin
  BinaryOp <- ApplyBinary
  UnaryOp <- ApplyUnary
INVARIANTS
  TypeOK
  NoDanglingNode
  NoReentry
  DepthBounded
  SeenIsBuilt
  OverriddenNotEvaluated
  AgreesWithMeaning
PROPERTIES
  Terminates
  ImplementsResolution
