\* Nested splats.
SPECIFICATION Spec
CONSTANTS
  Docs <- SplatDocs
  Bindings <- MCBindings
  Builtins <- BuiltinArity
  CallBuiltin <- ApplyBuiltin
  BinaryOp <- ApplyBinary
  UnaryOp <- ApplyUnary
INVARIANT
  SplatMapsRemainingSteps
