\* A computed label that uses another block of its type.
SPECIFICATION Spec
CONSTANTS
  Docs <- OtherBlockDocs
  Bindings <- MCBindings
  Builtins <- BuiltinArity
  CallBuiltin <- ApplyBuiltin
  BinaryOp <- ApplyBinary
  UnaryOp <- ApplyUnary
INVARIANT
  LabelsMayUseOtherBlocks
