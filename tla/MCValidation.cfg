CONSTANTS
  Declarations <- MCDeclarations
  HostTypes <- MCHostTypes
  HostAttrs <- MCHostAttrs
  MaxRules = 3
  Documents <- MCDocuments
  Bound <- MCBound
  NewValues <- MCNewValues
  MaxChanges = 2
  MaxDepth = 3
  NewNames <- MCNewNames
  NewTypes <- MCNewTypes
SPECIFICATION Spec
INVARIANT RulesAreUnique
INVARIANT FirstProblemReported
INVARIANT StaleResultIsSafe
INVARIANT ResultOnlyAdds
PROPERTY LoadedAsDeclared
