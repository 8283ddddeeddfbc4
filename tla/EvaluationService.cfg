CONSTANTS
  Key <- MCKey
  Path <- MCPath
  Scalar <- MCScalar
  Number <- MCNumber
  Object = Object
  Null = Null
  Missing = Missing
  None = None
  s1 = s1
  s2 = s2
  Literal <- MCLiteral
  Pattern <- MCPattern
  Matches <- MCMatches
  Provider <- MCProvider
  URI <- MCURI
  ServiceInstance <- MCServiceInstance
  Decision <- MCDecision
SPECIFICATION Spec
INVARIANTS TypeOK GuardrailsHold
PROPERTIES PatchesObeyLaid ProvidersOnlyNarrow SelectionAllowed LockHolds
CHECK_DEADLOCK FALSE
