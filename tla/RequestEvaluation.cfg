CONSTANTS
  Key <- MCKey
  Path <- MCPath
  Scalar <- MCScalar
  Number = {}
  Object = Object
  Null = Null
  Missing = Missing
  None = None
  vm = vm
  db = db
  prod = prod
  dev = dev
  number = number
  Literal <- MCLiteral
  Pattern = {}
  Matches <- MCMatches
  Provider <- MCProvider
  URI <- MCURI
  ServiceInstance <- MCServiceInstance
  Decision <- MCDecision
  String <- MCString
  LabelKey <- MCLabelKey
  PolicyLists <- MCPolicyLists
SPECIFICATION RequestSpec
INVARIANT AskedByRequestLabels
PROPERTIES ImplementsEvaluationService EveryRequestAnswered
CHECK_DEADLOCK FALSE
