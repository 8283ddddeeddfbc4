CONSTANTS
  PolicyID = {"a", "b"}
  DisplayName = {"n1"}
  PolicyType = {"GLOBAL", "USER"}
  Rego <- MCRego
  ParsableRego <- MCRego
  Compiles <- MCCompiles
  Request = {p1}
  CreateBody <- MCCreate
  PatchBody <- MCPatch
  BadID = BadID
  None = None
  Blank = Blank
  MayCancel = FALSE
  MayFail = FALSE
  MayCrash = TRUE
  PageSize = 1
  Rank <- MCRank
SPECIFICATION EvaluationSpec
INVARIANTS QuietEvaluationIsExact SteadyPoliciesAsked
PROPERTIES EvaluationEnds
CHECK_DEADLOCK FALSE
