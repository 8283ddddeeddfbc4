CONSTANTS
  PolicyID = {"a", "b", "c"}
  DisplayName = {"n1", "n2", "n3"}
  PolicyType = {"GLOBAL", "USER"}
  Rego <- MCRego
  ParsableRego <- MCRego
  Compiles <- MCCompiles
  Request = {p1}
  CreateBody <- MCCreate
  PatchBody = {}
  BadID = BadID
  None = None
  Blank = Blank
  MayCancel = FALSE
  MayFail = FALSE
  MayCrash = FALSE
  Refused = Refused
  Rank <- MCRank
  ListRequest <- WalkRequests
SPECIFICATION WalkSpec
INVARIANTS QuietWalkIsExact GrowingWalkMissesNothing ShrinkingWalkRepeatsNothing
PROPERTIES WalkEnds
VIEW WalkView
CHECK_DEADLOCK FALSE
