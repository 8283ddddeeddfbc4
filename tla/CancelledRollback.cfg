CONSTANTS
  PolicyID = {"a", "b"}
  DisplayName = {"n1", "n2"}
  PolicyType = {"GLOBAL", "USER"}
  Rego <- AllRego
  ParsableRego <- AllParsable
  Compiles <- MCCompiles
  Request = {p1}
  CreateBody <- ConcCreate
  PatchBody <- ConcPatch
  BadID = BadID
  None = None
  Blank = Blank
  MayCancel = TRUE
  MayFail = FALSE
  MayCrash = FALSE
SPECIFICATION Spec
PROPERTY RollbackRestores
CHECK_DEADLOCK FALSE
