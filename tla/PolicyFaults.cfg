CONSTANTS
  PolicyID = {"a"}
  DisplayName = {"n1", "n2"}
  PolicyType = {"GLOBAL", "USER"}
  Rego <- AllRego
  ParsableRego <- AllParsable
  Compiles <- MCCompiles
  Request = {p1, p2}
  CreateBody <- FaultCreate
  PatchBody <- FaultPatch
  BadID = BadID
  None = None
  Blank = Blank
  MayCancel = TRUE
  MayFail = TRUE
  MayCrash = TRUE
SPECIFICATION Spec
INVARIANTS StoredRegoParses
PROPERTIES SoloMutationHeals
SYMMETRY Interchangeable
CHECK_DEADLOCK FALSE
