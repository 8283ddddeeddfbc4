CONSTANTS
  PolicyID = {a, b}
  DisplayName = {"n1", "n2"}
  PolicyType = {"GLOBAL", "USER"}
  Rego <- AllRego
  ParsableRego <- AllParsable
  Compiles <- MCCompiles
  Request = {p1, p2}
  CreateBody <- ConcCreate
  PatchBody <- ConcPatch
  BadID = BadID
  None = None
  Blank = Blank
  MayCancel = FALSE
  MayFail = FALSE
  MayCrash = FALSE
SPECIFICATION APISpec
INVARIANTS RefusedWithoutTrace SeverityMatchesStatus
PROPERTIES SoloMutationHeals PolicyTypeImmutable
SYMMETRY InterchangeableIDs
