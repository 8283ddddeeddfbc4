CONSTANTS
  PolicyID = {"a", "b"}
  DisplayName = {"n1", "n2"}
  PolicyType = {"GLOBAL", "USER"}
  Rego <- AllRego
  ParsableRego <- AllParsable
  Compiles <- MCCompiles
  Request = {p1}
  CreateBody <- SeqCreate
  PatchBody <- SeqPatch
  BadID = BadID
  None = None
  Blank = Blank
  MayCancel = FALSE
  MayFail = FALSE
  MayCrash = TRUE
SPECIFICATION Spec
INVARIANTS TypeOK EngineMatchesDB
PROPERTIES ImplementsRegistry PatchKeepsOmitted Responds
CHECK_DEADLOCK FALSE
