CONSTANTS
  PolicyID = {"a", "b"}
  Rego <- MCRego
  ParsableRego <- MCRego
  Compiles <- MCCompiles
  Caller = {g1, g2, g3}
  CompileArgs <- MCCompileArgs
  Blank = Blank
  None = None
SPECIFICATION Spec
INVARIANTS NoDataRace
PROPERTIES ImplementsAtomicEngine CallsReturn
