----------------------------- MODULE OpaEngine -----------------------------
(***************************************************************************)
(* What internal/opa/engine.go promises its callers: a map from policy id  *)
(* to prepared query that Compile replaces as a whole or leaves alone, and *)
(* that EvaluatePolicy reads.  The locks that make this so are in          *)
(* OpaEngineLocks.                                                         *)
(*                                                                         *)
(* A query is represented by the Rego source it was prepared from, and the *)
(* map by the sources compiled together.  What a query answers depends on  *)
(* all of them (a main may use the rules of other packages, and policies   *)
(* that declare one package share one main): that is OPA's business.       *)
(***************************************************************************)
EXTENDS PolicyData

CONSTANTS
  ParsableRego,  \* the sources ast.ParseModuleWithOpts accepts
  Compiles(_)    \* does ast.CompileModules (and PrepareForEval) accept a map?

VARIABLE queries \* embeddedEngine.queries

(* CompileModules parses every module before it compiles them together, and
   Compile accepts an empty list without calling it. *)
ASSUME CompileParses ==
  /\ ParsableRego \subseteq Rego
  /\ \A m \in ModuleMap : Compiles(m) =>
       \A id \in PolicyID : m[id] # None => m[id] \in ParsableRego
  /\ Compiles(NoModules)

(* Fault: only an empty source is refused. *)
ValidateNotEmpty(source) == source # Blank

(* ValidateRego parses one module alone: it cannot see a clash with the
   modules already stored, nor an import that does not resolve. *)
ValidateRego(source) == source # Blank /\ source \in ParsableRego

(* Compile replaces the map when all modules compile together... *)
SwapQueries(m) == Compiles(m) /\ queries' = m

(* ...and preserves it when they do not. *)
KeepQueries(m) == ~Compiles(m) /\ UNCHANGED queries

=============================================================================
