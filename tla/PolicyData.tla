----------------------------- MODULE PolicyData -----------------------------
(***************************************************************************)
(* The values the store, the engine and the service exchange.              *)
(***************************************************************************)
CONSTANTS
  PolicyID,     \* primary keys
  Rego,         \* non-blank Rego sources
  Blank,        \* a string that is empty after strings.TrimSpace
  None          \* no row, no query, an absent JSON field

(* []opa.PolicyModule with distinct ids: the Rego source given for each id. *)
ModuleMap == [PolicyID -> Rego \cup {None}]

NoModules == [id \in PolicyID |-> None]

=============================================================================
