-------------------------- MODULE MCPolicyService --------------------------
(***************************************************************************)
(* Values for model checking PolicyService.  Sources: "a1" and "b1" are    *)
(* independent modules, "clash" defines a default rule "b1" also defines   *)
(* (each parses, the two do not compile together), "uses" calls a function *)
(* of the module "lib", "bad" does not parse.                              *)
(***************************************************************************)
EXTENDS PolicyRefinement, TLC

AllRego == {"a1", "b1", "clash", "uses", "lib", "bad"}
AllParsable == AllRego \ {"bad"}

MCCompiles(m) ==
  LET sources == {m[id] : id \in PolicyID}
  IN /\ "bad" \notin sources
     /\ ~({"clash", "b1"} \subseteq sources)
     /\ "uses" \in sources => "lib" \in sources

Post(name, ptype, prio, rego, enabled) ==
  [name |-> name, ptype |-> ptype, prio |-> prio, rego |-> rego,
   enabled |-> enabled, readOnly |-> FALSE]

Empty == Post(None, None, None, None, None)

-----------------------------------------------------------------------------
(* One request at a time: every kind of body. *)

SeqCreate == {
  Post("n1", "GLOBAL", None, "a1", None),
  Post("n2", "USER", 1, "b1", FALSE),
  Post("n2", "GLOBAL", 1000, "clash", None),
  Post("n1", "GLOBAL", 1, "clash", TRUE),
  Post("n1", "USER", 2, "lib", None),
  Post("n2", "USER", 3, "uses", None),
  Post("n1", "USER", 0, "a1", None),
  Post("n1", "USER", 1001, "a1", None),
  Post(Blank, "USER", 1, "a1", None),
  Post("n1", None, 1, "a1", None),
  Post("n1", "USER", 1, Blank, None),
  Post("n1", "USER", 1, "bad", None)}

SeqPatch == {
  Empty,
  [Empty EXCEPT !.name = "n1"],
  [Empty EXCEPT !.prio = 1],
  [Empty EXCEPT !.prio = 1001],
  [Empty EXCEPT !.rego = "b1", !.enabled = FALSE],
  [Empty EXCEPT !.rego = "clash", !.prio = 1000],
  [Empty EXCEPT !.rego = "bad"],
  [Empty EXCEPT !.rego = Blank],
  [Empty EXCEPT !.ptype = "USER", !.name = "n2"],
  [Empty EXCEPT !.readOnly = TRUE]}

-----------------------------------------------------------------------------
(* Requests that overlap: fewer bodies, chosen to collide. *)

ConcCreate == {
  Post("n1", "GLOBAL", 1, "a1", TRUE),
  Post("n1", "USER", 1, "clash", TRUE)}

ConcPatch == {
  [Empty EXCEPT !.rego = "b1"],
  [Empty EXCEPT !.prio = 1]}

Interchangeable == Permutations(Request)

(* Ids are generated, and nothing in the service orders them. *)
InterchangeableIDs == Interchangeable \cup Permutations(PolicyID)

(* With faults: one id, whose module "uses" never compiles. *)

FaultCreate == {
  Post("n1", "GLOBAL", 1, "a1", TRUE),
  Post("n1", "USER", 1, "uses", TRUE)}

FaultPatch == {
  [Empty EXCEPT !.rego = "b1"],
  [Empty EXCEPT !.rego = "uses"],
  [Empty EXCEPT !.rego = "bad"]}

=============================================================================
