------------------------- MODULE MCPolicyEvaluation -------------------------
(***************************************************************************)
(* Values for model checking PolicyEvaluation: pages of one policy, so     *)
(* that two policies already take two pages.                               *)
(***************************************************************************)
EXTENDS PolicyEvaluation

(* "uses" calls a function of "lib". *)
MCRego == {"lib", "uses", "b1"}

MCCompiles(m) ==
  LET sources == {m[id] : id \in PolicyID}
  IN "uses" \in sources => "lib" \in sources

MCRank ==
  [s \in PolicyID \cup DisplayName \cup {Blank} \cup PolicyType |->
     CASE s = Blank -> 0
       [] s = "GLOBAL" -> 1
       [] s = "USER" -> 2
       [] s = "a" -> 3
       [] s = "b" -> 4
       [] OTHER -> 5]

Post(ptype, prio, rego) ==
  [name |-> "n1", ptype |-> ptype, prio |-> prio, rego |-> rego,
   enabled |-> None, readOnly |-> FALSE]

MCCreate == {Post("GLOBAL", 2, "lib"), Post("USER", 1, "uses")}

Empty == Post(None, None, None)

MCPatch == {
  [Empty EXCEPT !.name = None, !.rego = "b1"],
  [Empty EXCEPT !.name = None, !.enabled = FALSE]}

=============================================================================
