-------------------------- MODULE MCOpaEngineLocks --------------------------
(***************************************************************************)
(* Values for model checking OpaEngineLocks: "r1" and "r2" compile alone   *)
(* but not together, so a map of one Compile mixed with another's shows.   *)
(***************************************************************************)
EXTENDS OpaEngineLocks

MCRego == {"r1", "r2"}

MCCompiles(m) == ~(MCRego \subseteq {m[id] : id \in PolicyID})

Both(x, y) == [id \in PolicyID |-> IF id = "a" THEN x ELSE y]

MCCompileArgs == {NoModules, Both("r1", "r1"), Both("r1", "r2")}

=============================================================================
