-------------------------- MODULE MCPolicyListWalk --------------------------
(***************************************************************************)
(* Values for model checking PolicyListWalk: three policies, one of them   *)
(* disabled and two with the same priority, in pages of one or two.        *)
(***************************************************************************)
EXTENDS PolicyListWalk

MCRego == {"r1"}

MCCompiles(m) == TRUE

Order == <<"GLOBAL", "USER", "n1", "n2", "n3", "a", "b", "c">>

MCRank ==
  [s \in PolicyID \cup DisplayName \cup {Blank} \cup PolicyType |->
     IF s = Blank THEN 0 ELSE CHOOSE i \in DOMAIN Order : Order[i] = s]

Post(name, ptype, prio, rego, enabled) ==
  [name |-> name, ptype |-> ptype, prio |-> prio, rego |-> rego,
   enabled |-> enabled, readOnly |-> FALSE]

MCCreate == {
  Post("n3", "GLOBAL", 2, "r1", TRUE),
  Post("n1", "USER", 1, "r1", FALSE),
  Post("n2", "USER", 2, "r1", TRUE)}

(* Filters, orders and sizes. *)

On(field, value) == [field |-> field, value |-> value]

All == [clauses |-> <<>>, ops |-> <<>>]

Users == [clauses |-> <<On("policy_type", "USER")>>, ops |-> <<>>]

EnabledUsers ==
  [clauses |-> <<On("enabled", "true"), On("policy_type", "USER")>>,
   ops |-> <<"AND">>]

Unknown == [clauses |-> <<On("other", "")>>, ops |-> <<>>]

Ask(expr, orderBy, size) == [expr |-> expr, orderBy |-> orderBy, size |-> size]

WalkRequests == {
  Ask(All, <<>>, 1),
  Ask(All, <<<<"create_time", "desc">>>>, 1),
  Ask(EnabledUsers, <<<<"priority">>, <<>>>>, 2),
  Ask(Users, <<<<"priority", "asc">>, <<"display_name", "desc">>>>, 1),
  Ask(Unknown, <<>>, None),
  Ask(All, <<<<"priority", "up">>>>, None),
  Ask(All, <<<<"id">>>>, None),
  Ask(All, <<>>, 0)}

-----------------------------------------------------------------------------
(* States that differ only in what no later step of a walk and no property
   depends on are one: the answers to mutations, the engine and what is
   compiled into it, and the histories that have lost their promise. *)
WalkView ==
  << db, up, pc, older, since,
     [p \in Request |->
        IF job[p] = None THEN None ELSE <<job[p].op, job[p].id, job[p].row, job[p].check>>],
     IF ~Walking THEN walk
     ELSE [walk EXCEPT !.start = IF walk.kept THEN @ ELSE {},
                       !.listed = IF walk.kept \/ walk.added THEN @ ELSE <<>>] >>

=============================================================================
