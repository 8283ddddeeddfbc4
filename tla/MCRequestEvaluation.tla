------------------------ MODULE MCRequestEvaluation ------------------------
(***************************************************************************)
(* Values for model checking RequestEvaluation: specs with a service type, *)
(* the label env and a label of the name service_type.                     *)
(***************************************************************************)
EXTENDS RequestEvaluation

CONSTANTS vm, db, prod, dev, number  \* scalars; number is no string

Meta == <<"metadata">>
AllLabels == <<"metadata", "labels">>

MCKey == {"service_type", "metadata", "labels", "env"}
MCLabelKey == {"service_type", "env"}
MCPath == {ServiceType, Meta, AllLabels} \cup {LabelPath(k) : k \in MCLabelKey}
MCString == {vm, db, prod, dev}
MCScalar == MCString \cup {number}
MCProvider == {"aws"}
MCMatches(e, x) == FALSE
MCURI(p) == p

(* A spec with the service type and the labels given. *)
Doc(stype, env, shadow) ==
  [p \in Path |->
     CASE p = ServiceType -> stype
       [] p \in {Meta, AllLabels} ->
            IF env = Missing /\ shadow = Missing THEN Missing ELSE Object
       [] p = LabelPath("env") -> env
       [] p = LabelPath("service_type") -> shadow]

MCServiceInstance == {
  Doc(vm, Missing, Missing), Doc(vm, prod, Missing), Doc(db, prod, Missing),
  Doc(db, number, vm), Doc(Missing, prod, Missing), Doc(number, Missing, Missing),
  [Doc(vm, Missing, Missing) EXCEPT ![Meta] = number]}

Free == [p \in Path |-> None]

(* prod as the value of the label env. *)
ProdEnv == [p \in From(LabelPath("env")) |-> prod]
MCLiteral == {ProdEnv}

Locked(p, value) ==
  [Free EXCEPT ![p] = [const |-> value, enum |-> None,
                       min |-> None, max |-> None, minProperties |-> None,
                       maxProperties |-> None, multipleOf |-> None,
                       pattern |-> None, allOf |-> None]]

Decide(constraints, patch) ==
  [rejected |-> FALSE, constraints |-> constraints, sp |-> None,
   patch |-> patch, provider |-> None]

Select(provided) == [Decide(Free, Doc(Missing, Missing, Missing)) EXCEPT !.provider = provided]
ToDev == Decide(Free, Doc(Missing, dev, Missing))
ToProd == Decide(Free, Doc(Missing, prod, Missing))
KeepProd == Decide(Locked(LabelPath("env"), ProdEnv), Doc(Missing, Missing, Missing))
Reject == [Select(None) EXCEPT !.rejected = TRUE]

MCDecision == {Select("aws"), ToDev, ToProd, KeepProd, Reject}

For(stype, env) ==
  [k \in LabelKey |-> IF k = "service_type" THEN stype ELSE env]

Selectors == {For(None, None), For(vm, None), For(None, prod), For(vm, prod)}

MCPolicies == [selector: Selectors, decision: {Select("aws"), ToDev, ToProd, KeepProd, None}]
                \cup [selector: {For(None, dev)}, decision: {Reject}]

MCPolicyLists ==
  {<<>>} \cup {<<a, b>> : a \in MCPolicies, b \in MCPolicies}
         \cup {<<a, b, c>> : a \in MCPolicies, b \in [selector: {For(vm, prod), For(None, None)}, decision: {ToDev, None}],
                             c \in MCPolicies}
=============================================================================
