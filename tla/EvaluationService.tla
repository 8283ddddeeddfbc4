------------------------- MODULE EvaluationService -------------------------
(***************************************************************************)
(* One EvaluateRequest of internal/service/evaluation.go: the policies it  *)
(* meets are asked in turn, each sees what those before it decided, and    *)
(* the first one that fails, rejects or conflicts ends the evaluation.     *)
(* What a policy answers is OPA's business: any decision, in any order.    *)
(***************************************************************************)
EXTENDS ConstraintContext

CONSTANTS
  ServiceInstance,  \* service instance specs clients send
  Decision          \* decisions the policies answer

VARIABLES
  request,   \* req.ServiceInstance
  spec,      \* currentSpec
  provider,  \* selectedProvider
  fields,    \* constrainedFieldsByFieldPath
  sp,        \* serviceProviderConstraints
  renumbered,  \* the paths of currentSpec whose number came from a policy
  status,    \* "running", the status answered or the error
  laid,      \* history: the schemas policies have put on each path
  promised   \* history: those on the path when its value was last patched

vars == <<request, spec, renumbered, provider, fields, sp, status, laid, promised>>

(* opa.ParsePolicyDecision: an absent field is the zero value. *)
Decisions ==
  [rejected: BOOLEAN, constraints: Constraints, sp: SPConstraints \cup {None},
   patch: Document, provider: Provider \cup {None}]

ASSUME DecisionAssumption == Decision \subseteq Decisions /\ ServiceInstance \subseteq Document

TypeOK ==
  /\ request \in Document /\ spec \in Document
  /\ renumbered \subseteq Path
  /\ provider \in Provider \cup {None}
  /\ fields \in Constraints
  /\ sp \in SPConstraints \cup {None}
  /\ status \in {"running", "approved", "modified", "rejected", "conflict", "internal"}
  /\ laid \in [Path -> SUBSET Schema]
  /\ \A p \in Path : promised[p] \subseteq laid[p]

Init ==
  /\ request \in ServiceInstance /\ spec = request /\ renumbered = {}
  /\ provider = None
  /\ fields = [p \in Path |-> None]
  /\ sp = None
  /\ status = "running"
  /\ laid = [p \in Path |-> {}]
  /\ promised = laid

-----------------------------------------------------------------------------
(* evaluatePolicy *)

(* Fault: the provider is checked before the policy's own constraints on
   providers are merged. *)
ConflictsEarly(d, merged) ==
  \/ ConstraintsConflict(fields, d.constraints)
  \/ SPConflict(sp, d.sp)
  \/ ~PatchAllowed(merged, d.patch)
  \/ d.provider # None /\ ~ProviderAllowed(sp, d.provider)

(* What answers 409: the patch and the provider are checked against the
   policy's own constraints too. *)
Conflicts(d, merged) ==
  \/ ConstraintsConflict(fields, d.constraints)
  \/ SPConflict(sp, d.sp)
  \/ ~PatchAllowed(merged, d.patch)
  \/ d.provider # None /\ ~ProviderAllowed(MergeSP(sp, d.sp), d.provider)

(* The paths whose "pattern" and "allOf" may be met in either order. *)
EitherOrder(d) ==
  {p \in Path : d.constraints[p] # None /\ d.constraints[p].allOf # None}

End(outcome) ==
  /\ status = "running" /\ status' = outcome
  /\ UNCHANGED <<request, spec, renumbered, provider, fields, sp, laid, promised>>

Apply(d, merged) ==
  /\ spec' = MergePatch(spec, d.patch)
  /\ renumbered' = {p \in Path : /\ spec'[p] \in Number
                                 /\ d.patch[p] # Missing \/ p \in renumbered}
  /\ fields' = merged
  /\ sp' = MergeSP(sp, d.sp)
  /\ provider' = Or(d.provider, provider)
  /\ laid' = [p \in Path |-> laid[p] \cup ({d.constraints[p]} \ {None})]
  /\ promised' = [p \in Path |-> IF d.patch[p] = Missing THEN promised[p] ELSE laid'[p]]
  /\ UNCHANGED <<request, status>>

(* A policy that is undefined, or whose label selector does not match, is
   skipped: no step. *)
Evaluate(d) ==
  /\ status = "running"
  /\ IF d.rejected THEN End("rejected")
     ELSE \E patternFirst \in SUBSET EitherOrder(d) :
            LET merged == MergeConstraints(fields, d.constraints, patternFirst)
            IN IF Conflicts(d, merged) THEN End("conflict") ELSE Apply(d, merged)

(* The store or the engine fails. *)
Fail == End("internal")

(* deep.Equal tells a number OPA answered, a json.Number, from the float64 of
   the request, equal as they may be. *)
Finish ==
  End(IF spec = request /\ renumbered = {} THEN "approved" ELSE "modified")

Next == (\E d \in Decision : Evaluate(d)) \/ Fail \/ Finish

Spec == Init /\ [][Next]_vars

-----------------------------------------------------------------------------
(* Properties *)

(* A scalar a policy patched satisfies every constraint any policy had put on
   the path by then: no later constraint loosened it, and no patch, however
   deep, escaped it.  Not so an object: two patches that satisfy its
   constraints one by one may add up to an object that does not. *)
GuardrailsHold ==
  \A p \in Path : spec[p] \notin {Missing, Object} =>
    \A s \in promised[p] : Satisfies(spec, p, s)

(* A decision is not applied if its patch breaks, at any path it has, objects
   and nulls included, a constraint that was ever put there: by the policies
   before, however often others were merged with it since, or by its own. *)
PatchesObeyLaid ==
  [][status' = "running" =>
       \A d \in Decision, p \in Path :
         d.patch[p] # Missing /\ (\E s \in laid'[p] : ~Satisfies(d.patch, p, s))
         => ~Evaluate(d)]_vars

(* A provider that was ruled out stays ruled out. *)
ProvidersOnlyNarrow ==
  [][\A x \in Provider : ProviderAllowed(sp', x) => ProviderAllowed(sp, x)]_vars

(* The provider a policy selects is one that policy and all before it allow. *)
SelectionAllowed ==
  [][provider' # provider => ProviderAllowed(sp', provider')]_vars

(* A value locked by a const, be it a whole object, is changed only by a patch
   that takes away the object around it, where no constraint is looked up: no
   patch of the field itself or of its members, alone or with others, and no
   later constraint lets go.  A null is not locked: a patch with null satisfies
   the const and removes the key. *)
LockHolds ==
  [][\A p \in Path :
       /\ fields[p] # None /\ fields[p].const # None
       /\ fields[p].const = ValueAt(spec, p)
       /\ \A q \in From(p) : spec[q] # Null
       /\ ValueAt(spec', p) # ValueAt(spec, p)
       => \E q \in Above(p) : spec'[q] # Object]_vars

=============================================================================
