---------------------- MODULE RequestEvaluationProofs ----------------------
(***************************************************************************)
(* Theorems about RequestEvaluation, for any list of policies and any      *)
(* request.                                                                *)
(***************************************************************************)
EXTENDS RequestEvaluation, TLAPS

-----------------------------------------------------------------------------
(* A policy that is skipped stutters, one that is defined is an Evaluate. *)
LEMMA RequestStepIsEvaluationStep == [RequestNext]_requestVars => [Next]_vars
<1>1. Convert \/ Skip \/ AskUndefined => UNCHANGED vars
  BY DEF Convert, Skip, AskUndefined
<1>2. AskDefined => \E d \in Decision : Evaluate(d)
  BY DEF AskDefined
<1>3. Respond => Finish
  BY DEF Respond
<1>4. Interrupt => Fail
  BY DEF Interrupt
<1>5. UNCHANGED requestVars => UNCHANGED vars
  BY DEF requestVars
<1> QED
  BY <1>1, <1>2, <1>3, <1>4, <1>5 DEF RequestNext, Advance, Next

(* The handler and the walk implement EvaluationService, so its theorems
   (ProvidersNarrow, GuardrailsNeverFall) hold of every request. *)
THEOREM WalkImplementsEvaluation == RequestSpec => ImplementsEvaluationService
<1>1. RequestInit => Init
  BY DEF RequestInit
<1> QED
  BY <1>1, RequestStepIsEvaluationStep, PTL
     DEF RequestSpec, ImplementsEvaluationService, Spec

-----------------------------------------------------------------------------
(* The labels are those the handler derived, and do not change. *)
WalkInv ==
  /\ next \in Nat \ {0} /\ asked \subseteq 1 .. next - 1
  /\ labels = None => next = 1
  /\ labels # None => labels = extractRequestLabels(request)
  /\ AskedByRequestLabels

(* The turn of policy next ends: it was asked if its selector matched. *)
LEMMA TurnKeeps ==
  ASSUME WalkInv, NEW matches \in BOOLEAN, Turn(matches),
         next' = next + 1, UNCHANGED request,
         asked' = IF matches THEN asked \cup {next} ELSE asked
  PROVE  WalkInv'
<1>1. /\ labels # None /\ labels = extractRequestLabels(request)
      /\ UNCHANGED <<policies, labels>>
      /\ MatchesLabelSelector(policies[next].selector, labels) = matches
  BY DEF Turn, Evaluating, WalkInv
<1>2. /\ next' \in Nat \ {0} /\ 1 .. next' - 1 = (1 .. next - 1) \cup {next}
      /\ next' # 1
  BY DEF WalkInv
<1> DEFINE Hit(i) == MatchesLabelSelector(policies[i].selector, extractRequestLabels(request))
<1>3. asked = {i \in 1 .. next - 1 : Hit(i)} /\ (Hit(next) <=> matches)
  BY <1>1 DEF WalkInv, AskedByRequestLabels
<1>4. asked' = {i \in 1 .. next' - 1 : Hit(i)}
  BY <1>2, <1>3
<1>5. \A i : Hit(i)' <=> Hit(i)
  BY <1>1
<1>6. asked' \subseteq 1 .. next' - 1
  BY <1>4
<1>7. AskedByRequestLabels'
  BY <1>1, <1>4, <1>5 DEF AskedByRequestLabels
<1> QED
  BY <1>1, <1>2, <1>6, <1>7 DEF WalkInv

LEMMA WalkInvKept ==
  ASSUME WalkInv, [RequestNext]_requestVars
  PROVE  WalkInv'
<1>1. UNCHANGED request
  BY DEF RequestNext, Advance, Convert, Skip, AskUndefined, AskDefined, Respond,
         Interrupt, Evaluate, Apply, End, Finish, Fail, vars, requestVars
<1>2. CASE Convert
  <2>1. next' = 1 /\ asked' = {} /\ labels' = extractRequestLabels(request')
    BY <1>1, <1>2 DEF Convert, WalkInv
  <2>2. AskedByRequestLabels'
    BY <2>1 DEF AskedByRequestLabels
  <2> QED
    BY <2>1, <2>2 DEF WalkInv
<1>3. CASE Skip
  BY <1>1, <1>3, TurnKeeps DEF Skip
<1>4. CASE AskUndefined \/ AskDefined
  <2>1. \E d : Ask(d)
    BY <1>4 DEF AskUndefined, AskDefined
  <2> QED
    BY <1>1, <2>1, TurnKeeps DEF Ask
<1>5. CASE Respond \/ Interrupt
  BY <1>1, <1>5 DEF Respond, Interrupt, WalkInv, AskedByRequestLabels
<1>6. CASE UNCHANGED requestVars
  BY <1>1, <1>6 DEF requestVars, WalkInv, AskedByRequestLabels
<1> QED
  BY <1>2, <1>3, <1>4, <1>5, <1>6 DEF RequestNext, Advance

(* Policies are selected by the labels of the request as it was received,
   however the policies asked before them patch the labels of the spec. *)
THEOREM SelectedByRequestLabels == RequestSpec => []AskedByRequestLabels
<1>1. RequestInit => WalkInv
  BY DEF RequestInit, WalkInv, AskedByRequestLabels
<1>2. WalkInv /\ [RequestNext]_requestVars => WalkInv'
  BY WalkInvKept
<1>3. WalkInv => AskedByRequestLabels
  BY DEF WalkInv
<1> QED
  BY <1>1, <1>2, <1>3, PTL DEF RequestSpec

=============================================================================
