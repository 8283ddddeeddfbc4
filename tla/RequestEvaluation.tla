------------------------- MODULE RequestEvaluation -------------------------
(***************************************************************************)
(* POST /policies:evaluateRequest from the handler of the engine API to    *)
(* its answer: internal/handlers/engine derives the labels of the request, *)
(* internal/service/evaluation.go walks the enabled policies, asks those   *)
(* whose selector matches, and the handler turns the outcome into a status.*)
(* The walk is over a list of policies (PolicyEvaluation has the paging);  *)
(* what one decision does to the request is EvaluationService.             *)
(***************************************************************************)
EXTENDS EvaluationService

CONSTANTS
  String,      \* the scalars that are strings
  LabelKey,    \* keys of labels, "service_type" among them
  PolicyLists  \* lists of policies an evaluation may meet

VARIABLES
  policies,  \* the enabled policies, in order of evaluation
  labels,    \* req.RequestLabels, None before the handler has derived them
  next,      \* the position of the policy evaluated next
  asked,     \* history: the positions of the policies that were asked
  answer     \* the HTTP status, None while the request is evaluated

requestVars == <<vars, policies, labels, next, asked, answer>>

ServiceType == <<"service_type">>
LabelPath(k) == <<"metadata", "labels", k>>

Labels == [LabelKey -> String \cup {None}]

(* decision is None when the policy's main is undefined for the input. *)
Policy == [selector: Labels, decision: Decision \cup {None}]

ASSUME RequestAssumption ==
  /\ PolicyLists \subseteq Seq(Policy)
  /\ String \subseteq Scalar /\ None \notin String
  /\ None \notin Decision /\ None \notin Labels /\ None \notin Nat
  /\ ServiceType \in Path /\ "service_type" \in LabelKey
  /\ \A k \in LabelKey : LabelPath(k) \in Path

-----------------------------------------------------------------------------
(* The handler's conversions *)

(* The labels are spec.metadata.labels, those that are strings, written over
   the service type; a spec without a service type has none. *)
extractRequestLabels(doc) ==
  IF doc[ServiceType] \notin String THEN None
  ELSE [k \in LabelKey |->
          IF doc[LabelPath(k)] \in String THEN doc[LabelPath(k)]
          ELSE IF k = "service_type" THEN doc[ServiceType]
          ELSE None]

MatchesLabelSelector(selector, requestLabels) ==
  \A k \in LabelKey : selector[k] # None => requestLabels[k] = selector[k]

(* handleError, and 200 for a response. *)
StatusCode(outcome) ==
  CASE outcome \in {"approved", "modified"} -> 200
    [] outcome = "rejected" -> 406
    [] outcome = "conflict" -> 409
    [] outcome = "internal" -> 500

Answered == answer' = IF status' = "running" THEN None ELSE StatusCode(status')

-----------------------------------------------------------------------------
RequestInit ==
  /\ Init
  /\ policies \in PolicyLists
  /\ labels = None /\ next = 1 /\ asked = {} /\ answer = None

(* toServiceEvaluationRequest; without a service type the service is not
   called. *)
Convert ==
  /\ labels = None /\ answer = None
  /\ labels' = extractRequestLabels(request)
  /\ answer' = IF labels' = None THEN 400 ELSE None
  /\ UNCHANGED <<vars, policies, next, asked>>

Evaluating == labels # None /\ answer = None

(* Fault: the labels are taken from the spec as policies have patched it. *)
TurnByCurrentSpec(matches) ==
  /\ Evaluating /\ next <= Len(policies)
  /\ MatchesLabelSelector(policies[next].selector, extractRequestLabels(spec)) = matches
  /\ UNCHANGED <<policies, labels>>

(* The labels are those of the request, not of the spec as it is now. *)
Turn(matches) ==
  /\ Evaluating /\ next <= Len(policies)
  /\ MatchesLabelSelector(policies[next].selector, labels) = matches
  /\ UNCHANGED <<policies, labels>>

(* Fault: the walk stays at a policy that does not match. *)
SkipInPlace ==
  /\ Turn(FALSE)
  /\ UNCHANGED <<vars, next, asked, answer>>

Skip ==
  /\ Turn(FALSE)
  /\ next' = next + 1
  /\ UNCHANGED <<vars, asked, answer>>

Ask(decision) ==
  /\ Turn(TRUE)
  /\ decision = policies[next].decision
  /\ next' = next + 1
  /\ asked' = asked \cup {next}

(* Fault: the provider selected so far is lost when a policy is undefined. *)
AskUndefinedForgetting ==
  /\ Ask(None)
  /\ provider' = None
  /\ UNCHANGED <<request, spec, renumbered, fields, sp, status, laid, promised, answer>>

AskUndefined == Ask(None) /\ UNCHANGED <<vars, answer>>

AskDefined == \E d \in Decision : Ask(d) /\ Evaluate(d) /\ Answered

(* The store fails to list, or the engine to evaluate. *)
Interrupt ==
  /\ Evaluating
  /\ Fail /\ Answered
  /\ UNCHANGED <<policies, labels, next, asked>>

Respond ==
  /\ Evaluating /\ next > Len(policies)
  /\ Finish /\ Answered
  /\ UNCHANGED <<policies, labels, next, asked>>

Advance == Convert \/ Skip \/ AskUndefined \/ AskDefined \/ Respond

RequestNext == Advance \/ Interrupt

(* The goroutine of a request runs; stores and policies need not fail. *)
RequestSpec == RequestInit /\ [][RequestNext]_requestVars /\ WF_requestVars(Advance)

-----------------------------------------------------------------------------
(* Properties *)

(* The handler and the walk implement one evaluation of EvaluationService:
   policies that do not match or are undefined leave no trace in what the
   later ones see, and none is asked after the request was answered. *)
ImplementsEvaluationService == Spec

(* A policy is asked if and only if its turn came and all of its selector
   matches the labels of the request as it was received, whatever policies
   asked before it have patched: no policy opts another one in or out. *)
AskedByRequestLabels ==
  labels # None =>
    asked = {i \in 1 .. next - 1 :
               MatchesLabelSelector(policies[i].selector, extractRequestLabels(request))}

(* Every request is answered. *)
EveryRequestAnswered == <>(answer # None)

=============================================================================
