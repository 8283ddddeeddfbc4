----------------------------- MODULE PolicyAPI -----------------------------
(***************************************************************************)
(* internal/handlers/v1alpha1: the HTTP handlers over the policy service.  *)
(* Each answers with a status that depends on the operation and on the     *)
(* type of the service's error, and logs the error at a level that depends *)
(* on the type alone.                                                      *)
(***************************************************************************)
EXTENDS PolicyService

VARIABLES
  answer,   \* the HTTP answer the last step sent, None if it sent none
  wrote     \* history: wrote[p] while p is served: p has changed the table

apiVars == <<vars, answer, wrote>>

Answer == [to: Request, status: {200, 201, 204, 400, 404, 409, 500},
           level: {"None", "Info", "Warn", "Error"}]

APITypeOK ==
  /\ answer \in Answer \cup {None}
  /\ wrote \in [Request -> BOOLEAN]

-----------------------------------------------------------------------------
(* The type of the ServiceError an outcome of the service carries. *)
ErrorType(outcome) ==
  CASE outcome = "invalid"  -> "INVALID_ARGUMENT"
    [] outcome = "notfound" -> "NOT_FOUND"
    [] outcome = "exists"   -> "ALREADY_EXISTS"
    [] outcome = "internal" -> "INTERNAL"

(* Fault: a duplicate counts as a failure of the server. *)
isRequestError(type) == type \in {"INVALID_ARGUMENT", "NOT_FOUND", "FAILED_PRECONDITION"}

isClientError(type) ==
  type \in {"INVALID_ARGUMENT", "NOT_FOUND", "ALREADY_EXISTS", "FAILED_PRECONDITION"}

handleCreatePolicyError(type) ==
  CASE type = "INVALID_ARGUMENT" -> 400
    [] type = "ALREADY_EXISTS" -> 409
    [] OTHER -> 500

handleGetPolicyError(type) == IF type = "NOT_FOUND" THEN 404 ELSE 500

handleListPoliciesError(type) == IF type = "INVALID_ARGUMENT" THEN 400 ELSE 500

handleUpdatePolicyError(type) ==
  CASE type \in {"INVALID_ARGUMENT", "FAILED_PRECONDITION"} -> 400
    [] type = "NOT_FOUND" -> 404
    [] type = "ALREADY_EXISTS" -> 409
    [] OTHER -> 500

handleDeletePolicyError(type) == IF type = "NOT_FOUND" THEN 404 ELSE 500

StatusOf(op, type) ==
  CASE op = "create" -> handleCreatePolicyError(type)
    [] op = "get"    -> handleGetPolicyError(type)
    [] op = "list"   -> handleListPoliciesError(type)
    [] op = "update" -> handleUpdatePolicyError(type)
    [] op = "delete" -> handleDeletePolicyError(type)

SuccessOf(op) == CASE op = "create" -> 201 [] op = "delete" -> 204 [] OTHER -> 200

(* What the handler of op makes of the service's outcome. *)
AnswerTo(p, op, outcome) ==
  IF outcome = "ok"
  THEN [to |-> p, status |-> SuccessOf(op), level |-> "Info"]
  ELSE [to |-> p, status |-> StatusOf(op, ErrorType(outcome)),
        level |-> IF isClientError(ErrorType(outcome)) THEN "Warn" ELSE "Error"]

-----------------------------------------------------------------------------
(* The service makes a step for p; when it returns, the handler answers. *)
Reply(p, op) ==
  /\ answer' = IF sent' = None THEN None ELSE AnswerTo(p, op, sent'.outcome)
  /\ wrote' = [q \in Request |-> \/ pc[q] # "idle" /\ wrote[q]
                                 \/ q = p /\ db' # db]

CreatePolicy(p) ==
  /\ \E body \in CreateBody, id \in PolicyID \cup {None, BadID} :
       BeginCreate(p, body, id)
  /\ Reply(p, "create")

UpdatePolicy(p) ==
  /\ \E id \in PolicyID, patch \in PatchBody : BeginUpdate(p, id, patch)
  /\ Reply(p, "update")

DeletePolicy(p) ==
  /\ \E id \in PolicyID : BeginDelete(p, id)
  /\ Reply(p, "delete")

Continue(p) == Step(p) /\ Reply(p, job[p].op)

(* Calls that take one step and leave the service as it is. *)
AnswersAtOnce(p, response) ==
  /\ up /\ pc[p] = "idle"
  /\ answer' = response
  /\ wrote' = [wrote EXCEPT ![p] = FALSE]
  /\ UNCHANGED vars

(* The generated wrapper refuses parameters that do not bind and bodies that
   are not JSON, an absent one included: no handler runs and nothing is logged
   as an error.  The handlers' own tests for a nil body never succeed then. *)
Malformed(p) == AnswersAtOnce(p, [to |-> p, status |-> 400, level |-> "None"])

GetPolicy(p, id) ==
  \E outcome \in (IF db[id] = None THEN {"notfound"} ELSE {"ok"})
                 \cup (IF MayFail THEN {"internal"} ELSE {}) :
    AnswersAtOnce(p, AnswerTo(p, "get", outcome))

(* Which pages there are, and which requests are refused, is PolicyListing's. *)
ListPolicies(p) ==
  \E outcome \in {"ok", "invalid"} \cup (IF MayFail THEN {"internal"} ELSE {}) :
    AnswersAtOnce(p, AnswerTo(p, "list", outcome))

Environment ==
  /\ Start \/ Crash \/ \E p \in Request : Cancel(p)
  /\ answer' = None
  /\ wrote' = [q \in Request |-> pc'[q] # "idle" /\ wrote[q]]

APIInit == Init /\ answer = None /\ wrote = [p \in Request |-> FALSE]

APINext ==
  \/ \E p \in Request :
       \/ CreatePolicy(p) \/ UpdatePolicy(p) \/ DeletePolicy(p) \/ Continue(p)
       \/ Malformed(p) \/ ListPolicies(p) \/ \E id \in PolicyID : GetPolicy(p, id)
  \/ Environment

APISpec == APIInit /\ [][APINext]_apiVars

-----------------------------------------------------------------------------
(* Properties *)

(* A 4xx answer means that the request changed nothing: no error found after
   the write (the recompilation, the rollback, a read that classifies a
   clash) is passed off as the client's, so a client that corrects a refused
   request and sends it again never meets its own earlier attempt. *)
RefusedWithoutTrace ==
  answer # None /\ answer.status \in 400 .. 499 => ~wrote[answer.to]

(* "log severity matches HTTP response semantics" (errors.go): the switch on
   the type that chooses the level and the five that choose the status agree
   on every error each operation can meet. *)
SeverityMatchesStatus ==
  answer # None /\ answer.level # "None" =>
    /\ answer.level = "Warn" <=> answer.status \in 400 .. 499
    /\ answer.level = "Error" <=> answer.status = 500

=============================================================================
