--------------------------- MODULE PolicyAPIProofs ---------------------------
(***************************************************************************)
(* A refused request changed nothing, and every answer is logged at the    *)
(* level of its status: theorems about PolicyAPI, for any number of        *)
(* requests, any bodies, lost answers, cancellations and crashes.          *)
(***************************************************************************)
EXTENDS PolicyAPI, PolicyServiceProofs

(* A handler that has changed the table is past its write, where only "ok"
   and "internal" are left to return. *)
WroteOK(p) == wrote[p] /\ pc[p] # "idle" => pc[p] \in AfterWrite

APIInv ==
  /\ wrote \in [Request -> BOOLEAN]
  /\ \A p \in Request : WroteOK(p)
  /\ RefusedWithoutTrace

(* What a step of the service for p does: it goes on, past the write if it
   wrote or was past it; it returns "ok" or an internal error; or it returns
   an error of the request, before anything was written. *)
Effects(p) ==
  \/ \E at : GoTo(p, at) /\ (db' # db \/ pc[p] \in AfterWrite => at \in AfterWrite)
  \/ \E outcome \in {"ok", "internal"} : Finish(p, outcome)
  \/ /\ pc[p] \notin AfterWrite /\ UNCHANGED db
     /\ \E outcome \in {"invalid", "notfound", "exists"} : Finish(p, outcome)

-----------------------------------------------------------------------------
(* No operation answers success or an internal error with a 4xx. *)
LEMMA OnlyRequestErrorsAre4xx ==
  ASSUME NEW p \in Request, NEW op \in {"create", "update", "delete"},
         NEW outcome \in {"ok", "internal"}
  PROVE  AnswerTo(p, op, outcome).status \notin 400 .. 499
<1>1. ErrorType("internal") = "INTERNAL"
  BY DEF ErrorType
<1>2. StatusOf(op, "INTERNAL") = 500
  BY DEF StatusOf, handleCreatePolicyError, handleUpdatePolicyError,
         handleDeletePolicyError, handleGetPolicyError, handleListPoliciesError
<1>3. SuccessOf(op) \in {200, 201, 204}
  BY DEF SuccessOf
<1>4. CASE outcome = "ok"
  BY <1>3, <1>4 DEF AnswerTo
<1>5. CASE outcome = "internal"
  BY <1>1, <1>2, <1>5 DEF AnswerTo
<1> QED
  BY <1>4, <1>5

LEMMA StepEffects ==
  ASSUME NEW p \in Request, Step(p)
  PROVE  pc[p] # "idle" /\ Effects(p)
<1>1. ASSUME NEW at \in AfterWrite, GoTo(p, at)
      PROVE  Effects(p)
  BY <1>1 DEF Effects
<1>2. ASSUME NEW at, GoTo(p, at), UNCHANGED db, pc[p] \notin AfterWrite
      PROVE  Effects(p)
  BY <1>2 DEF Effects
<1>3. ASSUME Finish(p, "ok") \/ Finish(p, "internal")
      PROVE  Effects(p)
  BY <1>3 DEF Effects
<1>4. ASSUME NEW outcome \in {"invalid", "notfound", "exists"},
             Finish(p, outcome), UNCHANGED db, pc[p] \notin AfterWrite
      PROVE  Effects(p)
  BY <1>4 DEF Effects
<1>5. RecompileFailed(p) => Effects(p)
  BY <1>1, <1>3 DEF RecompileFailed, AfterWrite
<1>6. CASE Insert(p)
  BY <1>1, <1>2, <1>6 DEF Insert, Calls, AfterWrite
<1>7. CASE Read(p)
  BY <1>2, <1>4, <1>7 DEF Read, Calls, AfterWrite
<1>8. CASE Write(p)
  BY <1>1, <1>2, <1>3, <1>4, <1>8 DEF Write, Calls, AfterWrite
<1>9. CASE Remove(p)
  BY <1>1, <1>4, <1>9 DEF Remove, Calls, AfterWrite
<1>10. CASE Classify(p)
  BY <1>2, <1>3, <1>4, <1>10 DEF Classify, Calls, AfterWrite
<1>11. CASE List(p)
  BY <1>1, <1>11 DEF List, Calls, AfterWrite
<1>12. CASE Recompile(p)
  BY <1>3, <1>5, <1>12 DEF Recompile
<1>13. CASE Rollback(p) \/ LoseAnswer(p)
  BY <1>3, <1>13 DEF Rollback, LoseAnswer, Calls
<1>14. CASE StoreError(p)
  BY <1>3, <1>5, <1>14 DEF StoreError
<1> QED
  BY <1>6, <1>7, <1>8, <1>9, <1>10, <1>11, <1>12, <1>13, <1>14
     DEF Step, Insert, Read, Write, Remove, Classify, List, Recompile, Rollback,
         LoseAnswer, StoreError, Calls

-----------------------------------------------------------------------------
LEMMA ContinueKeeps ==
  ASSUME TypeOK, JobsOK, APIInv, NEW p \in Request, Continue(p)
  PROVE  APIInv'
<1>1. /\ wrote' = [q \in Request |-> \/ pc[q] # "idle" /\ wrote[q]
                                     \/ q = p /\ db' # db]
      /\ answer' = IF sent' = None THEN None
                   ELSE AnswerTo(p, job[p].op, sent'.outcome)
  BY DEF Continue, Reply
<1>2. pc[p] # "idle" /\ Effects(p)
  BY StepEffects DEF Continue
<1>3. job[p].op \in {"create", "update", "delete"}
  BY <1>2 DEF JobsOK, JobOK, JobShape, Job
<1>4. wrote' \in [Request -> BOOLEAN]
  BY <1>1 DEF APIInv
<1>5. ASSUME NEW at, GoTo(p, at), db' # db \/ pc[p] \in AfterWrite => at \in AfterWrite
      PROVE  APIInv'
  <2>1. pc' = [pc EXCEPT ![p] = at] /\ answer' = None
    BY <1>1, <1>5 DEF GoTo
  <2>2. \A q \in Request : WroteOK(q)'
    BY <1>1, <1>2, <1>5, <2>1 DEF APIInv, WroteOK, TypeOK
  <2> QED
    BY <1>4, <2>1, <2>2 DEF APIInv, RefusedWithoutTrace
<1>6. ASSUME NEW outcome \in {"ok", "invalid", "notfound", "exists", "internal"},
             Finish(p, outcome)
      PROVE  /\ \A q \in Request : WroteOK(q)'
             /\ answer' = AnswerTo(p, job[p].op, outcome)
  <2>1. pc' = [pc EXCEPT ![p] = "idle"] /\ sent' = [to |-> p, outcome |-> outcome]
    BY <1>6 DEF Finish
  <2>2. sent' # None
    BY <2>1, EnvironmentAssumption DEF Response
  <2>3. \A q \in Request : WroteOK(q)'
    BY <1>1, <2>1 DEF APIInv, WroteOK, TypeOK
  <2> QED
    BY <1>1, <2>1, <2>2, <2>3
<1>7. ASSUME NEW outcome \in {"ok", "internal"}, Finish(p, outcome)
      PROVE  APIInv'
  <2>1. answer'.status \notin 400 .. 499
    BY <1>3, <1>6, <1>7, OnlyRequestErrorsAre4xx
  <2> QED
    BY <1>4, <1>6, <1>7, <2>1 DEF APIInv, RefusedWithoutTrace
<1>8. ASSUME NEW outcome \in {"invalid", "notfound", "exists"}, Finish(p, outcome),
             pc[p] \notin AfterWrite, UNCHANGED db
      PROVE  APIInv'
  <2>1. ~wrote'[p]
    BY <1>1, <1>2, <1>8 DEF APIInv, WroteOK
  <2>2. answer'.to = p
    BY <1>6, <1>8 DEF AnswerTo
  <2> QED
    BY <1>4, <1>6, <1>8, <2>1, <2>2 DEF APIInv, RefusedWithoutTrace
<1> QED
  BY <1>2, <1>5, <1>7, <1>8 DEF Effects

(* A request that arrives has written nothing. *)
LEMMA ArrivalKeeps ==
  ASSUME TypeOK, JobsOK, APIInv, NEW p \in Request, NEW op,
         Arrival(p), Reply(p, op)
  PROVE  APIInv'
<1>1. /\ wrote' = [q \in Request |-> \/ pc[q] # "idle" /\ wrote[q]
                                     \/ q = p /\ db' # db]
      /\ answer' = IF sent' = None THEN None ELSE AnswerTo(p, op, sent'.outcome)
  BY DEF Reply
<1>2. /\ pc[p] = "idle" /\ UNCHANGED db
      /\ \A q \in Request \ {p} : pc'[q] = pc[q]
  BY DEF Arrival, BeginCreate, BeginUpdate, BeginDelete, Begin, Refuse, TypeOK
<1>3. wrote' \in [Request -> BOOLEAN] /\ ~wrote'[p]
  BY <1>1, <1>2 DEF APIInv
<1>4. \A q \in Request : WroteOK(q)'
  BY <1>1, <1>2, <1>3 DEF APIInv, WroteOK
<1>5. answer' = None \/ answer'.to = p
  BY <1>1 DEF AnswerTo
<1> QED
  BY <1>3, <1>4, <1>5 DEF APIInv, RefusedWithoutTrace

(* So has one that is answered in one step. *)
LEMMA AtOnceKeeps ==
  ASSUME TypeOK, JobsOK, APIInv, NEW p \in Request, NEW response,
         AnswersAtOnce(p, response), response.to = p
  PROVE  APIInv'
<1>1. /\ pc' = pc /\ answer' = response
      /\ wrote' = [wrote EXCEPT ![p] = FALSE]
  BY DEF AnswersAtOnce, vars
<1> QED
  BY <1>1 DEF APIInv, WroteOK, RefusedWithoutTrace

LEMMA APINextKeeps ==
  ASSUME TypeOK, JobsOK, APIInv, [APINext]_apiVars
  PROVE  APIInv'
<1>1. ASSUME NEW p \in Request, CreatePolicy(p) \/ UpdatePolicy(p) \/ DeletePolicy(p)
      PROVE  APIInv'
  BY <1>1, ArrivalKeeps DEF CreatePolicy, UpdatePolicy, DeletePolicy, Arrival
<1>2. ASSUME NEW p \in Request,
             Malformed(p) \/ ListPolicies(p) \/ \E id \in PolicyID : GetPolicy(p, id)
      PROVE  APIInv'
  <2>1. \A op, outcome : AnswerTo(p, op, outcome).to = p
    BY DEF AnswerTo
  <2> QED
    BY <1>2, <2>1, AtOnceKeeps DEF Malformed, ListPolicies, GetPolicy
<1>3. CASE Environment
  <2>1. \A q \in Request : pc'[q] = pc[q] \/ pc'[q] = "idle"
    BY <1>3 DEF Environment, Start, Crash, Cancel
  <2> QED
    BY <1>3, <2>1 DEF Environment, APIInv, WroteOK, RefusedWithoutTrace
<1>4. CASE UNCHANGED apiVars
  BY <1>4 DEF apiVars, vars, APIInv, WroteOK, RefusedWithoutTrace
<1> QED
  BY <1>1, <1>2, <1>3, <1>4, ContinueKeeps DEF APINext

(* Every step of the API is a step of the service or leaves it alone. *)
LEMMA APIStepIsServiceStep == [APINext]_apiVars => [Next]_vars
BY DEF APINext, apiVars, CreatePolicy, UpdatePolicy, DeletePolicy, Continue, Malformed,
       ListPolicies, GetPolicy, AnswersAtOnce, Environment, Next, Arrival

(* A 4xx answer means that the request changed nothing, whatever the other
   requests, the store, the clients and the process do meanwhile. *)
THEOREM RefusedRequestsLeaveNoTrace == APISpec => []RefusedWithoutTrace
<1>1. APIInit => TypeOK /\ JobsOK /\ APIInv
  BY InitTyped DEF APIInit, Init, APIInv, WroteOK, RefusedWithoutTrace
<1>2. TypeOK /\ JobsOK /\ APIInv /\ [APINext]_apiVars => (TypeOK /\ JobsOK /\ APIInv)'
  BY NextTyped, APINextKeeps, APIStepIsServiceStep
<1>3. APIInv => RefusedWithoutTrace
  BY DEF APIInv
<1> QED
  BY <1>1, <1>2, <1>3, PTL DEF APISpec

-----------------------------------------------------------------------------
(* The level and the status *)

(* What the service can return from each operation. *)
Outcomes(op) ==
  CASE op = "create" -> {"ok", "invalid", "exists", "internal"}
    [] op = "update" -> {"ok", "invalid", "notfound", "exists", "internal"}
    [] op = "delete" -> {"ok", "notfound", "internal"}
    [] op = "get"    -> {"ok", "notfound", "internal"}
    [] op = "list"   -> {"ok", "invalid", "internal"}

Fits(response) ==
  /\ response.level = "Warn" <=> response.status \in 400 .. 499
  /\ response.level = "Error" <=> response.status = 500

(* The two switches on an error's type agree on every error of an operation,
   though not on every error there is: a NOT_FOUND from a create would be
   logged as the client's fault and answered 500. *)
LEMMA SwitchesAgree ==
  ASSUME NEW p, NEW op \in {"create", "update", "delete", "get", "list"},
         NEW outcome \in Outcomes(op)
  PROVE  Fits(AnswerTo(p, op, outcome))
<1> USE DEF ErrorType, StatusOf, isClientError, handleCreatePolicyError,
            handleGetPolicyError, handleListPoliciesError,
            handleUpdatePolicyError, handleDeletePolicyError
<1>1. CASE outcome = "ok"
  BY <1>1 DEF AnswerTo, SuccessOf, Fits
<1>2. CASE outcome = "internal"
  <2>1. AnswerTo(p, op, outcome) = [to |-> p, status |-> 500, level |-> "Error"]
    BY <1>2 DEF AnswerTo
  <2> QED
    BY <2>1 DEF Fits
<1>3. CASE outcome \in {"invalid", "notfound", "exists"}
  <2>1. outcome # "ok" /\ isClientError(ErrorType(outcome))
    BY <1>3
  <2>2. StatusOf(op, ErrorType(outcome)) \in {400, 404, 409}
    BY <1>3 DEF Outcomes
  <2>3. AnswerTo(p, op, outcome) =
          [to |-> p, status |-> StatusOf(op, ErrorType(outcome)), level |-> "Warn"]
    BY <2>1 DEF AnswerTo
  <2> HIDE DEF StatusOf, ErrorType
  <2> QED
    BY <2>2, <2>3 DEF Fits
<1> QED
  BY <1>1, <1>2, <1>3 DEF Outcomes

LEMMA StepOutcomes ==
  ASSUME JobsOK, NEW p \in Request, Step(p)
  PROVE  \/ \E at : GoTo(p, at)
         \/ \E outcome \in Outcomes(job[p].op) : Finish(p, outcome)
<1> DEFINE Returns == \/ \E at : GoTo(p, at)
                      \/ \E outcome \in Outcomes(job[p].op) : Finish(p, outcome)
<1>1. pc[p] # "idle"
  BY StepEffects
<1>2. JobShape(pc[p], job[p]) /\ job[p].op \in {"create", "update", "delete"}
  BY <1>1 DEF JobsOK, JobOK, JobShape, Job
<1>3. Finish(p, "ok") \/ Finish(p, "internal") => Returns
  BY <1>2 DEF Outcomes
<1>4. ASSUME NEW at, GoTo(p, at) PROVE Returns
  BY <1>4
<1>5. RecompileFailed(p) => Returns
  BY <1>3, <1>4 DEF RecompileFailed
<1>6. job[p].op = "update" => (Finish(p, "notfound") \/ Finish(p, "invalid") => Returns)
  BY DEF Outcomes
<1>7. job[p].op = "delete" => (Finish(p, "notfound") => Returns)
  BY DEF Outcomes
<1>8. job[p].op \in {"create", "update"} => (Finish(p, "exists") => Returns)
  BY DEF Outcomes
<1> SUFFICES Returns
  OBVIOUS
<1> HIDE DEF Returns
<1>9. CASE Insert(p) \/ List(p)
  BY <1>4, <1>9 DEF Insert, List
<1>10. CASE Read(p)
  BY <1>2, <1>4, <1>6, <1>10 DEF Read, Calls, JobShape
<1>11. CASE Write(p)
  BY <1>2, <1>3, <1>4, <1>6, <1>11 DEF Write, Calls, JobShape
<1>12. CASE Remove(p)
  BY <1>2, <1>4, <1>7, <1>12 DEF Remove, Calls, JobShape
<1>13. CASE Classify(p)
  BY <1>2, <1>3, <1>4, <1>8, <1>13 DEF Classify, Calls, JobShape
<1>14. CASE Recompile(p) \/ StoreError(p)
  BY <1>3, <1>5, <1>14 DEF Recompile, StoreError
<1>15. CASE Rollback(p) \/ LoseAnswer(p)
  BY <1>3, <1>15 DEF Rollback, LoseAnswer
<1> QED
  BY <1>9, <1>10, <1>11, <1>12, <1>13, <1>14, <1>15 DEF Step

(* "Warn" goes with a 4xx and "Error" with a 500 in every answer a handler
   gives. *)
THEOREM SeverityIsTrue == APISpec => []SeverityMatchesStatus
<1>1. APIInit => TypeOK /\ JobsOK /\ SeverityMatchesStatus
  BY InitTyped DEF APIInit, SeverityMatchesStatus
<1>2. ASSUME TypeOK, JobsOK, SeverityMatchesStatus, [APINext]_apiVars
      PROVE  SeverityMatchesStatus'
  <2>1. ASSUME NEW p \in Request, NEW op \in {"create", "update", "delete", "get", "list"},
               NEW outcome \in Outcomes(op), answer' = AnswerTo(p, op, outcome)
        PROVE  SeverityMatchesStatus'
    BY <2>1, SwitchesAgree DEF SeverityMatchesStatus, Fits
  <2>2. answer' = None => SeverityMatchesStatus'
    BY DEF SeverityMatchesStatus
  <2>3. ASSUME NEW p \in Request, NEW op \in {"create", "update"},
               Arrival(p), Reply(p, op)
        PROVE  SeverityMatchesStatus'
    <3>1. sent' = None \/ sent' = [to |-> p, outcome |-> "invalid"]
      BY <2>3 DEF Arrival, BeginCreate, BeginUpdate, BeginDelete, Begin, Refuse
    <3>2. answer' = None \/ answer' = AnswerTo(p, op, "invalid")
      BY <2>3, <3>1 DEF Reply
    <3>3. "invalid" \in Outcomes(op)
      BY DEF Outcomes
    <3> QED
      BY <2>1, <2>2, <3>2, <3>3
  <2>4. ASSUME NEW p \in Request, DeletePolicy(p)
        PROVE  SeverityMatchesStatus'
    BY <2>2, <2>4 DEF DeletePolicy, BeginDelete, Begin, Reply
  <2>5. ASSUME NEW p \in Request, Continue(p)
        PROVE  SeverityMatchesStatus'
    <3>1. job[p].op \in {"create", "update", "delete"}
      BY <1>2, <2>5, StepEffects DEF Continue, JobsOK, JobOK, JobShape, Job
    <3>2. CASE \E at : GoTo(p, at)
      BY <2>2, <2>5, <3>2 DEF Continue, Reply, GoTo
    <3>3. ASSUME NEW outcome \in Outcomes(job[p].op), Finish(p, outcome)
          PROVE  SeverityMatchesStatus'
      <4>1. sent' = [to |-> p, outcome |-> outcome]
        BY <3>3 DEF Finish
      <4>2. outcome \in {"ok", "invalid", "notfound", "exists", "internal"}
        BY <3>1, <3>3 DEF Outcomes
      <4>3. sent' # None
        BY <4>1, <4>2, EnvironmentAssumption DEF Response
      <4>4. answer' = AnswerTo(p, job[p].op, outcome)
        BY <2>5, <4>1, <4>3 DEF Continue, Reply
      <4> QED
        BY <2>1, <3>1, <3>3, <4>4
    <3> QED
      BY <1>2, <2>5, <3>2, <3>3, StepOutcomes DEF Continue
  <2>6. ASSUME NEW p \in Request, Malformed(p)
        PROVE  SeverityMatchesStatus'
    BY <2>6 DEF Malformed, AnswersAtOnce, SeverityMatchesStatus
  <2>7. ASSUME NEW p \in Request, ListPolicies(p)
        PROVE  SeverityMatchesStatus'
    <3>1. PICK outcome \in Outcomes("list") : answer' = AnswerTo(p, "list", outcome)
      BY <2>7 DEF ListPolicies, AnswersAtOnce, Outcomes
    <3> QED
      BY <2>1, <3>1
  <2>8. ASSUME NEW p \in Request, NEW id \in PolicyID, GetPolicy(p, id)
        PROVE  SeverityMatchesStatus'
    <3>1. PICK outcome \in Outcomes("get") : answer' = AnswerTo(p, "get", outcome)
      BY <2>8 DEF GetPolicy, AnswersAtOnce, Outcomes
    <3> QED
      BY <2>1, <3>1
  <2>9. CASE Environment \/ UNCHANGED apiVars
    BY <1>2, <2>2, <2>9 DEF Environment, apiVars, SeverityMatchesStatus
  <2> QED
    BY <1>2, <2>3, <2>4, <2>5, <2>6, <2>7, <2>8, <2>9
       DEF APINext, CreatePolicy, UpdatePolicy, Arrival
<1>3. TypeOK /\ JobsOK /\ SeverityMatchesStatus /\ [APINext]_apiVars
        => (TypeOK /\ JobsOK /\ SeverityMatchesStatus)'
  BY <1>2, NextTyped, APIStepIsServiceStep
<1> QED
  BY <1>1, <1>3, PTL DEF APISpec

=============================================================================
