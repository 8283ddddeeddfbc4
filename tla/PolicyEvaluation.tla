-------------------------- MODULE PolicyEvaluation --------------------------
(***************************************************************************)
(* The loop of EvaluateRequest, in internal/service/evaluation.go, beside  *)
(* the mutations of PolicyService: it lists the enabled policies a page at *)
(* a time, by offset, and asks the engine for each.  The database and the  *)
(* engine may change between any two of these calls.                       *)
(*                                                                         *)
(* What the policies decide is EvaluationService's; here any of them may   *)
(* end the evaluation.                                                     *)
(***************************************************************************)
EXTENDS PolicyService, PolicyListing

CONSTANT PageSize  \* 1000 in the code

VARIABLE scan  \* the evaluation in progress, or None

ASSUME PageAssumption == PageSize \in Nat \ {0}

evaluationVars == <<vars, scan>>

(* page: the policies listed and not asked yet, with their policy_type;
   offset: where the next page starts, None after the last; asked: the
   policies asked, with that type and the Rego that answered.  Histories
   since the evaluation began: quiet, no mutation overlapped it; kept, no
   enabled policy was deleted, disabled or moved in the order; steady, the
   policies that were enabled all along and did not change. *)
Scan == [page: Seq(PolicyID \X PolicyType), offset: Nat \cup {None},
         asked: Seq(PolicyID \X PolicyType \X (Rego \cup {None})),
         quiet: BOOLEAN, kept: BOOLEAN, steady: SUBSET PolicyID]

EvaluationTypeOK == scan \in Scan \cup {None}

-----------------------------------------------------------------------------
(* PolicyStore.List for the enabled policies, in the default order, which
   leaves no ties. *)

EnabledOnly == [ptype |-> None, enabled |-> TRUE]

EnabledIDs(table) == Where(table, EnabledOnly)

InOrder(table) == Results(table, {}, EnabledOnly, DefaultOrderBy)

-----------------------------------------------------------------------------
(* EvaluateRequest *)

BeginEvaluation ==
  /\ up /\ scan = None
  /\ scan' = [page |-> <<>>, offset |-> 0, asked |-> <<>>,
              quiet |-> Quiescent, kept |-> TRUE, steady |-> EnabledIDs(db)]
  /\ UNCHANGED vars

ListPage ==
  /\ scan # None /\ scan.page = <<>> /\ scan.offset # None
  /\ \E ids \in InOrder(db) :
       LET rows == [i \in DOMAIN ids |-> <<ids[i], db[ids[i]].ptype>>]
       IN scan' = [scan EXCEPT !.page = Page(rows, scan.offset, PageSize),
                               !.offset = NextOffset(rows, scan.offset, PageSize)]
  /\ UNCHANGED vars

(* A policy the engine does not have is undefined and skipped. *)
AskNext ==
  /\ scan # None /\ scan.page # <<>>
  /\ LET id == Head(scan.page)[1]
         ptype == Head(scan.page)[2]
     IN scan' = [scan EXCEPT !.page = Tail(@),
                             !.asked = Append(@, <<id, ptype, queries[id]>>)]
  /\ UNCHANGED vars

(* Fault: the token is looked at in the loop over the policies of a page. *)
DoneAfterAPolicy ==
  scan # None /\ scan.page = <<>> /\ scan.offset = None /\ scan.asked # <<>>

Done == scan # None /\ scan.page = <<>> /\ scan.offset = None

EndEvaluation == Done /\ scan' = None /\ UNCHANGED vars

(* A policy rejects or conflicts, or a call fails. *)
StopEvaluation ==
  /\ scan # None /\ ~Done
  /\ scan' = None
  /\ UNCHANGED vars

(* Every policy the evaluation lists stays, where it is in the order. *)
KeepsPlaces ==
  \A id \in EnabledIDs(db) :
    /\ id \in EnabledIDs(db')
    /\ db'[id].ptype = db[id].ptype /\ db'[id].prio = db[id].prio

(* A step of the service; the evaluation dies with the process. *)
ServiceStep ==
  /\ Next
  /\ scan' =
       IF scan = None \/ ~up' THEN None
       ELSE [scan EXCEPT !.quiet = @ /\ \A p \in Request : pc'[p] = "idle",
                         !.kept = @ /\ KeepsPlaces,
                         !.steady = {id \in @ : db'[id] = db[id]}]

EvaluationStep == ListPage \/ AskNext \/ EndEvaluation

EvaluationInit == Init /\ scan = None

EvaluationNext ==
  BeginEvaluation \/ EvaluationStep \/ StopEvaluation \/ ServiceStep

EvaluationSpec ==
  /\ EvaluationInit /\ [][EvaluationNext]_evaluationVars
  /\ WF_evaluationVars(EvaluationStep)

-----------------------------------------------------------------------------
(* Properties *)

(* An evaluation no mutation overlapped asks every enabled policy once, in
   the order of type and priority, with the Rego that is stored, whatever
   mutations, refusals and restarts came before. *)
QuietEvaluationIsExact ==
  Done /\ scan.quiet =>
    \E ids \in InOrder(db) :
      scan.asked = [i \in DOMAIN ids |->
                      <<ids[i], db[ids[i]].ptype, db[ids[i]].rego>>]

(* An evaluation asks every policy that was enabled and unchanged from its
   beginning to its end, whatever others are created or changed around it,
   unless one of them gives up its place, by a rollback perhaps: the next
   offset may then point past a policy nobody touched. *)
SteadyPoliciesAsked ==
  Done /\ scan.kept =>
    \A id \in scan.steady : \E i \in DOMAIN scan.asked : scan.asked[i][1] = id

(* Every evaluation ends, however the table changes under it. *)
EvaluationEnds == scan # None ~> scan = None

=============================================================================
