--------------------------- MODULE PolicyListWalk ---------------------------
(***************************************************************************)
(* A client of GET /policies that follows next_page_token from page to     *)
(* page, beside the mutations of PolicyService.  The server keeps nothing  *)
(* between two pages: a token is an offset into whatever the table is when *)
(* the next page is asked for, rows included that a rollback will remove.  *)
(***************************************************************************)
EXTENDS PolicyService, PolicyListing

CONSTANTS
  ListRequest,  \* the filter, order_by and max_page_size clients send
  Refused       \* ListPolicies answered INVALID_ARGUMENT

ASSUME ListAssumption ==
  ListRequest \subseteq [expr: Expr, orderBy: Seq(Seq(STRING)), size: Int \cup {None}]

VARIABLES
  walk,  \* the walk in progress, None, or Refused
  older, \* the pairs of stored ids of which the first has the earlier create_time
  since  \* history: the ids inserted while a create was at its INSERT

walkVars == <<vars, walk, older, since>>

(* req: what the client asks for; token: where the next page starts, None after
   the last; listed: the policies of the pages so far.  Histories of the table
   since the walk began: start, the policies that matched then; kept, no row was
   removed or changed; added, no row was added or changed. *)
Walk == [req: ListRequest, token: Nat \cup {None}, listed: Seq(PolicyID),
         start: SUBSET PolicyID, kept: BOOLEAN, added: BOOLEAN]

Walking == walk \notin {None, Refused}

WalkTypeOK ==
  /\ walk \in Walk \cup {None, Refused}
  /\ older \in SUBSET (PolicyID \X PolicyID)
  /\ since \in [Request -> SUBSET PolicyID]

-----------------------------------------------------------------------------
(* ListPolicies *)

FilterOf(req) == ParsedFilter(req.expr)
TermsOf(req) == ParsedOrderBy(req.orderBy)

Accepted(req) ==
  /\ FilterAccepted(req.expr)
  /\ OrderByAccepted(req.orderBy)
  /\ PageSizeAccepted(req.size)

BeginWalk(req) ==
  /\ up /\ walk = None
  /\ walk' =
       IF Accepted(req)
       THEN [req |-> req, token |-> 0, listed |-> <<>>,
             start |-> Where(db, FilterOf(req)),
             kept |-> TRUE, added |-> TRUE]
       ELSE Refused
  /\ UNCHANGED <<vars, older, since>>

NextPage ==
  /\ up /\ Walking /\ walk.token # None
  /\ LET size == PageSizeOf(walk.req.size)
     IN \E rows \in Results(db, older, FilterOf(walk.req), TermsOf(walk.req)) :
          walk' = [walk EXCEPT
                     !.listed = @ \o Page(rows, walk.token, size),
                     !.token = NextOffset(rows, walk.token, size)]
  /\ UNCHANGED <<vars, older, since>>

Complete == Walking /\ walk.token = None

EndWalk ==
  /\ walk = Refused \/ Complete
  /\ walk' = None
  /\ UNCHANGED <<vars, older, since>>

(* The query fails, or the client does not ask for the next page. *)
AbandonWalk ==
  /\ Walking /\ ~Complete
  /\ walk' = None
  /\ UNCHANGED <<vars, older, since>>

(* GORM stamps create_time before it sends the INSERT: the row of a create may
   be older than rows that were inserted while the create was at it.  late: the
   rows it turns out to be older than. *)
Stamp(late) ==
  LET Inserted(id) == db[id] = None /\ db'[id] # None
  IN older' = {pair \in PolicyID \X PolicyID :
                 LET a == pair[1]
                     b == pair[2]
                 IN /\ db'[a] # None /\ db'[b] # None
                    /\ \/ pair \in older
                       \/ db[a] # None /\ Inserted(b) /\ a \notin late
                       \/ Inserted(a) /\ db[b] # None /\ b \in late}

Overtaken(p) == IF pc[p] = "insert" /\ pc'[p] # "insert" THEN since[p] ELSE {}

(* A step of the service, and what it does to the order of create_time: an
   update leaves the column alone. *)
Mutate ==
  /\ Next
  /\ \E late \in SUBSET UNION {Overtaken(p) : p \in Request} :
       /\ \A pair \in older : pair[1] \in late => pair[2] \in late
       /\ Stamp(late)
  /\ since' = [p \in Request |->
                 IF pc'[p] # "insert" THEN {}
                 ELSE since[p] \cup {id \in PolicyID : db[id] = None /\ db'[id] # None}]
  /\ walk' =
       IF ~Walking THEN walk
       ELSE [walk EXCEPT
               !.kept = @ /\ \A id \in PolicyID : db[id] \in {None, db'[id]},
               !.added = @ /\ \A id \in PolicyID : db'[id] \in {None, db[id]}]

WalkInit ==
  Init /\ walk = None /\ older = {} /\ since = [p \in Request |-> {}]

WalkNext ==
  \/ \E req \in ListRequest : BeginWalk(req)
  \/ NextPage \/ EndWalk \/ AbandonWalk \/ Mutate

(* A client that walks asks for the next page, and the process serves it. *)
WalkSpec ==
  /\ WalkInit /\ [][WalkNext]_walkVars
  /\ WF_walkVars(NextPage) /\ WF_walkVars(EndWalk)

-----------------------------------------------------------------------------
(* Properties *)

Times(id) == Cardinality({i \in DOMAIN walk.listed : walk.listed[i] = id})

(* The terms decide on columns that are unique together: the key, the time
   of creation, or one of the two unique indexes, whose policy_type may be
   given by the filter. *)
UniqueOrder(req) ==
  LET given == {TermsOf(req)[i].field : i \in DOMAIN TermsOf(req)}
      fixed == IF FilterOf(req).ptype = None THEN {} ELSE {"policy_type"}
  IN \E key \in {{"id"}, {"create_time"}, {"policy_type", "priority"},
                 {"policy_type", "display_name"}} : key \subseteq given \cup fixed

(* The clauses of a filter joined by AND, as the API describes them. *)
Selects(expr, row) ==
  \A i \in DOMAIN expr.clauses :
    LET c == expr.clauses[i]
    IN CASE c.field = "policy_type" -> row.ptype = c.value
         [] c.field = "enabled" -> row.enabled = (c.value = "true")
         [] c.field = "other" -> FALSE

(* The filters the API supports: at most one clause on each field, all of
   them joined by AND. *)
Supported(expr) ==
  LET field(i) == expr.clauses[i].field
  IN /\ \A i \in DOMAIN expr.clauses : field(i) \in {"policy_type", "enabled"}
     /\ \A i, j \in DOMAIN expr.clauses : field(i) = field(j) => i = j
     /\ \A i \in DOMAIN expr.ops : expr.ops[i] = "AND"

(* A walk over a table that does not change, in an order on unique columns, lists
   every policy the filter selects exactly once and in that order: no row is
   lost or repeated where one page ends and the next begins. *)
QuietWalkIsExact ==
  Complete /\ walk.kept /\ walk.added /\ UniqueOrder(walk.req) /\ Supported(walk.req.expr) =>
    /\ \A id \in PolicyID :
         Times(id) = IF db[id] # None /\ Selects(walk.req.expr, db[id])
                     THEN 1 ELSE 0
    /\ \A i, j \in DOMAIN walk.listed :
         i < j => Precedes(db, older, TermsOf(walk.req), walk.listed[i], walk.listed[j])

(* While rows are only added, a walk in an order on unique columns may repeat a
   policy but misses none of those it would have listed at its start. *)
GrowingWalkMissesNothing ==
  Complete /\ walk.kept /\ UniqueOrder(walk.req) => \A id \in walk.start : Times(id) >= 1

(* While rows are only removed, a walk in an order on unique columns may miss a
   policy but repeats none. *)
ShrinkingWalkRepeatsNothing ==
  Walking /\ walk.added /\ UniqueOrder(walk.req) => \A id \in PolicyID : Times(id) <= 1

(* A client that goes on asking reaches a last page, however the table
   changes under it. *)
WalkEnds == walk # None ~> walk = None

=============================================================================
