--------------------------- MODULE PolicyService ---------------------------
(***************************************************************************)
(* internal/service/policy.go over the store and the engine: every request *)
(* is a goroutine that reads and writes the database, lists it, compiles   *)
(* the list into the engine and, when that fails, undoes its write.  Each  *)
(* store call and each engine call is one step; nothing in the service     *)
(* keeps two requests from interleaving between them.                      *)
(*                                                                         *)
(* The environment may cancel a request's context, make a store call fail  *)
(* with or without having taken effect, or crash the process, which loses  *)
(* the engine and keeps the database.                                      *)
(***************************************************************************)
EXTENDS PolicyStore, OpaEngine

CONSTANTS
  Request,      \* slots for requests in flight
  CreateBody,   \* bodies of POST /policies the clients send
  PatchBody,    \* bodies of PATCH /policies/{id} the clients send
  BadID,        \* a client-specified id that does not match idPattern
  MayCancel,    \* may clients disconnect?
  MayFail,      \* may store calls fail, or their answers be lost?
  MayCrash      \* may the process die?

VARIABLES
  up,           \* the process serves requests
  pc,           \* pc[p]: the call request p makes next, "idle" for none
  job,          \* job[p]: the local variables of p's handler, None when idle
  sent,         \* the response the last step sent, None if it sent none
  alone         \* history: no request overlapped p since p began

vars == <<db, queries, up, pc, job, sent, alone>>

(* A request body: every field may be absent.  readOnly says that the body
   carries an id, path, create_time or update_time other than the row's. *)
Body == [name: DisplayName \cup {Blank, None}, ptype: PolicyType \cup {None},
         prio: Int \cup {None}, rego: Rego \cup {Blank, None},
         enabled: BOOLEAN \cup {None}, readOnly: BOOLEAN]

Response == [to: Request,
             outcome: {"ok", "invalid", "notfound", "exists", "internal"}]

ASSUME EnvironmentAssumption ==
  /\ CreateBody \subseteq Body /\ PatchBody \subseteq Body
  /\ BadID \notin PolicyID /\ None \notin PolicyID \cup Response \cup Row
  /\ MayCancel \in BOOLEAN /\ MayFail \in BOOLEAN /\ MayCrash \in BOOLEAN

(* patch: the PATCH body; row: the row to write; prev: the row as it was
   read (for a delete, a history of the row removed); snap: the modules
   ListAll returned; check: the read mapUniqueConstraintError is at; live:
   the request's context is not cancelled. *)
Job == [op: {"create", "update", "delete"}, id: PolicyID,
        patch: PatchBody \cup {None}, row: Row \cup {None},
        prev: Row \cup {None}, snap: ModuleMap, check: 1 .. 3, live: BOOLEAN]

BeforeWrite == {"insert", "get", "write", "remove", "classify"}
AfterWrite == {"list", "compile", "rollback"}

TypeOK ==
  /\ db \in Table
  /\ queries \in ModuleMap
  /\ up \in BOOLEAN
  /\ pc \in [Request -> {"idle"} \cup BeforeWrite \cup AfterWrite]
  /\ job \in [Request -> Job \cup {None}]
  /\ sent \in Response \cup {None}
  /\ alone \in [Request -> BOOLEAN]

-----------------------------------------------------------------------------
(* Pure parts of the handlers. *)

DefaultPriority == 500

Or(value, default) == IF value = None THEN default ELSE value

(* Fault: the lower bound of validatePriority is forgotten. *)
PriorityOnlyBelowMax(prio) == prio = None \/ prio <= MaxPriority

PriorityOK(prio) == prio = None \/ prio \in Priority

ValidPost(body) ==
  /\ body.name \notin {None, Blank}
  /\ body.ptype # None
  /\ body.rego \notin {None, Blank}
  /\ PriorityOK(body.prio)

ValidPatch(patch) == patch.rego # Blank /\ PriorityOK(patch.prio)

(* APIToDBModel on the body of a POST. *)
NewRow(body) ==
  [name |-> body.name, ptype |-> body.ptype,
   prio |-> Or(body.prio, DefaultPriority), rego |-> body.rego,
   enabled |-> Or(body.enabled, TRUE)]

(* validatePatchImmutableFields *)
KeepsImmutable(patch, row) ==
  /\ ~patch.readOnly
  /\ patch.ptype \in {None, row.ptype}

(* Fault: an absent enabled takes APIToDBModel's default, not the row's. *)
MergeWithDefaults(patch, row) ==
  [name |-> Or(patch.name, row.name), ptype |-> row.ptype,
   prio |-> Or(patch.prio, row.prio), rego |-> Or(patch.rego, row.rego),
   enabled |-> Or(patch.enabled, TRUE)]

(* mergePolicyOntoPolicy, then APIToDBModel: the fields a patch omits are
   those of the row that was read. *)
Merge(patch, row) ==
  [name |-> Or(patch.name, row.name), ptype |-> row.ptype,
   prio |-> Or(patch.prio, row.prio), rego |-> Or(patch.rego, row.rego),
   enabled |-> Or(patch.enabled, row.enabled)]

(* idPattern applies to client-specified ids; uuid.New() is fresh. *)
FreshID == {id \in PolicyID : db[id] = None
                              /\ \A p \in Request : job[p] # None => job[p].id # id}

-----------------------------------------------------------------------------
(* How a request starts, goes on and ends. *)

Begin(p, j, at) ==
  /\ up /\ pc[p] = "idle"
  /\ job' = [job EXCEPT ![p] = j]
  /\ pc' = [pc EXCEPT ![p] = at]
  /\ sent' = None
  /\ alone' = [q \in Request |->
                 q = p /\ \A r \in Request \ {p} : pc[r] = "idle"]
  /\ UNCHANGED <<db, queries, up>>

(* Validation fails before any call is made. *)
Refuse(p) ==
  /\ up /\ pc[p] = "idle"
  /\ sent' = [to |-> p, outcome |-> "invalid"]
  /\ UNCHANGED <<db, queries, up, pc, job, alone>>

Finish(p, outcome) ==
  /\ pc' = [pc EXCEPT ![p] = "idle"]
  /\ job' = [job EXCEPT ![p] = None]
  /\ sent' = [to |-> p, outcome |-> outcome]
  /\ alone' = [alone EXCEPT ![p] = FALSE]
  /\ UNCHANGED up

GoTo(p, at) ==
  /\ pc' = [pc EXCEPT ![p] = at]
  /\ sent' = None
  /\ UNCHANGED <<up, alone>>

(* The store call at pc is made with a context that is not cancelled; a call
   that fails instead is StoreError. *)
Calls(p, at) == pc[p] = at /\ job[p].live

NewJob(op, id) ==
  [op |-> op, id |-> id, patch |-> None, row |-> None, prev |-> None,
   snap |-> NoModules, check |-> 1, live |-> TRUE]

(* Fault: only a create recompiles. *)
IsCreate(j) == j.op = "create"

IsRegoChange(j) == j.op = "create" \/ (j.op = "update" /\ j.patch.rego # None)

(* Fault: every request only logs that recompileEngine failed. *)
RecompileFailureLogged(p) == Finish(p, "ok")

(* recompileEngine failed: a delete only logs it, a create or an update
   undoes its write. *)
RecompileFailed(p) ==
  IF job[p].op = "delete"
  THEN Finish(p, "ok")
  ELSE /\ job' = [job EXCEPT ![p].snap = NoModules]
       /\ GoTo(p, "rollback")

-----------------------------------------------------------------------------
(* CreatePolicy *)

CreateAccepted(body, clientID) ==
  ValidPost(body) /\ clientID # BadID /\ ValidateRego(body.rego)

BeginCreate(p, body, clientID) ==
  IF CreateAccepted(body, clientID)
  THEN \E id \in IF clientID = None THEN FreshID ELSE {clientID} :
         Begin(p, [NewJob("create", id) EXCEPT !.row = NewRow(body)], "insert")
  ELSE Refuse(p)

Insert(p) ==
  LET j == job[p] IN
  /\ Calls(p, "insert")
  /\ UNCHANGED <<queries, job>>
  /\ IF CanCreate(db, j.id, j.row)
     THEN db' = Created(db, j.id, j.row) /\ GoTo(p, "list")
     ELSE UNCHANGED db /\ GoTo(p, "classify")

-----------------------------------------------------------------------------
(* UpdatePolicy *)

BeginUpdate(p, id, patch) ==
  IF ValidPatch(patch)
  THEN Begin(p, [NewJob("update", id) EXCEPT !.patch = patch], "get")
  ELSE Refuse(p)

Read(p) ==
  LET j == job[p]
      row == db[j.id]
      acceptable == /\ KeepsImmutable(j.patch, row)
                    /\ j.patch.rego # None => ValidateRego(j.patch.rego)
  IN
  /\ Calls(p, "get")
  /\ UNCHANGED <<db, queries>>
  /\ CASE row = None -> Finish(p, "notfound")
       [] row # None /\ ~acceptable -> Finish(p, "invalid")
       [] row # None /\ acceptable ->
            /\ job' = [job EXCEPT ![p].prev = row, ![p].row = Merge(j.patch, row)]
            /\ GoTo(p, "write")

Write(p) ==
  LET j == job[p] IN
  /\ Calls(p, "write")
  /\ UNCHANGED queries
  /\ CASE db[j.id] = None -> Finish(p, "notfound") /\ UNCHANGED db
       [] CanUpdate(db, j.id, j.row) ->
            /\ db' = Updated(db, j.id, j.row)
            /\ IF IsRegoChange(j)
               THEN GoTo(p, "list") /\ UNCHANGED job
               ELSE Finish(p, "ok")
       [] OTHER -> GoTo(p, "classify") /\ UNCHANGED <<db, job>>

-----------------------------------------------------------------------------
(* DeletePolicy *)

BeginDelete(p, id) == Begin(p, NewJob("delete", id), "remove")

Remove(p) ==
  LET id == job[p].id IN
  /\ Calls(p, "remove")
  /\ UNCHANGED queries
  /\ IF db[id] = None
     THEN Finish(p, "notfound") /\ UNCHANGED db
     ELSE /\ db' = Deleted(db, id)
          /\ job' = [job EXCEPT ![p].prev = db[id]]
          /\ GoTo(p, "list")

-----------------------------------------------------------------------------
(* What the three share. *)

(* Fault: the loop over the three reads does not advance. *)
ClassifyAgain(p) ==
  LET j == job[p] IN
  /\ Calls(p, "classify")
  /\ UNCHANGED <<db, queries>>
  /\ IF ClashFound(db, j.check, j.id, j.row, j.op = "update")
     THEN Finish(p, "exists")
     ELSE GoTo(p, "classify") /\ UNCHANGED job

(* One read of mapUniqueConstraintError; no read finding the clash leaves
   the raw database error, which is an internal error to the client. *)
Classify(p) ==
  LET j == job[p] IN
  /\ Calls(p, "classify")
  /\ UNCHANGED <<db, queries>>
  /\ IF ClashFound(db, j.check, j.id, j.row, j.op = "update")
     THEN Finish(p, "exists")
     ELSE IF j.check = 3
     THEN Finish(p, "internal")
     ELSE /\ job' = [job EXCEPT ![p].check = @ + 1]
          /\ GoTo(p, "classify")

(* recompileEngine is a ListAll and a Compile: two steps. *)
List(p) ==
  /\ Calls(p, "list")
  /\ job' = [job EXCEPT ![p].snap = ModulesOf(db)]
  /\ GoTo(p, "compile")
  /\ UNCHANGED <<db, queries>>

Recompile(p) ==
  /\ pc[p] = "compile"
  /\ UNCHANGED db
  /\ \/ SwapQueries(job[p].snap) /\ Finish(p, "ok")
     \/ KeepQueries(job[p].snap) /\ RecompileFailed(p)

(* Fault: only a create is undone. *)
UndoCreate(j) == IF j.op = "create" THEN Deleted(db, j.id) ELSE db

(* A rollback that cannot be done (the row is gone, or its old values are
   taken) is only logged. *)
Undo(j) ==
  CASE j.op = "create" -> Deleted(db, j.id)
    [] j.op = "update" /\ CanUpdate(db, j.id, j.prev) -> Updated(db, j.id, j.prev)
    [] OTHER -> db

(* Fault: a failed recompilation is answered like Rego that does not parse. *)
RollbackBlamingRego(p) ==
  /\ Calls(p, "rollback")
  /\ db' = Undo(job[p])
  /\ Finish(p, "invalid")
  /\ UNCHANGED queries

Rollback(p) ==
  /\ Calls(p, "rollback")
  /\ db' = Undo(job[p])
  /\ Finish(p, "internal")
  /\ UNCHANGED queries

(* Fault: a failing ListAll counts as nothing to compile. *)
StoreErrorSkipsCompile(p) ==
  /\ pc[p] \notin {"idle", "compile"}
  /\ MayFail \/ ~job[p].live
  /\ UNCHANGED <<db, queries>>
  /\ Finish(p, IF pc[p] = "list" THEN "ok" ELSE "internal")

(* Any store call may fail, and fails when the context is cancelled. *)
StoreError(p) ==
  /\ pc[p] \notin {"idle", "compile"}
  /\ MayFail \/ ~job[p].live
  /\ UNCHANGED <<db, queries>>
  /\ IF pc[p] = "list" THEN RecompileFailed(p) ELSE Finish(p, "internal")

(* A statement takes effect and its answer is lost on the way: the service
   takes it for one that failed. *)
LoseAnswer(p) ==
  LET j == job[p] IN
  /\ MayFail
  /\ pc[p] \in {"insert", "write", "remove"} /\ j.live
  /\ \/ /\ pc[p] = "insert" /\ CanCreate(db, j.id, j.row)
        /\ db' = Created(db, j.id, j.row)
     \/ /\ pc[p] = "write" /\ CanUpdate(db, j.id, j.row)
        /\ db' = Updated(db, j.id, j.row)
     \/ /\ pc[p] = "remove" /\ db[j.id] # None
        /\ db' = Deleted(db, j.id)
  /\ Finish(p, "internal")
  /\ UNCHANGED queries

Cancel(p) ==
  /\ MayCancel
  /\ pc[p] # "idle" /\ job[p].live
  /\ job' = [job EXCEPT ![p].live = FALSE]
  /\ sent' = None
  /\ UNCHANGED <<db, queries, up, pc, alone>>

-----------------------------------------------------------------------------
(* The process *)

(* run compiles the stored policies before it serves, and exits if it
   cannot. *)
Start ==
  /\ ~up
  /\ SwapQueries(ModulesOf(db))
  /\ up' = TRUE
  /\ sent' = None
  /\ UNCHANGED <<db, pc, job, alone>>

Crash ==
  /\ MayCrash /\ up
  /\ up' = FALSE
  /\ queries' = NoModules
  /\ pc' = [p \in Request |-> "idle"]
  /\ job' = [p \in Request |-> None]
  /\ sent' = None
  /\ alone' = [p \in Request |-> FALSE]
  /\ UNCHANGED db

Init ==
  /\ db = [id \in PolicyID |-> None]
  /\ queries = NoModules
  /\ up = FALSE
  /\ pc = [p \in Request |-> "idle"]
  /\ job = [p \in Request |-> None]
  /\ sent = None
  /\ alone = [p \in Request |-> FALSE]

Arrival(p) ==
  \/ \E body \in CreateBody, id \in PolicyID \cup {None, BadID} :
       BeginCreate(p, body, id)
  \/ \E id \in PolicyID, patch \in PatchBody : BeginUpdate(p, id, patch)
  \/ \E id \in PolicyID : BeginDelete(p, id)

Step(p) ==
  \/ Insert(p) \/ Read(p) \/ Write(p) \/ Remove(p) \/ Classify(p)
  \/ List(p) \/ Recompile(p) \/ Rollback(p)
  \/ StoreError(p) \/ LoseAnswer(p)

Next ==
  \/ \E p \in Request : Arrival(p) \/ Step(p) \/ Cancel(p)
  \/ Start \/ Crash

(* A goroutine the runtime can run does run, and the process is started
   again after it died.  Clients, cancellations, store failures and crashes
   owe nothing. *)
Fairness == WF_vars(Start) /\ \A p \in Request : WF_vars(Step(p))

Spec == Init /\ [][Next]_vars /\ Fairness

-----------------------------------------------------------------------------
(* Properties *)

Quiescent == up /\ \A p \in Request : pc[p] = "idle"

(* The step answers the request in flight in slot p. *)
Answers(p, outcome) == pc[p] # "idle" /\ sent' = [to |-> p, outcome |-> outcome]

(* When no request is in flight the engine has exactly the stored policies,
   unless a delete left policies that do not compile without it: the engine
   is the cache of the database that every mutation rebuilds. *)
EngineMatchesDB ==
  Quiescent /\ Compiles(ModulesOf(db)) => queries = ModulesOf(db)

(* Only Rego that ValidateRego accepted is ever stored, whatever is merged
   or rolled back. *)
StoredRegoParses ==
  \A id \in PolicyID : db[id] # None => db[id].rego \in ParsableRego

(* A create or a change of Rego that overlapped no other request and was
   acknowledged leaves the engine equal to the database, however far apart
   earlier requests, failures or cancellations had left the two. *)
SoloMutationHeals ==
  [][\A p \in Request :
       Answers(p, "ok") /\ alone[p] /\ IsRegoChange(job[p])
         => queries' = ModulesOf(db')]_vars

(* A request whose recompilation failed leaves the row as it found it. *)
RollbackRestores ==
  [][\A p \in Request :
       Answers(p, "internal") /\ pc[p] = "rollback" => db'[job[p].id] = job[p].prev]_vars

(* A PATCH changes no field its body omits. *)
PatchKeepsOmitted ==
  [][\A p \in Request : Write(p) /\ db' # db =>
       LET j == job[p] IN
       /\ j.patch.name = None => db'[j.id].name = db[j.id].name
       /\ j.patch.prio = None => db'[j.id].prio = db[j.id].prio
       /\ j.patch.rego = None => db'[j.id].rego = db[j.id].rego
       /\ j.patch.enabled = None => db'[j.id].enabled = db[j.id].enabled]_vars

(* policy_type never changes while a row exists, even when the row was
   deleted and created again between the read and the write of an update. *)
PolicyTypeImmutable ==
  [][\A id \in PolicyID :
       db[id] # None /\ db'[id] # None => db'[id].ptype = db[id].ptype]_vars

(* Every request is answered, unless the process dies first. *)
Responds == \A p \in Request : pc[p] # "idle" ~> pc[p] = "idle"

=============================================================================
