------------------------ MODULE PolicyServiceProofs ------------------------
(***************************************************************************)
(* Theorems about PolicyService, for any number of requests in flight, any *)
(* faults and any bodies.                                                  *)
(***************************************************************************)
EXTENDS PolicyService, TLAPS

(* What the local variables j of a handler hold at the call at. *)
JobShape(at, j) ==
  /\ j \in Job
  /\ at = "insert" => j.op = "create"
  /\ at \in {"get", "write"} => j.op = "update"
  /\ at = "remove" => j.op = "delete"
  /\ at \in {"classify", "rollback"} => j.op \in {"create", "update"}
  /\ j.op = "create" => j.row \in Row
  /\ j.op = "update" => j.patch \in PatchBody /\ ValidPatch(j.patch)
  /\ j.op = "update" /\ at # "get" => j.row \in Row /\ j.prev \in Row

JobOK(p) ==
  /\ pc[p] = "idle" => job[p] = None
  /\ pc[p] # "idle" => JobShape(pc[p], job[p])

(* The rows a handler may write, or write back, hold Rego that parses. *)
ParsedJob(at, j) ==
  /\ j.op = "create" => j.row.rego \in ParsableRego
  /\ j.op = "update" /\ at # "get" =>
       j.row.rego \in ParsableRego /\ j.prev.rego \in ParsableRego

(* A request nobody overlapped compiles the database as it is. *)
AloneOK(p) ==
  alone[p] => /\ pc[p] # "idle"
              /\ \A q \in Request \ {p} : pc[q] = "idle"
              /\ pc[p] = "compile" => job[p].snap = ModulesOf(db)

(* Names and priorities are unique within a policy_type. *)
Consistent(table) ==
  \A id \in PolicyID : table[id] # None => ~UniqueClash(table, id, table[id])

JobsOK == \A p \in Request : JobOK(p)
JobsParse == \A p \in Request : pc[p] # "idle" => ParsedJob(pc[p], job[p])
AllAloneOK == \A p \in Request : AloneOK(p)

-----------------------------------------------------------------------------
(* The operators of the store and the handlers, typed. *)

(* APIToDBModel of an accepted POST body is a row. *)
LEMMA NewRowTyped ==
  ASSUME NEW body \in CreateBody, ValidPost(body)
  PROVE  NewRow(body) \in Row /\ NewRow(body).rego = body.rego
<1>1. body \in Body
  BY EnvironmentAssumption
<1>2. Or(body.prio, DefaultPriority) \in Priority
  BY <1>1 DEF Body, Or, DefaultPriority, Priority, MinPriority, MaxPriority,
              ValidPost, PriorityOK
<1>3. Or(body.enabled, TRUE) \in BOOLEAN
  BY <1>1 DEF Body, Or
<1>4. body.name \in DisplayName /\ body.ptype \in PolicyType /\ body.rego \in Rego
  BY <1>1 DEF Body, ValidPost
<1> QED
  BY <1>2, <1>3, <1>4 DEF NewRow, Row

(* A merged row is a row, and its Rego is the patch's or the row's. *)
LEMMA MergeTyped ==
  ASSUME NEW patch \in PatchBody, ValidPatch(patch), NEW row \in Row
  PROVE  /\ Merge(patch, row) \in Row
         /\ Merge(patch, row).rego = Or(patch.rego, row.rego)
<1>1. patch \in Body
  BY EnvironmentAssumption
<1>2. Or(patch.prio, row.prio) \in Priority
  BY <1>1 DEF Body, Or, Row, ValidPatch, PriorityOK
<1>3. Or(patch.enabled, row.enabled) \in BOOLEAN
  BY <1>1 DEF Body, Or, Row
<1>4. Or(patch.name, row.name) \in DisplayName \cup {Blank}
  BY <1>1 DEF Body, Or, Row
<1>5. Or(patch.rego, row.rego) \in Rego
  BY <1>1 DEF Body, Or, Row, ValidPatch
<1>6. row.ptype \in PolicyType
  BY DEF Row
<1> QED
  BY <1>2, <1>3, <1>4, <1>5, <1>6 DEF Merge, Row

(* The modules of a table are a map Compile accepts as argument. *)
LEMMA ModulesTyped ==
  ASSUME NEW table \in Table
  PROVE  ModulesOf(table) \in ModuleMap
BY DEF Table, ModulesOf, ModuleMap, Row

(* Creating, updating and deleting a row keep the table well formed. *)
LEMMA TableTyped ==
  ASSUME NEW table \in Table, NEW id \in PolicyID, NEW row \in Row
  PROVE  /\ Created(table, id, row) \in Table
         /\ table[id] # None => Updated(table, id, row) \in Table
         /\ Deleted(table, id) \in Table
<1>1. Created(table, id, row) \in Table /\ Deleted(table, id) \in Table
  BY DEF Table, Created, Deleted
<1>2. ASSUME table[id] # None PROVE Updated(table, id, row) \in Table
  <2>1. table[id] \in Row
    BY <1>2 DEF Table
  <2>2. KeepType(table, id, row) \in Row
    BY <2>1 DEF KeepType, Row
  <2> QED
    BY <2>2 DEF Updated, Table
<1> QED
  BY <1>1, <1>2

-----------------------------------------------------------------------------
(* The ways a handler's step changes the variables that belong to p. *)

(* A step of p that leaves the other slots alone keeps their jobs. *)
LEMMA OthersKeepJobs ==
  ASSUME JobsOK, NEW p \in Request, JobOK(p)',
         \A q \in Request \ {p} : pc'[q] = pc[q] /\ job'[q] = job[q]
  PROVE  JobsOK'
BY DEF JobsOK, JobOK

(* Finish answers p and clears its slot. *)
LEMMA FinishTyped ==
  ASSUME TypeOK, JobsOK, NEW p \in Request,
         NEW outcome \in {"ok", "invalid", "notfound", "exists", "internal"},
         Finish(p, outcome), db' \in Table, queries' \in ModuleMap
  PROVE  TypeOK' /\ JobsOK'
<1>1. TypeOK'
  BY DEF TypeOK, Finish, Response
<1>2. pc'[p] = "idle" /\ job'[p] = None
  BY DEF TypeOK, Finish
<1>3. JobOK(p)'
  BY <1>2 DEF JobOK
<1> QED
  BY <1>1, <1>3, OthersKeepJobs DEF Finish, TypeOK

(* GoTo moves p to its next call with the local variables j. *)
LEMMA GoToTyped ==
  ASSUME TypeOK, JobsOK, NEW p \in Request, NEW at \in BeforeWrite \cup AfterWrite,
         GoTo(p, at), NEW j, job' = [job EXCEPT ![p] = j],
         db' \in Table, queries' \in ModuleMap,
         JobShape(at, j)
  PROVE  TypeOK' /\ JobsOK'
<1>1. TypeOK'
  BY DEF TypeOK, GoTo, JobShape
<1>2. pc'[p] = at /\ job'[p] = j
  BY DEF TypeOK, GoTo
<1>3. at # "idle"
  BY DEF BeforeWrite, AfterWrite
<1>4. JobOK(p)'
  BY <1>2, <1>3 DEF JobOK
<1> QED
  BY <1>1, <1>4, OthersKeepJobs DEF GoTo, TypeOK

(* Begin puts the job j of a new request in the idle slot p. *)
LEMMA BeginTyped ==
  ASSUME TypeOK, JobsOK, NEW p \in Request, NEW at \in BeforeWrite,
         NEW j, Begin(p, j, at), JobShape(at, j)
  PROVE  TypeOK' /\ JobsOK'
<1>1. TypeOK'
  BY DEF TypeOK, Begin, JobShape
<1>2. pc'[p] = at /\ job'[p] = j
  BY DEF TypeOK, Begin
<1>3. JobOK(p)'
  BY <1>2 DEF JobOK, BeforeWrite
<1> QED
  BY <1>1, <1>3, OthersKeepJobs DEF Begin, TypeOK

(* recompileEngine failing keeps the types, whatever the request. *)
LEMMA RecompileFailedTyped ==
  ASSUME TypeOK, JobsOK, NEW p \in Request, pc[p] \in {"list", "compile"},
         RecompileFailed(p), UNCHANGED <<db, queries>>
  PROVE  TypeOK' /\ JobsOK'
<1>1. CASE job[p].op = "delete"
  BY <1>1, FinishTyped DEF RecompileFailed, TypeOK
<1>2. CASE job[p].op # "delete"
  <2>1. JobShape(pc[p], job[p])
    BY DEF JobsOK, JobOK
  <2> DEFINE j == [job[p] EXCEPT !.snap = NoModules]
  <2>2. NoModules \in ModuleMap
    BY DEF NoModules, ModuleMap
  <2>3. JobShape("rollback", j)
    BY <1>2, <2>1, <2>2 DEF JobShape, Job
  <2>4. job' = [job EXCEPT ![p] = j] /\ GoTo(p, "rollback")
    BY <1>2 DEF RecompileFailed
  <2> HIDE DEF j
  <2> QED
    BY <2>3, <2>4, GoToTyped DEF TypeOK, AfterWrite
<1> QED
  BY <1>1, <1>2

-----------------------------------------------------------------------------
(* One lemma per kind of step: types and job shapes are kept. *)

LEMMA InitTyped == Init => TypeOK /\ JobsOK
BY DEF Init, TypeOK, JobsOK, JobOK, Table, ModuleMap, NoModules

LEMMA NewJobTyped ==
  ASSUME NEW op \in {"create", "update", "delete"}, NEW id \in PolicyID
  PROVE  /\ NewJob(op, id) \in Job
         /\ NewJob(op, id).op = op
BY DEF NewJob, Job, NoModules, ModuleMap

LEMMA RefuseTyped ==
  ASSUME TypeOK, JobsOK, NEW p \in Request, Refuse(p)
  PROVE  TypeOK' /\ JobsOK'
BY DEF TypeOK, JobsOK, JobOK, Refuse, Response

LEMMA ArrivalTyped ==
  ASSUME TypeOK, JobsOK, NEW p \in Request, Arrival(p)
  PROVE  TypeOK' /\ JobsOK'
<1>1. ASSUME NEW body \in CreateBody, NEW clientID \in PolicyID \cup {None, BadID},
             BeginCreate(p, body, clientID)
      PROVE  TypeOK' /\ JobsOK'
  <2>1. CASE ~CreateAccepted(body, clientID)
    BY <1>1, <2>1, RefuseTyped DEF BeginCreate
  <2>2. CASE CreateAccepted(body, clientID)
    <3>1. PICK id \in IF clientID = None THEN FreshID ELSE {clientID} :
            Begin(p, [NewJob("create", id) EXCEPT !.row = NewRow(body)], "insert")
      BY <1>1, <2>2 DEF BeginCreate
    <3>2. id \in PolicyID
      BY <2>2 DEF CreateAccepted, FreshID
    <3> DEFINE j == [NewJob("create", id) EXCEPT !.row = NewRow(body)]
    <3>3. NewRow(body) \in Row
      BY <2>2, NewRowTyped DEF CreateAccepted
    <3>4. JobShape("insert", j)
      BY <3>2, <3>3, NewJobTyped DEF JobShape, Job
    <3>5. Begin(p, j, "insert")
      BY <3>1
    <3> HIDE DEF j
    <3> QED
      BY <3>4, <3>5, BeginTyped DEF BeforeWrite
  <2> QED
    BY <2>1, <2>2
<1>2. ASSUME NEW id \in PolicyID, NEW patch \in PatchBody, BeginUpdate(p, id, patch)
      PROVE  TypeOK' /\ JobsOK'
  <2>1. CASE ~ValidPatch(patch)
    BY <1>2, <2>1, RefuseTyped DEF BeginUpdate
  <2>2. CASE ValidPatch(patch)
    <3> DEFINE j == [NewJob("update", id) EXCEPT !.patch = patch]
    <3>1. JobShape("get", j)
      BY <2>2, NewJobTyped DEF JobShape, Job
    <3>2. Begin(p, j, "get")
      BY <1>2, <2>2 DEF BeginUpdate
    <3> HIDE DEF j
    <3> QED
      BY <2>2, <3>1, <3>2, BeginTyped DEF BeforeWrite
  <2> QED
    BY <2>1, <2>2
<1>3. ASSUME NEW id \in PolicyID, BeginDelete(p, id)
      PROVE  TypeOK' /\ JobsOK'
  <2> DEFINE j == NewJob("delete", id)
  <2>1. JobShape("remove", j)
    BY NewJobTyped DEF JobShape
  <2>2. Begin(p, j, "remove")
    BY <1>3 DEF BeginDelete
  <2> HIDE DEF j
  <2> QED
    BY <2>1, <2>2, BeginTyped DEF BeforeWrite
<1> QED
  BY <1>1, <1>2, <1>3 DEF Arrival

LEMMA StepTyped ==
  ASSUME TypeOK, JobsOK, NEW p \in Request, Step(p)
  PROVE  TypeOK' /\ JobsOK'
<1> DEFINE j == job[p]
<1>0. JobOK(p) /\ db \in Table /\ queries \in ModuleMap
  BY DEF JobsOK, TypeOK
<1>j. ASSUME pc[p] # "idle"
      PROVE  JobShape(pc[p], j) /\ j.id \in PolicyID
  BY <1>0, <1>j DEF JobOK, JobShape, Job
<1>s. job \in [Request -> Job \cup {None}]
  BY DEF TypeOK
<1>1. CASE Insert(p)
  <2>1. pc[p] = "insert"
    BY <1>1 DEF Insert, Calls
  <2>2. JobShape("list", j) /\ JobShape("classify", j) /\ j.row \in Row
    BY <2>1, <1>j DEF JobShape
  <2>3. job' = [job EXCEPT ![p] = j] /\ queries' = queries
    BY <1>1, <1>s DEF Insert
  <2>4. db' \in Table
    BY <1>0, <1>1, <1>j, <2>1, <2>2, TableTyped DEF Insert
  <2>5. PICK at \in {"list", "classify"} : GoTo(p, at)
    BY <1>1 DEF Insert
  <2> HIDE DEF j
  <2> QED
    BY <1>0, <2>2, <2>3, <2>4, <2>5, GoToTyped DEF BeforeWrite, AfterWrite
<1>2. CASE Read(p)
  <2>1. pc[p] = "get" /\ UNCHANGED <<db, queries>>
    BY <1>2 DEF Read, Calls
  <2>2. CASE Finish(p, "notfound") \/ Finish(p, "invalid")
    BY <1>0, <2>1, <2>2, FinishTyped
  <2>3. CASE /\ db[j.id] # None
             /\ job' = [job EXCEPT ![p].prev = db[j.id],
                                   ![p].row = Merge(j.patch, db[j.id])]
             /\ GoTo(p, "write")
    <3> DEFINE k == [j EXCEPT !.prev = db[j.id], !.row = Merge(j.patch, db[j.id])]
    <3>1. db[j.id] \in Row
      BY <1>0, <1>j, <2>1, <2>3 DEF Table
    <3>2. j.patch \in PatchBody /\ ValidPatch(j.patch) /\ j.op = "update"
      BY <1>j, <2>1 DEF JobShape
    <3>3. Merge(j.patch, db[j.id]) \in Row
      BY <3>1, <3>2, MergeTyped
    <3>4. JobShape("write", k)
      BY <1>j, <2>1, <3>1, <3>2, <3>3 DEF JobShape, Job
    <3>5. job' = [job EXCEPT ![p] = k] /\ GoTo(p, "write")
      BY <1>s, <2>3
    <3> HIDE DEF k
    <3> QED
      BY <1>0, <2>1, <3>4, <3>5, GoToTyped DEF BeforeWrite
  <2> QED
    BY <1>2, <2>2, <2>3 DEF Read
<1>3. CASE Write(p)
  <2>1. pc[p] = "write" /\ queries' = queries
    BY <1>3 DEF Write, Calls
  <2>2. JobShape("list", j) /\ JobShape("classify", j) /\ j.row \in Row
    BY <2>1, <1>j DEF JobShape
  <2>3. db' \in Table
    BY <1>0, <1>3, <1>j, <2>1, <2>2, TableTyped DEF Write, CanUpdate
  <2>4. CASE Finish(p, "notfound") \/ Finish(p, "ok")
    BY <1>0, <2>1, <2>3, <2>4, FinishTyped
  <2>5. ASSUME NEW at \in {"list", "classify"}, GoTo(p, at), UNCHANGED job
        PROVE  TypeOK' /\ JobsOK'
    <3>1. job' = [job EXCEPT ![p] = j]
      BY <1>s, <2>5
    <3> HIDE DEF j
    <3> QED
      BY <1>0, <2>1, <2>2, <2>3, <2>5, <3>1, GoToTyped DEF BeforeWrite, AfterWrite
  <2> QED
    BY <1>3, <2>4, <2>5 DEF Write
<1>4. CASE Remove(p)
  <2>1. pc[p] = "remove" /\ queries' = queries
    BY <1>4 DEF Remove, Calls
  <2>2. db' \in Table
    BY <1>0, <1>4, <1>j, <2>1 DEF Remove, Deleted, Table
  <2>3. CASE Finish(p, "notfound")
    BY <1>0, <2>1, <2>2, <2>3, FinishTyped
  <2>4. CASE /\ db[j.id] # None
             /\ job' = [job EXCEPT ![p].prev = db[j.id]]
             /\ GoTo(p, "list")
    <3> DEFINE k == [j EXCEPT !.prev = db[j.id]]
    <3>1. db[j.id] \in Row
      BY <1>0, <1>j, <2>1, <2>4 DEF Table
    <3>2. JobShape("list", k)
      BY <1>j, <2>1, <3>1 DEF JobShape, Job
    <3>3. job' = [job EXCEPT ![p] = k] /\ GoTo(p, "list")
      BY <1>s, <2>4
    <3> HIDE DEF k
    <3> QED
      BY <1>0, <2>1, <2>2, <3>2, <3>3, GoToTyped DEF AfterWrite
  <2> QED
    BY <1>4, <2>3, <2>4 DEF Remove
<1>5. CASE Classify(p)
  <2>1. pc[p] = "classify" /\ UNCHANGED <<db, queries>>
    BY <1>5 DEF Classify, Calls
  <2>2. CASE Finish(p, "exists") \/ Finish(p, "internal")
    BY <1>0, <2>1, <2>2, FinishTyped
  <2>3. CASE /\ j.check # 3
             /\ job' = [job EXCEPT ![p].check = @ + 1]
             /\ GoTo(p, "classify")
    <3> DEFINE k == [j EXCEPT !.check = @ + 1]
    <3>1. j.check \in 1 .. 3
      BY <1>j, <2>1 DEF JobShape, Job
    <3>2. j.check + 1 \in 1 .. 3
      BY <2>3, <3>1
    <3>3. JobShape("classify", k)
      BY <1>j, <2>1, <3>2 DEF JobShape, Job
    <3>4. job' = [job EXCEPT ![p] = k] /\ GoTo(p, "classify")
      BY <1>s, <2>3
    <3> HIDE DEF k
    <3> QED
      BY <1>0, <2>1, <3>3, <3>4, GoToTyped DEF BeforeWrite
  <2> QED
    BY <1>5, <2>2, <2>3 DEF Classify
<1>6. CASE List(p)
  <2>1. pc[p] = "list" /\ UNCHANGED <<db, queries>> /\ GoTo(p, "compile")
    BY <1>6 DEF List, Calls
  <2> DEFINE k == [j EXCEPT !.snap = ModulesOf(db)]
  <2>2. ModulesOf(db) \in ModuleMap
    BY <1>0, ModulesTyped
  <2>3. JobShape("compile", k)
    BY <1>j, <2>1, <2>2 DEF JobShape, Job
  <2>4. job' = [job EXCEPT ![p] = k]
    BY <1>6, <1>s DEF List
  <2> HIDE DEF k
  <2> QED
    BY <1>0, <2>1, <2>3, <2>4, GoToTyped DEF AfterWrite
<1>7. CASE Recompile(p)
  <2>1. pc[p] = "compile" /\ db' = db
    BY <1>7 DEF Recompile
  <2>2. CASE SwapQueries(j.snap) /\ Finish(p, "ok")
    <3>1. queries' \in ModuleMap
      BY <1>j, <2>1, <2>2 DEF SwapQueries, JobShape, Job
    <3> QED
      BY <1>0, <2>1, <2>2, <3>1, FinishTyped
  <2>3. CASE KeepQueries(j.snap) /\ RecompileFailed(p)
    BY <2>1, <2>3, RecompileFailedTyped DEF KeepQueries
  <2> QED
    BY <1>7, <2>2, <2>3 DEF Recompile
<1>8. CASE Rollback(p)
  <2>1. pc[p] = "rollback"
    BY <1>8 DEF Rollback, Calls
  <2>2. Undo(j) \in Table
    <3>1. Deleted(db, j.id) \in Table
      BY <1>0, <1>j, <2>1 DEF Deleted, Table
    <3>2. ASSUME j.op = "update", CanUpdate(db, j.id, j.prev)
          PROVE  Updated(db, j.id, j.prev) \in Table
      BY <1>0, <1>j, <2>1, <3>2, TableTyped DEF CanUpdate, JobShape
    <3> QED
      BY <1>0, <3>1, <3>2 DEF Undo
  <2>3. db' \in Table /\ queries' = queries /\ Finish(p, "internal")
    BY <1>8, <2>2 DEF Rollback
  <2> QED
    BY <1>0, <2>3, FinishTyped
<1>9. CASE StoreError(p)
  <2>1. UNCHANGED <<db, queries>>
    BY <1>9 DEF StoreError
  <2>2. CASE pc[p] = "list"
    BY <1>9, <2>1, <2>2, RecompileFailedTyped DEF StoreError
  <2>3. CASE pc[p] # "list"
    BY <1>0, <1>9, <2>1, <2>3, FinishTyped DEF StoreError
  <2> QED
    BY <2>2, <2>3
<1>10. CASE LoseAnswer(p)
  <2>1. /\ pc[p] \in {"insert", "write", "remove"}
        /\ queries' = queries /\ Finish(p, "internal")
    BY <1>10 DEF LoseAnswer
  <2>2. pc[p] \in {"insert", "write"} => j.row \in Row
    BY <1>j DEF JobShape
  <2>3. db' \in Table
    <3>1. j.id \in PolicyID
      BY <1>j, <2>1
    <3>2. Deleted(db, j.id) \in Table
      BY <1>0, <3>1 DEF Deleted, Table
    <3>3. CASE pc[p] = "insert" /\ db' = Created(db, j.id, j.row)
      BY <1>0, <2>2, <3>1, <3>3, TableTyped
    <3>4. CASE pc[p] = "write" /\ db[j.id] # None /\ db' = Updated(db, j.id, j.row)
      BY <1>0, <2>2, <3>1, <3>4, TableTyped
    <3> QED
      BY <1>10, <3>2, <3>3, <3>4 DEF LoseAnswer, CanUpdate
  <2> QED
    BY <1>0, <2>1, <2>3, FinishTyped
<1> QED
  BY <1>1, <1>2, <1>3, <1>4, <1>5, <1>6, <1>7, <1>8, <1>9, <1>10 DEF Step

LEMMA NextTyped ==
  ASSUME TypeOK, JobsOK, [Next]_vars
  PROVE  TypeOK' /\ JobsOK'
<1>1. ASSUME NEW p \in Request, Arrival(p) \/ Step(p)
      PROVE  TypeOK' /\ JobsOK'
  BY <1>1, ArrivalTyped, StepTyped
<1>2. ASSUME NEW p \in Request, Cancel(p)
      PROVE  TypeOK' /\ JobsOK'
  <2> DEFINE k == [job[p] EXCEPT !.live = FALSE]
  <2>1. pc[p] # "idle" /\ JobShape(pc[p], job[p])
    BY <1>2 DEF Cancel, JobsOK, JobOK
  <2>2. JobShape(pc[p], k)
    BY <2>1 DEF JobShape, Job
  <2>3. job' = [job EXCEPT ![p] = k] /\ pc' = pc
    BY <1>2 DEF Cancel, TypeOK
  <2>4. k \in Job
    BY <2>2 DEF JobShape
  <2> HIDE DEF k
  <2>5. TypeOK'
    BY <1>2, <2>3, <2>4 DEF TypeOK, Cancel
  <2>6. JobOK(p)'
    BY <2>1, <2>2, <2>3 DEF JobOK, TypeOK
  <2> QED
    BY <2>3, <2>5, <2>6, OthersKeepJobs DEF TypeOK
<1>3. CASE Start
  <2>1. queries' \in ModuleMap
    BY <1>3, ModulesTyped DEF Start, SwapQueries, TypeOK
  <2> QED
    BY <1>3, <2>1 DEF Start, TypeOK, JobsOK, JobOK
<1>4. CASE Crash
  BY <1>4 DEF Crash, TypeOK, JobsOK, JobOK, NoModules, ModuleMap
<1>5. CASE UNCHANGED vars
  BY <1>5 DEF vars, TypeOK, JobsOK, JobOK
<1> QED
  BY <1>1, <1>2, <1>3, <1>4, <1>5 DEF Next

(* Every variable keeps its type, and every handler's local variables hold
   what its next call needs, in every behaviour of the service. *)
THEOREM Typing == Spec => [](TypeOK /\ JobsOK)
<1>1. Init => TypeOK /\ JobsOK
  BY InitTyped
<1>2. TypeOK /\ JobsOK /\ [Next]_vars => (TypeOK /\ JobsOK)'
  BY NextTyped
<1> QED
  BY <1>1, <1>2, PTL DEF Spec

(* The type invariant of the model-checking runs, for every instance. *)
THEOREM TypeCorrect == Spec => []TypeOK
BY Typing, PTL

-----------------------------------------------------------------------------
(* policy_type *)

(* The only writes to the table are the store's three statements. *)
LEMMA TableWrites ==
  ASSUME TypeOK, JobsOK, [Next]_vars
  PROVE  \/ db' = db
         \/ \E id \in PolicyID : db' = Deleted(db, id)
         \/ \E id \in PolicyID, row \in Row :
              \/ CanCreate(db, id, row) /\ db' = Created(db, id, row)
              \/ CanUpdate(db, id, row) /\ db' = Updated(db, id, row)
<1>1. ASSUME NEW p \in Request, Step(p)
      PROVE  \/ db' = db
             \/ \E id \in PolicyID : db' = Deleted(db, id)
             \/ \E id \in PolicyID, row \in Row :
                  \/ CanCreate(db, id, row) /\ db' = Created(db, id, row)
                  \/ CanUpdate(db, id, row) /\ db' = Updated(db, id, row)
  <2> DEFINE j == job[p]
  <2>1. pc[p] # "idle" => JobShape(pc[p], j) /\ j.id \in PolicyID
    BY DEF JobsOK, JobOK, JobShape, Job
  <2>2. CASE Insert(p)
    BY <2>1, <2>2 DEF Insert, Calls, JobShape
  <2>3. CASE Write(p)
    BY <2>1, <2>3 DEF Write, Calls, JobShape
  <2>4. CASE Remove(p)
    BY <2>1, <2>4 DEF Remove, Calls
  <2>5. CASE Rollback(p)
    <3>1. pc[p] = "rollback" /\ db' = Undo(j)
      BY <2>5 DEF Rollback, Calls
    <3>2. CASE j.op = "create"
      BY <2>1, <3>1, <3>2 DEF Undo
    <3>3. CASE j.op = "update"
      BY <2>1, <3>1, <3>3 DEF Undo, JobShape
    <3> QED
      BY <2>1, <3>1, <3>2, <3>3 DEF JobShape
  <2>6. CASE Read(p) \/ Classify(p) \/ List(p) \/ Recompile(p) \/ StoreError(p)
    BY <2>6 DEF Read, Classify, List, Recompile, StoreError
  <2>7. CASE LoseAnswer(p)
    BY <2>1, <2>7 DEF LoseAnswer, JobShape
  <2> QED
    BY <1>1, <2>2, <2>3, <2>4, <2>5, <2>6, <2>7 DEF Step
<1>2. ASSUME NEW p \in Request, Arrival(p) \/ Cancel(p)
      PROVE  db' = db
  BY <1>2 DEF Arrival, BeginCreate, BeginUpdate, BeginDelete, Begin, Refuse, Cancel
<1>3. CASE Start \/ Crash \/ UNCHANGED vars
  BY <1>3 DEF Start, Crash, vars
<1> QED
  BY <1>1, <1>2, <1>3 DEF Next

(* The store's statements keep the rows consistent. *)

LEMMA StatementsKeepConsistent ==
  ASSUME NEW table \in Table, Consistent(table), NEW id \in PolicyID, NEW row \in Row
  PROVE  /\ CanCreate(table, id, row) => Consistent(Created(table, id, row))
         /\ CanUpdate(table, id, row) => Consistent(Updated(table, id, row))
         /\ Consistent(Deleted(table, id))
<1> USE DEF Consistent, UniqueClash, NameTaken, PriorityTaken,
            SameName, SamePriority
<1>1. ASSUME NEW r \in Row, ~UniqueClash(table, id, r)
      PROVE  Consistent([table EXCEPT ![id] = r])
  BY <1>1 DEF Table
<1>2. CanCreate(table, id, row) => Consistent(Created(table, id, row))
  BY <1>1 DEF CanCreate, Created
<1>3. ASSUME CanUpdate(table, id, row)
      PROVE  Consistent(Updated(table, id, row))
  <2>1. KeepType(table, id, row) \in Row
    BY <1>3 DEF CanUpdate, KeepType, Table, Row
  <2> QED
    BY <1>1, <1>3, <2>1 DEF CanUpdate, Updated
<1>4. Consistent(Deleted(table, id))
  BY DEF Deleted, Table
<1> QED
  BY <1>2, <1>3, <1>4

LEMMA NextConsistent ==
  ASSUME TypeOK, JobsOK, Consistent(db), [Next]_vars
  PROVE  Consistent(db')
<1>1. db \in Table
  BY DEF TypeOK
<1>2. ASSUME NEW id \in PolicyID, db' = Deleted(db, id)
      PROVE  Consistent(db')
  BY <1>1, <1>2 DEF Consistent, Deleted, Table, UniqueClash, NameTaken,
                    PriorityTaken, SameName, SamePriority
<1> QED
  BY <1>1, <1>2, TableWrites, StatementsKeepConsistent

(* policy_type never changes while a row exists: Update does not select the
   column, so not even an update that read an older row of the same id, or a
   rollback to one, can write it. *)
THEOREM PolicyTypeNeverChanges == Spec => PolicyTypeImmutable
<1>1. ASSUME TypeOK, JobsOK, [Next]_vars, NEW id \in PolicyID,
             db[id] # None, db'[id] # None
      PROVE  db'[id].ptype = db[id].ptype
  <2>1. db \in Table
    BY <1>1 DEF TypeOK
  <2>2. ASSUME NEW other \in PolicyID, NEW row \in Row,
               db[other] # None, db' = Updated(db, other, row)
        PROVE  db'[id].ptype = db[id].ptype
    <3>1. db[other] \in Row
      BY <2>1, <2>2 DEF Table
    <3>2. KeepType(db, other, row).ptype = db[other].ptype
      BY <3>1 DEF KeepType, Row
    <3> QED
      BY <2>1, <2>2, <3>2 DEF Updated, Table
  <2> QED
    BY <1>1, <2>1, <2>2, TableWrites DEF CanCreate, CanUpdate, Created, Deleted, Table
<1>2. TypeOK /\ JobsOK /\ [Next]_vars =>
        [\A id \in PolicyID : db[id] # None /\ db'[id] # None
            => db'[id].ptype = db[id].ptype]_vars
  BY <1>1
<1> QED
  BY <1>2, Typing, PTL DEF Spec, PolicyTypeImmutable

-----------------------------------------------------------------------------
(* Stored Rego parses *)

ParseInv == StoredRegoParses /\ JobsParse

(* A step of p that keeps the stored Rego and p's rows parsed keeps ParseInv. *)
LEMMA ParseKept ==
  ASSUME ParseInv, NEW p \in Request, StoredRegoParses',
         \A q \in Request \ {p} : pc'[q] = pc[q] /\ job'[q] = job[q],
         pc'[p] # "idle" => ParsedJob(pc'[p], job'[p])
  PROVE  ParseInv'
BY DEF ParseInv, JobsParse, ParsedJob

LEMMA ArrivalParses ==
  ASSUME TypeOK, JobsOK, ParseInv, NEW p \in Request, Arrival(p)
  PROVE  ParseInv'
<1>1. CASE Refuse(p)
  BY <1>1 DEF Refuse, ParseInv, StoredRegoParses, JobsParse, ParsedJob
<1>2. ASSUME NEW at, NEW j, Begin(p, j, at), ParsedJob(at, j)
      PROVE  ParseInv'
  <2>1. pc'[p] = at /\ job'[p] = j
    BY <1>2 DEF Begin, TypeOK
  <2>2. StoredRegoParses'
    BY <1>2 DEF Begin, ParseInv, StoredRegoParses
  <2> QED
    BY <1>2, <2>1, <2>2, ParseKept DEF Begin, TypeOK
<1>3. ASSUME NEW body \in CreateBody, NEW clientID \in PolicyID \cup {None, BadID},
             BeginCreate(p, body, clientID), ~Refuse(p)
      PROVE  ParseInv'
  <2>1. CreateAccepted(body, clientID)
    BY <1>3 DEF BeginCreate
  <2>2. PICK id \in IF clientID = None THEN FreshID ELSE {clientID} :
          Begin(p, [NewJob("create", id) EXCEPT !.row = NewRow(body)], "insert")
    BY <1>3, <2>1 DEF BeginCreate
  <2> DEFINE j == [NewJob("create", id) EXCEPT !.row = NewRow(body)]
  <2>3. j.op = "create" /\ j.row = NewRow(body)
    BY DEF NewJob
  <2>4. NewRow(body).rego \in ParsableRego
    BY <2>1, NewRowTyped DEF CreateAccepted, ValidateRego
  <2>5. Begin(p, j, "insert")
    BY <2>2
  <2> HIDE DEF j
  <2>6. ParsedJob("insert", j)
    BY <2>3, <2>4 DEF ParsedJob
  <2> QED
    BY <1>2, <2>5, <2>6
<1>4. ASSUME NEW id \in PolicyID, NEW patch \in PatchBody,
             BeginUpdate(p, id, patch), ~Refuse(p)
      PROVE  ParseInv'
  <2> DEFINE j == [NewJob("update", id) EXCEPT !.patch = patch]
  <2>1. j.op = "update"
    BY DEF NewJob
  <2>2. Begin(p, j, "get")
    BY <1>4 DEF BeginUpdate
  <2> HIDE DEF j
  <2> QED
    BY <1>2, <2>1, <2>2 DEF ParsedJob
<1>5. ASSUME NEW id \in PolicyID, BeginDelete(p, id)
      PROVE  ParseInv'
  BY <1>2, <1>5, NewJobTyped DEF BeginDelete, ParsedJob
<1> QED
  BY <1>1, <1>3, <1>4, <1>5 DEF Arrival

LEMMA StepParses ==
  ASSUME TypeOK, JobsOK, ParseInv, NEW p \in Request, Step(p)
  PROVE  ParseInv'
<1> DEFINE j == job[p]
<1>0. /\ db \in Table
      /\ pc \in [Request -> {"idle"} \cup BeforeWrite \cup AfterWrite]
      /\ job \in [Request -> Job \cup {None}]
      /\ pc[p] # "idle" => /\ JobShape(pc[p], j) /\ ParsedJob(pc[p], j)
                           /\ j.id \in PolicyID
  BY DEF TypeOK, JobsOK, JobOK, JobShape, Job, ParseInv, JobsParse
<1>1. ASSUME NEW outcome, Finish(p, outcome), StoredRegoParses'
      PROVE  ParseInv'
  BY <1>0, <1>1, ParseKept DEF Finish
<1>2. ASSUME NEW at, NEW k, GoTo(p, at), job' = [job EXCEPT ![p] = k],
             ParsedJob(at, k), StoredRegoParses'
      PROVE  ParseInv'
  BY <1>0, <1>2, ParseKept DEF GoTo
<1>3. UNCHANGED db => StoredRegoParses'
  BY DEF ParseInv, StoredRegoParses
<1>4. ASSUME RecompileFailed(p), UNCHANGED db, pc[p] \in {"list", "compile"}
      PROVE  ParseInv'
  <2>1. CASE j.op = "delete"
    BY <1>1, <1>3, <1>4, <2>1 DEF RecompileFailed
  <2>2. CASE j.op # "delete"
    <3> DEFINE k == [j EXCEPT !.snap = NoModules]
    <3>1. ParsedJob("rollback", k)
      BY <1>0, <1>4 DEF ParsedJob, JobShape, Job
    <3>2. job' = [job EXCEPT ![p] = k] /\ GoTo(p, "rollback")
      BY <1>4, <2>2 DEF RecompileFailed
    <3> HIDE DEF k
    <3> QED
      BY <1>2, <1>3, <1>4, <3>1, <3>2
  <2> QED
    BY <2>1, <2>2
<1>5. CASE Insert(p)
  <2>1. pc[p] = "insert" /\ job' = [job EXCEPT ![p] = j]
    BY <1>0, <1>5 DEF Insert, Calls
  <2>2. j.op = "create" /\ j.row.rego \in ParsableRego
    BY <1>0, <2>1 DEF JobShape, ParsedJob
  <2>3. StoredRegoParses'
    BY <1>0, <1>3, <1>5, <2>2 DEF Insert, Created, Table, ParseInv, StoredRegoParses
  <2>4. PICK at \in {"list", "classify"} : GoTo(p, at)
    BY <1>5 DEF Insert
  <2>5. ParsedJob(at, j)
    BY <2>2 DEF ParsedJob
  <2> HIDE DEF j
  <2> QED
    BY <1>2, <2>1, <2>3, <2>4, <2>5
<1>6. CASE Read(p)
  <2>1. pc[p] = "get" /\ UNCHANGED db
    BY <1>6 DEF Read, Calls
  <2>2. CASE Finish(p, "notfound") \/ Finish(p, "invalid")
    BY <1>1, <1>3, <2>1, <2>2
  <2>3. CASE /\ db[j.id] # None
             /\ j.patch.rego # None => ValidateRego(j.patch.rego)
             /\ job' = [job EXCEPT ![p].prev = db[j.id],
                                   ![p].row = Merge(j.patch, db[j.id])]
             /\ GoTo(p, "write")
    <3> DEFINE k == [j EXCEPT !.prev = db[j.id], !.row = Merge(j.patch, db[j.id])]
    <3>1. db[j.id] \in Row /\ db[j.id].rego \in ParsableRego
      BY <1>0, <2>1, <2>3 DEF Table, ParseInv, StoredRegoParses
    <3>2. Merge(j.patch, db[j.id]).rego \in ParsableRego
      BY <1>0, <2>1, <2>3, <3>1, MergeTyped DEF JobShape, Or, ValidateRego
    <3>3. ParsedJob("write", k)
      BY <1>0, <2>1, <3>1, <3>2 DEF ParsedJob, JobShape, Job
    <3>4. job' = [job EXCEPT ![p] = k] /\ GoTo(p, "write")
      BY <1>0, <2>3
    <3> HIDE DEF k
    <3> QED
      BY <1>2, <1>3, <2>1, <3>3, <3>4
  <2> QED
    BY <1>6, <2>2, <2>3 DEF Read
<1>7. CASE Write(p)
  <2>1. pc[p] = "write"
    BY <1>7 DEF Write, Calls
  <2>2. ParsedJob("list", j) /\ ParsedJob("classify", j) /\ j.row \in Row
        /\ j.row.rego \in ParsableRego
    BY <1>0, <2>1 DEF ParsedJob, JobShape
  <2>3. ASSUME db[j.id] # None, db' = Updated(db, j.id, j.row)
        PROVE  StoredRegoParses'
    <3>1. KeepType(db, j.id, j.row).rego = j.row.rego
      BY <2>2 DEF KeepType, Row
    <3> QED
      BY <1>0, <2>1, <2>2, <2>3, <3>1 DEF Updated, Table, ParseInv, StoredRegoParses
  <2>4. StoredRegoParses'
    BY <1>3, <1>7, <2>3 DEF Write, CanUpdate
  <2>5. CASE Finish(p, "notfound") \/ Finish(p, "ok")
    BY <1>1, <2>4, <2>5
  <2>6. ASSUME NEW at \in {"list", "classify"}, GoTo(p, at), UNCHANGED job
        PROVE  ParseInv'
    <3>1. job' = [job EXCEPT ![p] = j]
      BY <1>0, <2>6
    <3> HIDE DEF j
    <3> QED
      BY <1>2, <2>2, <2>4, <2>6, <3>1
  <2> QED
    BY <1>7, <2>5, <2>6 DEF Write
<1>8. CASE Remove(p)
  <2>1. pc[p] = "remove"
    BY <1>8 DEF Remove, Calls
  <2>2. StoredRegoParses'
    BY <1>0, <1>3, <1>8, <2>1 DEF Remove, Deleted, Table, ParseInv, StoredRegoParses
  <2>3. CASE Finish(p, "notfound")
    BY <1>1, <2>2, <2>3
  <2>4. CASE job' = [job EXCEPT ![p].prev = db[j.id]] /\ GoTo(p, "list")
    <3> DEFINE k == [j EXCEPT !.prev = db[j.id]]
    <3>1. k.op = "delete"
      BY <1>0, <2>1 DEF JobShape, Job
    <3>2. job' = [job EXCEPT ![p] = k] /\ GoTo(p, "list")
      BY <1>0, <2>4
    <3> HIDE DEF k
    <3>3. ParsedJob("list", k)
      BY <3>1 DEF ParsedJob
    <3> QED
      BY <1>2, <2>2, <3>2, <3>3
  <2> QED
    BY <1>8, <2>3, <2>4 DEF Remove
<1>9. CASE Classify(p)
  <2>1. pc[p] = "classify" /\ UNCHANGED db
    BY <1>9 DEF Classify, Calls
  <2>2. CASE Finish(p, "exists") \/ Finish(p, "internal")
    BY <1>1, <1>3, <2>1, <2>2
  <2>3. CASE job' = [job EXCEPT ![p].check = @ + 1] /\ GoTo(p, "classify")
    <3> DEFINE k == [j EXCEPT !.check = @ + 1]
    <3>1. ParsedJob("classify", k)
      BY <1>0, <2>1 DEF ParsedJob, JobShape, Job
    <3>2. job' = [job EXCEPT ![p] = k] /\ GoTo(p, "classify")
      BY <1>0, <2>3
    <3> HIDE DEF k
    <3> QED
      BY <1>2, <1>3, <2>1, <3>1, <3>2
  <2> QED
    BY <1>9, <2>2, <2>3 DEF Classify
<1>10. CASE List(p)
  <2>1. pc[p] = "list" /\ UNCHANGED db /\ GoTo(p, "compile")
    BY <1>10 DEF List, Calls
  <2> DEFINE k == [j EXCEPT !.snap = ModulesOf(db)]
  <2>2. ParsedJob("compile", k)
    BY <1>0, <2>1 DEF ParsedJob, JobShape, Job
  <2>3. job' = [job EXCEPT ![p] = k]
    BY <1>0, <1>10 DEF List
  <2> HIDE DEF k
  <2> QED
    BY <1>2, <1>3, <2>1, <2>2, <2>3
<1>11. CASE Recompile(p)
  BY <1>1, <1>3, <1>4, <1>11 DEF Recompile
<1>12. CASE Rollback(p)
  <2>1. pc[p] = "rollback" /\ db' = Undo(j) /\ Finish(p, "internal")
    BY <1>12 DEF Rollback, Calls
  <2>2. ASSUME j.op = "update", CanUpdate(db, j.id, j.prev)
        PROVE  \A id \in PolicyID : Updated(db, j.id, j.prev)[id] # None =>
                 Updated(db, j.id, j.prev)[id].rego \in ParsableRego
    <3>1. KeepType(db, j.id, j.prev).rego = j.prev.rego
      BY <1>0, <2>1, <2>2 DEF KeepType, Row, JobShape
    <3> QED
      BY <1>0, <2>1, <2>2, <3>1
         DEF Updated, Table, ParsedJob, ParseInv, StoredRegoParses
  <2>3. \A id \in PolicyID : Deleted(db, j.id)[id] # None =>
          Deleted(db, j.id)[id].rego \in ParsableRego
    BY <1>0 DEF Deleted, Table, ParseInv, StoredRegoParses
  <2>4. \A id \in PolicyID : Undo(j)[id] # None => Undo(j)[id].rego \in ParsableRego
    BY <2>2, <2>3 DEF Undo, ParseInv, StoredRegoParses
  <2>5. StoredRegoParses'
    BY <2>1, <2>4 DEF StoredRegoParses
  <2> QED
    BY <1>1, <2>1, <2>5
<1>13. CASE StoreError(p)
  BY <1>1, <1>3, <1>4, <1>13 DEF StoreError
<1>14. CASE LoseAnswer(p)
  <2>1. Finish(p, "internal")
    BY <1>14 DEF LoseAnswer
  <2>2. CASE pc[p] = "insert" /\ db' = Created(db, j.id, j.row)
    <3>1. StoredRegoParses'
      BY <1>0, <2>2 DEF JobShape, ParsedJob, Created, Table, ParseInv, StoredRegoParses
    <3> QED
      BY <1>1, <2>1, <3>1
  <2>3. CASE pc[p] = "write" /\ db[j.id] # None /\ db' = Updated(db, j.id, j.row)
    <3>1. j.row \in Row /\ j.row.rego \in ParsableRego
      BY <1>0, <2>3 DEF JobShape, ParsedJob
    <3>2. KeepType(db, j.id, j.row).rego = j.row.rego
      BY <3>1 DEF KeepType, Row
    <3>3. StoredRegoParses'
      BY <1>0, <2>3, <3>1, <3>2 DEF Updated, Table, ParseInv, StoredRegoParses
    <3> QED
      BY <1>1, <2>1, <3>3
  <2>4. CASE db' = Deleted(db, j.id)
    <3>1. StoredRegoParses'
      BY <1>0, <2>4 DEF Deleted, Table, ParseInv, StoredRegoParses
    <3> QED
      BY <1>1, <2>1, <3>1
  <2> QED
    BY <1>14, <2>2, <2>3, <2>4 DEF LoseAnswer, CanUpdate
<1> QED
  BY <1>5, <1>6, <1>7, <1>8, <1>9, <1>10, <1>11, <1>12, <1>13, <1>14 DEF Step

(* Only Rego that ValidateRego accepted is ever stored: neither a merge with
   an older row nor a rollback to one brings back anything else. *)
THEOREM StoredRegoAlwaysParses == Spec => []StoredRegoParses
<1>1. Init => ParseInv
  BY DEF Init, ParseInv, StoredRegoParses, JobsParse
<1>2. ASSUME TypeOK, JobsOK, ParseInv, [Next]_vars
      PROVE  ParseInv'
  <2>1. ASSUME NEW p \in Request, Arrival(p) \/ Step(p)
        PROVE  ParseInv'
    BY <1>2, <2>1, ArrivalParses, StepParses
  <2>2. ASSUME NEW p \in Request, Cancel(p)
        PROVE  ParseInv'
    <3> DEFINE k == [job[p] EXCEPT !.live = FALSE]
    <3>1. job' = [job EXCEPT ![p] = k] /\ UNCHANGED <<db, pc>>
      BY <1>2, <2>2 DEF Cancel, TypeOK
    <3>2. ParsedJob(pc[p], k)
      BY <1>2, <2>2 DEF Cancel, JobsOK, JobOK, JobShape, Job, ParseInv, JobsParse, ParsedJob
    <3> HIDE DEF k
    <3> QED
      BY <1>2, <3>1, <3>2, ParseKept DEF ParseInv, StoredRegoParses, TypeOK
  <2>3. CASE Start \/ Crash \/ UNCHANGED vars
    BY <1>2, <2>3 DEF Start, Crash, vars, ParseInv, StoredRegoParses, JobsParse, ParsedJob
  <2> QED
    BY <1>2, <2>1, <2>2, <2>3 DEF Next
<1>3. ParseInv => StoredRegoParses
  BY DEF ParseInv
<1> QED
  BY <1>1, <1>2, <1>3, Typing, PTL DEF Spec

-----------------------------------------------------------------------------
(* A mutation that ran alone leaves the engine equal to the database *)

LEMMA AloneKept ==
  ASSUME TypeOK, JobsOK, AllAloneOK, [Next]_vars
  PROVE  AllAloneOK'
<1>0. /\ pc \in [Request -> {"idle"} \cup BeforeWrite \cup AfterWrite]
      /\ job \in [Request -> Job \cup {None}]
      /\ alone \in [Request -> BOOLEAN]
      /\ \A q \in Request : AloneOK(q)
  BY DEF TypeOK, AllAloneOK
<1>1. ASSUME NEW p \in Request, NEW outcome, Finish(p, outcome), pc[p] # "idle"
      PROVE  AllAloneOK'
  <2>1. \A q \in Request : ~alone'[q]
    BY <1>0, <1>1 DEF Finish, AloneOK
  <2> QED
    BY <2>1 DEF AllAloneOK, AloneOK
<1>2. ASSUME NEW p \in Request, NEW at \in BeforeWrite \cup AfterWrite,
             GoTo(p, at), pc[p] # "idle",
             at = "compile" => job'[p].snap = ModulesOf(db) /\ UNCHANGED db
      PROVE  AllAloneOK'
  <2>1. \A q \in Request \ {p} : ~alone'[q]
    BY <1>0, <1>2 DEF GoTo, AloneOK
  <2>2. pc'[p] = at /\ at # "idle" /\ \A q \in Request \ {p} : pc'[q] = pc[q]
    BY <1>0, <1>2 DEF GoTo, BeforeWrite, AfterWrite
  <2>3. AloneOK(p)'
    BY <1>0, <1>2, <2>2 DEF GoTo, AloneOK
  <2> QED
    BY <2>1, <2>3 DEF AllAloneOK, AloneOK
<1>3. ASSUME NEW p \in Request, Arrival(p)
      PROVE  AllAloneOK'
  <2>1. CASE Refuse(p)
    BY <1>0, <2>1 DEF Refuse, AllAloneOK, AloneOK
  <2>2. ASSUME NEW j, NEW at \in {"insert", "get", "remove"}, Begin(p, j, at)
        PROVE  AllAloneOK'
    <3>1. \A q \in Request \ {p} : ~alone'[q]
      BY <2>2 DEF Begin
    <3>2. alone'[p] => \A q \in Request \ {p} : pc'[q] = "idle"
      BY <1>0, <2>2 DEF Begin
    <3>3. pc'[p] = at
      BY <1>0, <2>2 DEF Begin
    <3>4. AloneOK(p)'
      BY <2>2, <3>2, <3>3 DEF AloneOK
    <3> QED
      BY <3>1, <3>4 DEF AllAloneOK, AloneOK
  <2> QED
    BY <1>3, <2>1, <2>2 DEF Arrival, BeginCreate, BeginUpdate, BeginDelete
<1>4. ASSUME NEW p \in Request, Step(p)
      PROVE  AllAloneOK'
  <2>1. ASSUME RecompileFailed(p), pc[p] # "idle"
        PROVE  AllAloneOK'
    BY <1>1, <1>2, <2>1 DEF RecompileFailed, AfterWrite
  <2>2. CASE Insert(p)
    BY <1>2, <2>2 DEF Insert, Calls, BeforeWrite, AfterWrite
  <2>3. CASE Read(p)
    BY <1>1, <1>2, <2>3 DEF Read, Calls, BeforeWrite
  <2>4. CASE Write(p)
    BY <1>1, <1>2, <2>4 DEF Write, Calls, BeforeWrite, AfterWrite
  <2>5. CASE Remove(p)
    BY <1>1, <1>2, <2>5 DEF Remove, Calls, AfterWrite
  <2>6. CASE Classify(p)
    BY <1>1, <1>2, <2>6 DEF Classify, Calls, BeforeWrite
  <2>7. CASE List(p)
    <3>1. pc[p] = "list" /\ GoTo(p, "compile") /\ UNCHANGED db
      BY <2>7 DEF List, Calls
    <3>2. job[p] \in Job
      BY <3>1 DEF JobsOK, JobOK, JobShape
    <3>3. job'[p].snap = ModulesOf(db)
      BY <1>0, <2>7, <3>2 DEF List, Job
    <3> QED
      BY <1>2, <3>1, <3>3 DEF AfterWrite
  <2>8. CASE Recompile(p)
    BY <1>1, <2>1, <2>8 DEF Recompile
  <2>9. CASE Rollback(p)
    BY <1>1, <2>9 DEF Rollback, Calls
  <2>10. CASE StoreError(p)
    BY <1>1, <2>1, <2>10 DEF StoreError
  <2>11. CASE LoseAnswer(p)
    BY <1>1, <2>11 DEF LoseAnswer
  <2> QED
    BY <1>4, <2>2, <2>3, <2>4, <2>5, <2>6, <2>7, <2>8, <2>9, <2>10, <2>11 DEF Step
<1>5. ASSUME NEW p \in Request, Cancel(p)
      PROVE  AllAloneOK'
  <2>1. job[p] \in Job
    BY <1>5 DEF Cancel, JobsOK, JobOK, JobShape
  <2>2. \A q \in Request : pc[q] = "compile" => job'[q].snap = job[q].snap
    BY <1>0, <1>5, <2>1 DEF Cancel, Job
  <2> QED
    BY <1>0, <1>5, <2>2 DEF Cancel, AllAloneOK, AloneOK
<1>6. CASE Start \/ UNCHANGED vars
  BY <1>0, <1>6 DEF Start, vars, AllAloneOK, AloneOK
<1>7. CASE Crash
  BY <1>7 DEF Crash, AllAloneOK, AloneOK
<1> QED
  BY <1>3, <1>4, <1>5, <1>6, <1>7 DEF Next

(* A request that changes Rego is answered "ok" by a Compile that succeeded. *)
LEMMA OkMeansCompiled ==
  ASSUME TypeOK, JobsOK, Next, NEW p \in Request,
         Answers(p, "ok"), IsRegoChange(job[p])
  PROVE  pc[p] = "compile" /\ queries' = job[p].snap /\ UNCHANGED db
<1>1. /\ pc[p] # "idle" /\ sent' = [to |-> p, outcome |-> "ok"]
      /\ JobShape(pc[p], job[p])
  BY DEF Answers, JobsOK, JobOK
<1>2. sent' # None
  <2>1. sent' \in Response
    BY <1>1 DEF Response
  <2> QED
    BY <2>1, EnvironmentAssumption
<1>3. \A q \in Request : \A outcome : Finish(q, outcome) => q = p /\ outcome = "ok"
  BY <1>1 DEF Finish
<1>4. PICK q \in Request : Arrival(q) \/ Step(q)
  BY <1>2 DEF Next, Start, Crash, Cancel
<1>5. ~Arrival(q)
  <2>1. ~Refuse(q)
    BY <1>1 DEF Refuse
  <2>2. \A j, at : ~Begin(q, j, at)
    BY <1>2 DEF Begin
  <2> QED
    BY <2>1, <2>2 DEF Arrival, BeginCreate, BeginUpdate, BeginDelete
<1>6. \A at : ~GoTo(q, at)
  BY <1>2 DEF GoTo
<1>7. ~RecompileFailed(q)
  <2>1. ASSUME Finish(q, "ok"), job[q].op = "delete"
        PROVE  FALSE
    BY <1>3, <2>1 DEF IsRegoChange
  <2> QED
    BY <1>6, <2>1 DEF RecompileFailed
<1>8. CASE Recompile(q)
  BY <1>3, <1>7, <1>8 DEF Recompile, SwapQueries
<1>9. ~Insert(q) /\ ~List(q)
  BY <1>6 DEF Insert, List
<1>10. ~Read(q)
  <2>1. ~Finish(q, "notfound") /\ ~Finish(q, "invalid")
    BY <1>3
  <2>2. SUFFICES ASSUME Read(q) PROVE FALSE
    OBVIOUS
  <2>3. Finish(q, "notfound") \/ Finish(q, "invalid") \/ GoTo(q, "write")
    BY <2>2 DEF Read
  <2> QED
    BY <1>6, <2>1, <2>3
<1>11. ~Write(q)
  <2>1. ASSUME Finish(q, "ok"), ~IsRegoChange(job[q])
        PROVE  FALSE
    BY <1>3, <2>1
  <2> QED
    BY <1>3, <1>6, <2>1 DEF Write
<1>12. ~Remove(q) /\ ~Classify(q) /\ ~Rollback(q)
  BY <1>3, <1>6 DEF Remove, Classify, Rollback
<1>13. ~StoreError(q) /\ ~LoseAnswer(q)
  BY <1>3, <1>7 DEF StoreError, LoseAnswer
<1> QED
  BY <1>4, <1>5, <1>8, <1>9, <1>10, <1>11, <1>12, <1>13 DEF Step

(* A create or a change of Rego that overlapped no other request leaves the
   engine with exactly the stored modules once it is acknowledged, whatever
   earlier requests, failures, cancellations and crashes left behind. *)
THEOREM SoloMutationsHeal == Spec => SoloMutationHeals
<1>1. Init => AllAloneOK
  BY DEF Init, AllAloneOK, AloneOK
<1>2. TypeOK /\ JobsOK /\ AllAloneOK /\ [Next]_vars => AllAloneOK'
  BY AloneKept
<1>3. ASSUME TypeOK, JobsOK, AllAloneOK, Next, NEW p \in Request,
             Answers(p, "ok"), alone[p], IsRegoChange(job[p])
      PROVE  queries' = ModulesOf(db')
  <2>1. pc[p] = "compile" /\ queries' = job[p].snap /\ db' = db
    BY <1>3, OkMeansCompiled
  <2>2. job[p].snap = ModulesOf(db)
    BY <1>3, <2>1 DEF AllAloneOK, AloneOK
  <2> QED
    BY <2>1, <2>2
<1>4. TypeOK /\ JobsOK /\ AllAloneOK /\ [Next]_vars =>
        [\A p \in Request : Answers(p, "ok") /\ alone[p] /\ IsRegoChange(job[p])
            => queries' = ModulesOf(db')]_vars
  BY <1>3
<1> QED
  BY <1>1, <1>2, <1>4, Typing, PTL DEF Spec, SoloMutationHeals

=============================================================================
