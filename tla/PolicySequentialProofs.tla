----------------------- MODULE PolicySequentialProofs -----------------------
(***************************************************************************)
(* Theorems about PolicyService for a client that waits for each answer    *)
(* before it sends its next request, whose connection holds and whose      *)
(* database answers; the process may die at any time.  For that client the *)
(* engine and the database change together: the service implements         *)
(* PolicyRegistry.  (For several clients, or when calls fail, the          *)
(* properties below do not hold.)                                          *)
(***************************************************************************)
EXTENDS PolicyServiceProofs, PolicyRefinement

OneFaultlessClient ==
  /\ \A p, q \in Request : p = q
  /\ ~MayFail /\ ~MayCancel

(* The engine serves the modules of a table, unless they do not compile. *)
Serves(table) == Compiles(ModulesOf(table)) => queries = ModulesOf(table)

(* What the write of p's request has changed in the database. *)
Wrote(j) ==
  /\ j.op = "create" => j.prev = None /\ db[j.id] # None
  /\ j.op = "update" =>
       /\ db[j.id] # None /\ db[j.id].ptype = j.prev.ptype
       /\ j.patch.rego # None
  /\ j.op = "delete" => j.prev # None /\ db[j.id] = None

Progress(p) ==
  LET j == job[p] IN
  /\ up /\ j.live
  /\ pc[p] \in {"insert", "remove"} => j.prev = None
  /\ pc[p] = "write" => j.prev = db[j.id] /\ j.row = Merge(j.patch, j.prev)
  /\ pc[p] \in AfterWrite => Wrote(j)
  /\ pc[p] = "compile" => j.snap = ModulesOf(db)
  /\ pc[p] = "rollback" => ~Compiles(ModulesOf(db))

(* Between requests the stored rows are consistent and served; the write of
   the request in flight is the only difference from that. *)
SequentialInv ==
  /\ Consistent(db) /\ Consistent(Settled)
  /\ up => Serves(Settled)
  /\ \A p \in Request : pc[p] # "idle" => Progress(p)

-----------------------------------------------------------------------------
(* The operators PolicyRegistry uses are those of the service. *)
LEMMA SameOperators ==
  /\ \A table : Registry!ModulesOf(table) = ModulesOf(table)
  /\ \A table : Registry!Consistent(table) <=> Consistent(table)
  /\ Registry!NoModules = NoModules
<1>1. \A table, id, row :
        Registry!UniqueClash(table, id, row) <=> UniqueClash(table, id, row)
  BY DEF Registry!UniqueClash, Registry!NameTaken, Registry!PriorityTaken,
         Registry!SameName, Registry!SamePriority,
         UniqueClash, NameTaken, PriorityTaken, SameName, SamePriority
<1> QED
  BY <1>1 DEF Registry!ModulesOf, ModulesOf, Registry!Consistent, Consistent,
              Registry!NoModules, NoModules

-----------------------------------------------------------------------------
(* Settled, before and after a step. *)

LEMMA SettledIdle ==
  ASSUME db \in Table, \A p \in Request : pc[p] \notin AfterWrite
  PROVE  Settled = db
BY DEF Settled, Table

LEMMA SettledIdleNext ==
  ASSUME db' \in Table, \A p \in Request : pc'[p] \notin AfterWrite
  PROVE  Settled' = db'
BY DEF Settled, Table

LEMMA SettledWriting ==
  ASSUME OneFaultlessClient, NEW p \in Request, db \in Table, pc[p] \in AfterWrite
  PROVE  Settled = [db EXCEPT ![job[p].id] = job[p].prev]
<1>1. \A q \in Request : q = p
  BY DEF OneFaultlessClient
<1>2. p = CHOOSE q \in Request : pc[q] \in AfterWrite /\ job[q].id = job[p].id
  BY <1>1
<1> QED
  BY <1>1, <1>2 DEF Settled, Table

LEMMA SettledWritingNext ==
  ASSUME OneFaultlessClient, NEW p \in Request, db' \in Table, pc'[p] \in AfterWrite
  PROVE  Settled' = [db' EXCEPT ![job'[p].id] = job'[p].prev]
<1>1. \A q \in Request : q = p
  BY DEF OneFaultlessClient
<1>2. p = CHOOSE q \in Request : pc'[q] \in AfterWrite /\ job'[q].id = job'[p].id
  BY <1>1
<1> QED
  BY <1>1, <1>2 DEF Settled, Table

-----------------------------------------------------------------------------
(* A step keeps the invariant and is, to the client, a step of PolicyRegistry
   or none at all. *)
Promised ==
  SequentialInv' /\ [Registry!RegistryNext]_<<Settled, queries, up>>

(* Two tables that differ in one row at most. *)
LEMMA OneChangeAt ==
  ASSUME NEW old \in Table, NEW new \in Table, NEW id \in PolicyID,
         \A other \in PolicyID \ {id} : new[other] = old[other],
         old[id] # None /\ new[id] # None => new[id].ptype = old[id].ptype
  PROVE  new = old \/ Registry!OneChange(old, new)
<1>1. new[id] = old[id] => new = old
  BY DEF Table
<1> QED
  BY <1>1 DEF Registry!OneChange

(* A step whose effect is undone in Settled shows nothing. *)
LEMMA Unseen ==
  ASSUME OneFaultlessClient, SequentialInv, NEW p \in Request,
         Settled' = Settled, UNCHANGED <<queries, up>>, Consistent(db'),
         pc'[p] # "idle" => Progress(p)'
  PROVE  Promised
<1>1. \A q \in Request : q = p
  BY DEF OneFaultlessClient
<1>2. Consistent(Settled') /\ (up' => Serves(Settled)')
  BY DEF SequentialInv, Serves
<1>3. SequentialInv'
  BY <1>1, <1>2 DEF SequentialInv
<1> QED
  BY <1>3 DEF Promised

(* A step that ends the request ends it with the row written and the engine
   swapped, or left alone with what the table no longer compiles to. *)
LEMMA Committed ==
  ASSUME SequentialInv, up, up', Consistent(db'), Settled' = db',
         \A q \in Request : pc'[q] = "idle",
         Settled' = Settled \/ Registry!OneChange(Settled, Settled'),
         \/ Compiles(ModulesOf(db')) /\ queries' = ModulesOf(db')
         \/ /\ ~Compiles(ModulesOf(db')) /\ queries' = queries
            /\ Registry!AddsNoRego(Settled, Settled')
  PROVE  Promised
<1>1. Serves(Settled) /\ Serves(Settled)'
  BY DEF SequentialInv, Serves
<1>2. SequentialInv'
  BY <1>1 DEF SequentialInv
<1>3. CASE Settled' = Settled
  <2>1. queries' = queries
    BY <1>1, <1>3 DEF Serves
  <2> QED
    BY <1>2, <1>3, <2>1 DEF Promised
<1>4. CASE Registry!OneChange(Settled, Settled')
  <2>1. Registry!Consistent(Settled')
    BY SameOperators
  <2>2. Registry!ModulesOf(Settled') = ModulesOf(db')
    BY SameOperators
  <2>3. Registry!Mutate \/ Registry!MutateAside
    BY <1>4, <2>1, <2>2 DEF Registry!Mutate, Registry!MutateAside
  <2> QED
    BY <1>2, <2>3 DEF Promised, Registry!RegistryNext
<1> QED
  BY <1>3, <1>4

-----------------------------------------------------------------------------
(* One lemma per kind of step. *)

LEMMA ArrivalPromised ==
  ASSUME OneFaultlessClient, TypeOK, JobsOK, TypeOK', SequentialInv,
         NEW p \in Request, Arrival(p)
  PROVE  Promised
<1>1. UNCHANGED <<db, queries, up>> /\ up /\ pc[p] = "idle"
  BY DEF Arrival, BeginCreate, BeginUpdate, BeginDelete, Begin, Refuse
<1>2. \A q \in Request : q = p
  BY DEF OneFaultlessClient
<1>3. Settled = db
  BY <1>1, <1>2, SettledIdle DEF TypeOK, AfterWrite
<1>4. ASSUME NEW j, NEW at \in {"insert", "get", "remove"}, Begin(p, j, at),
             j.live, j.prev = None
      PROVE  Promised
  <2>1. pc'[p] = at /\ job'[p] = j
    BY <1>4 DEF Begin, TypeOK
  <2>2. Settled' = db'
    BY <1>2, <2>1, SettledIdleNext DEF TypeOK, AfterWrite
  <2>3. Progress(p)'
    BY <1>1, <1>4, <2>1 DEF Progress, AfterWrite
  <2> QED
    BY <1>1, <1>3, <2>2, <2>3, Unseen DEF SequentialInv
<1>5. CASE Refuse(p)
  <2>1. pc'[p] = "idle" /\ Settled' = db'
    BY <1>1, <1>2, <1>5, SettledIdleNext DEF Refuse, TypeOK, AfterWrite
  <2> QED
    BY <1>1, <1>3, <2>1, Unseen DEF SequentialInv
<1>6. \A op, id : NewJob(op, id).live /\ NewJob(op, id).prev = None
  BY DEF NewJob
<1>7. \A op, id, row : LET j == [NewJob(op, id) EXCEPT !.row = row]
                       IN  j.live /\ j.prev = None
  BY DEF NewJob
<1>8. \A op, id, patch : LET j == [NewJob(op, id) EXCEPT !.patch = patch]
                         IN  j.live /\ j.prev = None
  BY DEF NewJob
<1>9. CASE \E body \in CreateBody, id \in PolicyID \cup {None, BadID} :
             BeginCreate(p, body, id)
  BY <1>4, <1>5, <1>7, <1>9 DEF BeginCreate
<1>10. CASE \E id \in PolicyID, patch \in PatchBody : BeginUpdate(p, id, patch)
  BY <1>4, <1>5, <1>8, <1>10 DEF BeginUpdate
<1>11. CASE \E id \in PolicyID : BeginDelete(p, id)
  BY <1>4, <1>6, <1>11 DEF BeginDelete
<1> QED
  BY <1>9, <1>10, <1>11 DEF Arrival

(* The steps before the write: Settled is the table. *)
LEMMA BeforeWritePromised ==
  ASSUME OneFaultlessClient, TypeOK, JobsOK, TypeOK', SequentialInv,
         NEW p \in Request, Insert(p) \/ Read(p) \/ Remove(p) \/ Classify(p)
  PROVE  Promised
<1> DEFINE j == job[p]
<1>0. /\ db \in Table /\ db' \in Table
      /\ pc \in [Request -> {"idle"} \cup BeforeWrite \cup AfterWrite]
      /\ job \in [Request -> Job \cup {None}]
  BY DEF TypeOK
<1>1. \A q \in Request : q = p
  BY DEF OneFaultlessClient
<1>2. pc[p] \in {"insert", "get", "remove", "classify"}
  BY DEF Insert, Read, Remove, Classify, Calls
<1>3. JobShape(pc[p], j) /\ j \in Job /\ j.id \in PolicyID /\ Progress(p)
  BY <1>2 DEF JobsOK, JobOK, JobShape, Job, SequentialInv
<1>4. Settled = db /\ Consistent(db) /\ up
  BY <1>0, <1>1, <1>2, <1>3, SettledIdle DEF AfterWrite, SequentialInv, Progress
<1>5. ASSUME NEW outcome, Finish(p, outcome), UNCHANGED <<db, queries>>
      PROVE  Promised
  <2>1. pc'[p] = "idle"
    BY <1>0, <1>5 DEF Finish
  <2>2. Settled' = db'
    BY <1>0, <1>1, <2>1, SettledIdleNext DEF AfterWrite
  <2> QED
    BY <1>4, <1>5, <2>1, <2>2, Unseen DEF Finish
<1>6. CASE Insert(p)
  <2>1. /\ pc[p] = "insert" /\ j.op = "create" /\ j.row \in Row /\ j.prev = None
        /\ UNCHANGED <<queries, job, up>>
    BY <1>3, <1>6 DEF Insert, Calls, JobShape, Progress, GoTo
  <2>2. CASE CanCreate(db, j.id, j.row) /\ db' = Created(db, j.id, j.row)
             /\ GoTo(p, "list")
    <3>1. pc'[p] = "list" /\ db[j.id] = None
      BY <1>0, <2>2 DEF GoTo, CanCreate
    <3>2. Settled' = [db' EXCEPT ![j.id] = None]
      BY <1>0, <2>1, <3>1, SettledWritingNext DEF AfterWrite
    <3>3. Settled' = db
      BY <1>0, <2>2, <3>1, <3>2 DEF Created, Table
    <3>4. Consistent(db')
      BY <1>0, <1>3, <1>4, <2>1, <2>2, StatementsKeepConsistent
    <3>5. db'[j.id] # None
      BY <1>0, <1>3, <2>1, <2>2, EnvironmentAssumption DEF Created, Table
    <3>6. Progress(p)'
      BY <1>3, <1>4, <2>1, <3>1, <3>5 DEF Progress, Wrote
    <3> QED
      BY <1>4, <2>1, <3>3, <3>4, <3>6, Unseen
  <2>3. CASE UNCHANGED db /\ GoTo(p, "classify")
    <3>1. pc'[p] = "classify"
      BY <1>0, <2>3 DEF GoTo
    <3>2. Settled' = db'
      BY <1>0, <1>1, <3>1, SettledIdleNext DEF AfterWrite
    <3>3. Progress(p)'
      BY <1>3, <2>1, <3>1 DEF Progress, AfterWrite
    <3> QED
      BY <1>4, <2>1, <2>3, <3>2, <3>3, Unseen
  <2> QED
    BY <1>6, <2>2, <2>3 DEF Insert
<1>7. CASE Read(p)
  <2>1. UNCHANGED <<db, queries>> /\ j.live
    BY <1>7 DEF Read, Calls
  <2>2. CASE Finish(p, "notfound") \/ Finish(p, "invalid")
    BY <1>5, <2>1, <2>2
  <2>3. CASE /\ job' = [job EXCEPT ![p].prev = db[j.id],
                                   ![p].row = Merge(j.patch, db[j.id])]
             /\ GoTo(p, "write")
    <3>1. pc'[p] = "write" /\ up' = up
      BY <1>0, <2>3 DEF GoTo
    <3>2. job'[p] = [j EXCEPT !.prev = db[j.id], !.row = Merge(j.patch, db[j.id])]
      BY <1>0, <2>3
    <3>3. /\ job'[p].prev = db[j.id] /\ job'[p].row = Merge(j.patch, db[j.id])
          /\ job'[p].patch = j.patch /\ job'[p].id = j.id /\ job'[p].live = j.live
      BY <1>3, <3>2 DEF Job
    <3>4. Settled' = db'
      BY <1>0, <1>1, <3>1, SettledIdleNext DEF AfterWrite
    <3>5. Progress(p)'
      BY <1>4, <2>1, <3>1, <3>3 DEF Progress, AfterWrite
    <3> QED
      BY <1>4, <2>1, <3>1, <3>4, <3>5, Unseen
  <2> QED
    BY <1>7, <2>2, <2>3 DEF Read
<1>8. CASE Remove(p)
  <2>1. pc[p] = "remove" /\ j.op = "delete" /\ j.live /\ queries' = queries
    BY <1>3, <1>8 DEF Remove, Calls, JobShape
  <2>2. CASE Finish(p, "notfound") /\ UNCHANGED db
    BY <1>5, <2>1, <2>2
  <2>3. CASE /\ db[j.id] # None
             /\ db' = Deleted(db, j.id)
             /\ job' = [job EXCEPT ![p].prev = db[j.id]]
             /\ GoTo(p, "list")
    <3>1. pc'[p] = "list" /\ up' = up
      BY <1>0, <2>3 DEF GoTo
    <3>2. job'[p] = [j EXCEPT !.prev = db[j.id]]
      BY <1>0, <2>3
    <3>3. /\ job'[p].prev = db[j.id] /\ job'[p].op = "delete"
          /\ job'[p].id = j.id /\ job'[p].live
      BY <1>3, <2>1, <3>2 DEF Job
    <3>4. Settled' = [db' EXCEPT ![j.id] = db[j.id]]
      BY <1>0, <3>1, <3>3, SettledWritingNext DEF AfterWrite
    <3>5. Settled' = db
      BY <1>0, <1>3, <2>3, <3>4 DEF Deleted, Table
    <3>6. db[j.id] \in Row /\ Consistent(db')
      BY <1>0, <1>3, <1>4, <2>3, StatementsKeepConsistent DEF Table
    <3>7. db'[j.id] = None
      BY <1>0, <1>3, <2>3 DEF Deleted, Table
    <3>8. Progress(p)'
      BY <1>4, <2>3, <3>1, <3>3, <3>7 DEF Progress, Wrote
    <3> QED
      BY <1>4, <2>1, <3>1, <3>5, <3>6, <3>8, Unseen
  <2> QED
    BY <1>8, <2>2, <2>3 DEF Remove
<1>9. CASE Classify(p)
  <2>1. UNCHANGED <<db, queries>> /\ pc[p] = "classify"
    BY <1>9 DEF Classify, Calls
  <2>2. CASE Finish(p, "exists") \/ Finish(p, "internal")
    BY <1>5, <2>1, <2>2
  <2>3. CASE job' = [job EXCEPT ![p].check = @ + 1] /\ GoTo(p, "classify")
    <3>1. pc'[p] = "classify" /\ up' = up
      BY <1>0, <2>3 DEF GoTo
    <3>2. job'[p].live = j.live
      BY <1>0, <1>3, <2>3 DEF Job
    <3>3. Settled' = db'
      BY <1>0, <1>1, <3>1, SettledIdleNext DEF AfterWrite
    <3>4. Progress(p)'
      BY <1>3, <3>1, <3>2 DEF Progress, AfterWrite
    <3> QED
      BY <1>4, <2>1, <3>1, <3>3, <3>4, Unseen
  <2> QED
    BY <1>9, <2>2, <2>3 DEF Classify
<1> QED
  BY <1>6, <1>7, <1>8, <1>9

(* A merge with a row of the same id writes the row's policy_type back. *)
LEMMA WriteKeepsType ==
  ASSUME NEW table \in Table, NEW id \in PolicyID, table[id] # None,
         NEW row \in Row
  PROVE  /\ KeepType(table, id, row).ptype = table[id].ptype
         /\ KeepType(table, id, row).rego = row.rego
         /\ KeepType(table, id, row) \in Row
         /\ row.ptype = table[id].ptype => KeepType(table, id, row) = row
BY DEF KeepType, Table, Row

LEMMA WritePromised ==
  ASSUME OneFaultlessClient, TypeOK, JobsOK, TypeOK', SequentialInv,
         NEW p \in Request, Write(p)
  PROVE  Promised
<1> DEFINE j == job[p]
           row == KeepType(db, j.id, j.row)
<1>0. /\ db \in Table /\ db' \in Table
      /\ pc \in [Request -> {"idle"} \cup BeforeWrite \cup AfterWrite]
  BY DEF TypeOK
<1>1. \A q \in Request : q = p
  BY DEF OneFaultlessClient
<1>2. pc[p] = "write" /\ queries' = queries
  BY DEF Write, Calls
<1>3. JobShape(pc[p], j) /\ j \in Job /\ j.id \in PolicyID /\ Progress(p)
  BY <1>2 DEF JobsOK, JobOK, JobShape, Job, SequentialInv
<1>4. /\ j.op = "update" /\ j.row \in Row /\ j.prev \in Row
      /\ j.patch \in PatchBody /\ ValidPatch(j.patch)
      /\ j.prev = db[j.id] /\ j.row = Merge(j.patch, j.prev) /\ j.live /\ up
  BY <1>2, <1>3 DEF JobShape, Progress
<1>5. db[j.id] # None
  BY <1>4, EnvironmentAssumption
<1>6. Settled = db /\ Consistent(db)
  BY <1>0, <1>1, <1>2, SettledIdle DEF AfterWrite, SequentialInv
<1>7. /\ row \in Row /\ row.ptype = db[j.id].ptype /\ row.rego = j.row.rego
  BY <1>0, <1>3, <1>4, <1>5, WriteKeepsType
<1>8. row # None
  BY <1>7, EnvironmentAssumption
<1>9. ASSUME CanUpdate(db, j.id, j.row), db' = Updated(db, j.id, j.row)
      PROVE  /\ db'[j.id] = row
             /\ \A other \in PolicyID \ {j.id} : db'[other] = db[other]
             /\ Consistent(db')
  BY <1>0, <1>3, <1>4, <1>6, <1>9, StatementsKeepConsistent DEF Updated, Table
<1> HIDE DEF row
<1>10. CASE /\ CanUpdate(db, j.id, j.row) /\ db' = Updated(db, j.id, j.row)
            /\ IsRegoChange(j) /\ GoTo(p, "list") /\ UNCHANGED job
  <2>1. pc'[p] = "list" /\ up' = up
    BY <1>0, <1>10 DEF GoTo
  <2>2. Settled' = [db' EXCEPT ![j.id] = db[j.id]]
    BY <1>0, <1>4, <1>10, <2>1, SettledWritingNext DEF AfterWrite
  <2>3. Settled' = db
    BY <1>0, <1>3, <1>9, <1>10, <2>2 DEF Table
  <2>4. Progress(p)'
    BY <1>3, <1>4, <1>7, <1>8, <1>9, <1>10, <2>1
       DEF Progress, Wrote, IsRegoChange
  <2> QED
    BY <1>2, <1>6, <1>9, <1>10, <2>1, <2>3, <2>4, Unseen
<1>11. CASE /\ CanUpdate(db, j.id, j.row) /\ db' = Updated(db, j.id, j.row)
            /\ ~IsRegoChange(j) /\ Finish(p, "ok")
  <2>1. \A q \in Request : pc'[q] = "idle"
    BY <1>0, <1>1, <1>11 DEF Finish
  <2>2. Settled' = db'
    BY <1>0, <2>1, SettledIdleNext DEF AfterWrite
  <2>3. j.row.rego = db[j.id].rego
    BY <1>4, <1>11, MergeTyped DEF IsRegoChange, Or
  <2>4. ModulesOf(db') = ModulesOf(db)
    BY <1>0, <1>3, <1>5, <1>7, <1>8, <1>9, <1>11, <2>3 DEF ModulesOf
  <2>5. db' = db \/ Registry!OneChange(db, db')
    BY <1>0, <1>3, <1>7, <1>9, <1>11, OneChangeAt
  <2>6. Registry!AddsNoRego(db, db')
    BY <1>3, <1>5, <1>7, <1>9, <1>11, <2>3 DEF Registry!AddsNoRego
  <2>7. Compiles(ModulesOf(db')) => queries' = ModulesOf(db')
    BY <1>2, <1>4, <1>6, <2>4 DEF SequentialInv, Serves
  <2>8. up'
    BY <1>4, <1>11 DEF Finish
  <2> QED
    BY <1>2, <1>4, <1>6, <1>9, <1>11, <2>1, <2>2, <2>5, <2>6, <2>7, <2>8, Committed
<1>12. CASE GoTo(p, "classify") /\ UNCHANGED <<db, job>>
  <2>1. pc'[p] = "classify" /\ up' = up
    BY <1>0, <1>12 DEF GoTo
  <2>2. Settled' = db'
    BY <1>0, <1>1, <2>1, SettledIdleNext DEF AfterWrite
  <2>3. Progress(p)'
    BY <1>4, <1>12, <2>1 DEF Progress, AfterWrite
  <2> QED
    BY <1>2, <1>6, <1>12, <2>1, <2>2, <2>3, Unseen
<1> QED
  BY <1>5, <1>10, <1>11, <1>12 DEF Write

(* The steps after the write: Settled is the table without the write. *)
LEMMA AfterWritePromised ==
  ASSUME OneFaultlessClient, TypeOK, JobsOK, TypeOK', SequentialInv,
         NEW p \in Request, List(p) \/ Recompile(p) \/ Rollback(p)
  PROVE  Promised
<1> DEFINE j == job[p]
<1>0. /\ db \in Table /\ db' \in Table
      /\ pc \in [Request -> {"idle"} \cup BeforeWrite \cup AfterWrite]
      /\ job \in [Request -> Job \cup {None}]
  BY DEF TypeOK
<1>1. \A q \in Request : q = p
  BY DEF OneFaultlessClient
<1>2. pc[p] \in AfterWrite
  BY DEF List, Recompile, Rollback, Calls, AfterWrite
<1>3. JobShape(pc[p], j) /\ j \in Job /\ j.id \in PolicyID /\ Progress(p)
  BY <1>2 DEF JobsOK, JobOK, JobShape, Job, SequentialInv, AfterWrite
<1>4. Settled = [db EXCEPT ![j.id] = j.prev]
  BY <1>0, <1>2, SettledWriting
<1>5. /\ up /\ j.live /\ Wrote(j) /\ Consistent(db) /\ Consistent(Settled)
      /\ Serves(Settled)
  BY <1>2, <1>3 DEF Progress, SequentialInv
<1>6. j.prev \in Row \cup {None} /\ Settled \in Table
  BY <1>0, <1>3, <1>4 DEF Job, Table
<1>7. /\ Settled[j.id] = j.prev
      /\ \A other \in PolicyID \ {j.id} : db[other] = Settled[other]
  BY <1>0, <1>3, <1>4 DEF Table
<1>8. Settled = db \/ Registry!OneChange(Settled, db)
  <2>1. Settled[j.id] # None /\ db[j.id] # None => db[j.id].ptype = Settled[j.id].ptype
    BY <1>3, <1>5, <1>7 DEF Wrote, Job
  <2> QED
    BY <1>0, <1>3, <1>6, <1>7, <2>1, OneChangeAt
<1>9. ASSUME NEW at \in {"compile", "rollback"}, GoTo(p, at), UNCHANGED <<db, queries>>,
             NEW snap, job' = [job EXCEPT ![p].snap = snap],
             at = "compile" => snap = ModulesOf(db),
             at = "rollback" => ~Compiles(ModulesOf(db))
      PROVE  Promised
  <2>1. pc'[p] = at /\ up' = up
    BY <1>0, <1>9 DEF GoTo
  <2>2. job'[p] = [j EXCEPT !.snap = snap]
    BY <1>0, <1>9
  <2>3. /\ job'[p].id = j.id /\ job'[p].prev = j.prev /\ job'[p].op = j.op
        /\ job'[p].patch = j.patch /\ job'[p].live = j.live /\ job'[p].snap = snap
    BY <1>3, <2>2 DEF Job
  <2>4. Settled' = [db' EXCEPT ![j.id] = j.prev]
    BY <1>0, <1>9, <2>1, <2>3, SettledWritingNext DEF AfterWrite
  <2>5. Progress(p)'
    BY <1>3, <1>5, <1>9, <2>1, <2>3 DEF Progress, Wrote, AfterWrite
  <2> QED
    BY <1>4, <1>5, <1>9, <2>1, <2>4, <2>5, Unseen
<1>10. CASE List(p)
  BY <1>9, <1>10 DEF List
<1>11. ASSUME Finish(p, "ok")
       PROVE  up' /\ Settled' = db' /\ \A q \in Request : pc'[q] = "idle"
  BY <1>0, <1>1, <1>5, <1>11, SettledIdleNext DEF Finish, AfterWrite
<1>12. CASE Recompile(p)
  <2>1. pc[p] = "compile" /\ db' = db /\ j.snap = ModulesOf(db)
    BY <1>3, <1>12 DEF Recompile, Progress
  <2>2. CASE SwapQueries(j.snap) /\ Finish(p, "ok")
    BY <1>5, <1>8, <1>11, <2>1, <2>2, Committed DEF SwapQueries
  <2>3. CASE KeepQueries(j.snap) /\ j.op = "delete" /\ Finish(p, "ok")
    <3>1. Registry!AddsNoRego(Settled, db)
      BY <1>3, <1>5, <1>7, <2>3 DEF Registry!AddsNoRego, Wrote
    <3> QED
      BY <1>5, <1>8, <1>11, <2>1, <2>3, <3>1, Committed DEF KeepQueries
  <2>4. CASE KeepQueries(j.snap) /\ j.op # "delete" /\ RecompileFailed(p)
    BY <1>9, <2>1, <2>4 DEF KeepQueries, RecompileFailed
  <2> QED
    BY <1>12, <2>2, <2>3, <2>4 DEF Recompile, RecompileFailed
<1>13. CASE Rollback(p)
  <2>1. pc[p] = "rollback" /\ db' = Undo(j) /\ queries' = queries
        /\ Finish(p, "internal")
    BY <1>13 DEF Rollback, Calls
  <2>2. db' = Settled
    <3>1. CASE j.op = "create"
      BY <1>4, <1>5, <2>1, <3>1 DEF Undo, Deleted, Wrote
    <3>2. CASE j.op = "update"
      <4>1. j.prev \in Row /\ db[j.id] # None /\ db[j.id].ptype = j.prev.ptype
        BY <1>3, <1>5, <2>1, <3>2 DEF JobShape, Wrote
      <4>2. KeepType(db, j.id, j.prev) = j.prev
        BY <1>0, <1>3, <4>1, WriteKeepsType
      <4>3. Settled[j.id] # None
        BY <1>7, <4>1, EnvironmentAssumption
      <4>4. ~UniqueClash(Settled, j.id, j.prev)
        BY <1>3, <1>5, <1>7, <4>3 DEF Consistent
      <4>5. ~UniqueClash(db, j.id, j.prev)
        BY <1>7, <4>4 DEF UniqueClash, NameTaken, PriorityTaken
      <4> QED
        BY <1>4, <2>1, <3>2, <4>1, <4>2, <4>5 DEF Undo, CanUpdate, Updated
    <3> QED
      BY <1>3, <2>1, <3>1, <3>2 DEF JobShape
  <2>3. pc'[p] = "idle" /\ up' = up
    BY <1>0, <2>1 DEF Finish
  <2>4. Settled' = db'
    BY <1>0, <1>1, <2>3, SettledIdleNext DEF AfterWrite
  <2> QED
    BY <1>5, <2>1, <2>2, <2>3, <2>4, Unseen
<1> QED
  BY <1>10, <1>12, <1>13

(* No call fails and no context is cancelled. *)
LEMMA ProcessPromised ==
  ASSUME OneFaultlessClient, TypeOK, JobsOK, TypeOK', SequentialInv, Start \/ Crash
  PROVE  Promised
<1>0. db \in Table /\ db' \in Table /\ db' = db /\ Consistent(db)
  BY DEF TypeOK, Start, Crash, SequentialInv
<1>1. CASE Start
  <2>1. \A p \in Request : pc[p] = "idle" /\ pc'[p] = "idle"
    BY <1>1 DEF Start, SequentialInv, Progress
  <2>2. Settled = db /\ Settled' = db'
    BY <1>0, <2>1, SettledIdle, SettledIdleNext DEF AfterWrite
  <2>3. Compiles(ModulesOf(db)) /\ queries' = ModulesOf(db) /\ ~up /\ up'
    BY <1>1 DEF Start, SwapQueries
  <2>4. SequentialInv'
    BY <1>0, <2>1, <2>2, <2>3 DEF SequentialInv, Serves
  <2>5. Registry!Boot
    BY <1>0, <2>2, <2>3, SameOperators DEF Registry!Boot
  <2> QED
    BY <2>4, <2>5 DEF Promised, Registry!RegistryNext
<1>2. CASE Crash
  <2>1. \A p \in Request : pc'[p] = "idle"
    BY <1>2 DEF Crash
  <2>2. Settled' = db'
    BY <1>0, <2>1, SettledIdleNext DEF AfterWrite
  <2>3. up /\ ~up' /\ queries' = NoModules
    BY <1>2 DEF Crash
  <2>4. SequentialInv'
    BY <1>0, <2>1, <2>2, <2>3 DEF SequentialInv
  <2>5. Settled = db \/ Registry!OneChange(Settled, db)
    <3>1. CASE \A p \in Request : pc[p] \notin AfterWrite
      BY <1>0, <3>1, SettledIdle
    <3>2. ASSUME NEW p \in Request, pc[p] \in AfterWrite
          PROVE  Settled = db \/ Registry!OneChange(Settled, db)
      <4> DEFINE j == job[p]
      <4>1. j \in Job /\ j.id \in PolicyID /\ Wrote(j)
        BY <3>2 DEF JobsOK, JobOK, JobShape, Job, SequentialInv, AfterWrite, Progress
      <4>2. Settled = [db EXCEPT ![j.id] = j.prev]
        BY <1>0, <3>2, SettledWriting
      <4>3. /\ Settled \in Table /\ Settled[j.id] = j.prev
            /\ \A other \in PolicyID \ {j.id} : db[other] = Settled[other]
        BY <1>0, <4>1, <4>2 DEF Table, Job
      <4>4. Settled[j.id] # None /\ db[j.id] # None
              => db[j.id].ptype = Settled[j.id].ptype
        BY <4>1, <4>3 DEF Wrote, Job
      <4> QED
        BY <1>0, <4>1, <4>3, <4>4, OneChangeAt
    <3> QED
      BY <3>1, <3>2
  <2>6. Registry!Die
    BY <1>0, <2>2, <2>3, <2>5, SameOperators DEF Registry!Die
  <2> QED
    BY <2>4, <2>6 DEF Promised, Registry!RegistryNext
<1> QED
  BY <1>1, <1>2

LEMMA NextPromised ==
  ASSUME OneFaultlessClient, TypeOK, JobsOK, TypeOK', SequentialInv, [Next]_vars
  PROVE  Promised
<1>1. ASSUME NEW p \in Request, Step(p)
      PROVE  Promised
  <2>1. ~StoreError(p) /\ ~LoseAnswer(p)
    BY DEF StoreError, LoseAnswer, OneFaultlessClient, SequentialInv, Progress
  <2> QED
    BY <1>1, <2>1, BeforeWritePromised, WritePromised, AfterWritePromised DEF Step
<1>2. ASSUME NEW p \in Request, Arrival(p) \/ Cancel(p)
      PROVE  Promised
  BY <1>2, ArrivalPromised DEF Cancel, OneFaultlessClient
<1>3. CASE UNCHANGED vars
  <2>1. UNCHANGED <<db, queries, up, pc, job>> /\ Settled' = Settled
    BY <1>3 DEF vars, Settled
  <2>2. \A p \in Request : pc'[p] # "idle" => Progress(p)'
    BY <2>1 DEF SequentialInv, Progress, Wrote
  <2>3. (up => Serves(Settled))' /\ Consistent(db') /\ Consistent(Settled')
    BY <2>1 DEF SequentialInv, Serves
  <2>4. SequentialInv'
    BY <2>2, <2>3 DEF SequentialInv
  <2> QED
    BY <2>1, <2>4 DEF Promised
<1> QED
  BY <1>1, <1>2, <1>3, ProcessPromised DEF Next

LEMMA InitSequential == Init => SequentialInv /\ Registry!RegistryInit
<1> SUFFICES ASSUME Init PROVE SequentialInv /\ Registry!RegistryInit
  OBVIOUS
<1>1. db \in Table /\ \A p \in Request : pc[p] = "idle"
  BY DEF Init, Table
<1>2. Settled = db
  BY <1>1, SettledIdle DEF AfterWrite
<1>3. Consistent(db)
  BY DEF Init, Consistent
<1> QED
  BY <1>1, <1>2, <1>3, SameOperators DEF Init, SequentialInv, Registry!RegistryInit

-----------------------------------------------------------------------------
(* The theorems *)

LEMMA SequentialInvariant ==
  ASSUME OneFaultlessClient
  PROVE  Spec => []SequentialInv
<1>1. TypeOK /\ JobsOK /\ TypeOK' /\ SequentialInv /\ [Next]_vars => SequentialInv'
  BY NextPromised DEF Promised
<1> QED
  BY <1>1, InitSequential, Typing, PTL DEF Spec

(* To one faultless client the service is PolicyRegistry: every mutation
   changes the stored policies and the policies the engine serves together, or
   neither, and only a crash may leave a write behind that nobody was told of. *)
THEOREM ServiceImplementsRegistry ==
  ASSUME OneFaultlessClient
  PROVE  Spec => ImplementsRegistry
<1>1. TypeOK /\ JobsOK /\ TypeOK' /\ SequentialInv /\ [Next]_vars
        => [Registry!RegistryNext]_<<Settled, queries, up>>
  BY NextPromised DEF Promised
<1>2. Init => Registry!RegistryInit
  BY InitSequential
<1> QED
  BY <1>1, <1>2, SequentialInvariant, Typing, PTL
     DEF Spec, ImplementsRegistry, Registry!RegistrySpec

(* Between the requests of one faultless client the engine has exactly the
   stored policies, unless these do not compile. *)
THEOREM EngineFollowsDatabase ==
  ASSUME OneFaultlessClient
  PROVE  Spec => []EngineMatchesDB
<1>1. ASSUME TypeOK, SequentialInv
      PROVE  EngineMatchesDB
  <2>1. Quiescent => Settled = db
    BY <1>1, SettledIdle DEF Quiescent, TypeOK, AfterWrite
  <2> QED
    BY <1>1, <2>1 DEF EngineMatchesDB, SequentialInv, Serves, Quiescent
<1> QED
  BY <1>1, SequentialInvariant, Typing, PTL

(* The PATCH of one faultless client changes no field its body omits: the row
   it writes back was merged with the row that is still stored. *)
THEOREM PatchesKeepOmitted ==
  ASSUME OneFaultlessClient
  PROVE  Spec => PatchKeepsOmitted
<1>1. ASSUME TypeOK, JobsOK, SequentialInv, NEW p \in Request, Write(p), db' # db
      PROVE  LET j == job[p] IN
             /\ j.patch.name = None => db'[j.id].name = db[j.id].name
             /\ j.patch.prio = None => db'[j.id].prio = db[j.id].prio
             /\ j.patch.rego = None => db'[j.id].rego = db[j.id].rego
             /\ j.patch.enabled = None => db'[j.id].enabled = db[j.id].enabled
  <2> DEFINE j == job[p]
             row == KeepType(db, j.id, j.row)
  <2>1. pc[p] = "write" /\ db[j.id] # None /\ db' = Updated(db, j.id, j.row)
    BY <1>1 DEF Write, Calls, CanUpdate
  <2>2. JobShape(pc[p], j) /\ j.id \in PolicyID /\ Progress(p)
    BY <1>1, <2>1 DEF JobsOK, JobOK, JobShape, Job, SequentialInv
  <2>3. db'[j.id] = row
    BY <1>1, <2>1, <2>2 DEF TypeOK, Table, Updated
  <2>4. /\ row.name = j.row.name /\ row.prio = j.row.prio
        /\ row.rego = j.row.rego /\ row.enabled = j.row.enabled
    BY <2>1, <2>2 DEF KeepType, JobShape, Row
  <2>5. j.row = Merge(j.patch, db[j.id])
    BY <2>1, <2>2 DEF Progress
  <2>6. /\ j.patch.name = None => j.row.name = db[j.id].name
        /\ j.patch.prio = None => j.row.prio = db[j.id].prio
        /\ j.patch.rego = None => j.row.rego = db[j.id].rego
        /\ j.patch.enabled = None => j.row.enabled = db[j.id].enabled
    BY <2>5 DEF Merge, Or
  <2> HIDE DEF j, row
  <2> QED
    BY <2>3, <2>4, <2>6 DEF j
<1>2. TypeOK /\ JobsOK /\ SequentialInv /\ [Next]_vars =>
        [\A p \in Request : Write(p) /\ db' # db =>
           LET j == job[p] IN
           /\ j.patch.name = None => db'[j.id].name = db[j.id].name
           /\ j.patch.prio = None => db'[j.id].prio = db[j.id].prio
           /\ j.patch.rego = None => db'[j.id].rego = db[j.id].rego
           /\ j.patch.enabled = None => db'[j.id].enabled = db[j.id].enabled]_vars
  BY <1>1
<1> QED
  BY <1>2, SequentialInvariant, Typing, PTL DEF Spec, PatchKeepsOmitted

=============================================================================
