# Policy manager: TLA+ models

This directory specifies the policy manager, model-checks the specifications
with TLC on small instances, and proves theorems about them with TLAPS. Source
paths below are relative to the repository's `src/`.

## 1. The system

The policy manager stores policies (Rego source with a type, a priority and
labels) through a public API, keeps them compiled in an embedded OPA engine,
and evaluates service instance requests against all of them through an internal
API. Every HTTP request runs in a goroutine of its own.

| Component | State | Operations | Module |
|---|---|---|---|
| Policy service, `internal/service/policy.go` | none of its own: local variables of requests in flight | `CreatePolicy`, `UpdatePolicy`, `DeletePolicy`, `CompileAll`, `GetPolicy`, `ListPolicies` | PolicyService, PolicyAPI, PolicyListWalk |
| Policy store, `internal/store/policy.go` | the table `policies` with two unique indexes besides the key | `Create`, `Update`, `Delete`, `Get`, `ListAll`, `List`, `mapUniqueConstraintError` | PolicyStore, PolicyListing |
| Listing, `internal/service/filter.go`, `orderby.go` | none; a page token is an offset | `parseFilter`, `parseOrderBy`, `getListOptions` | PolicyListing, PolicyListWalk |
| Embedded engine, `internal/opa/engine.go` | the query map; `compileMu`, `mu` | `Compile`, `EvaluatePolicy`, `ValidateRego` | OpaEngine, OpaEngineLocks |
| Evaluation service, `internal/service/evaluation.go` | of one evaluation: spec, provider, constraint context | `EvaluateRequest`, `evaluatePolicy`, `mergePatch` | PolicyEvaluation, EvaluationService, SpecDocument |
| Constraint context, `internal/service/constraints.go` | schemas by field path, provider constraints | `MergeConstraints`, `ValidatePatch`, `MergeSPConstraints`, `ValidateServiceProvider` | ConstraintContext |
| Label matcher, `internal/service/labelmatcher.go` | none | `MatchesLabelSelector` | RequestEvaluation |
| Public API handlers, `internal/handlers/v1alpha1` | none | five operations, their statuses and log levels | PolicyAPI |
| Engine API handlers, `internal/handlers/engine` | none | `EvaluateRequest`, labels, statuses | RequestEvaluation |
| HTTP servers, `internal/apiserver`, `internal/engineserver` | serving or not, requests in flight | `Run` with its shutdown hook | ServerLifecycle |
| Process, `cmd/policy-manager/main.go` | how far `run` is, the error channel, the context | `run`, `runServers` | ServerLifecycle; `Start` and `Crash` of PolicyService |
| Converter, `internal/service/converter.go` | none | defaults of a new row | operators of PolicyService |
| Configuration, logging, database opening, generated code | none that the properties see | | their failures only, see section 8 |

How they interact. A mutation is a sequence of separate calls: validate, write
the row, read all rows, compile them, and on failure write the old row back.
There is no transaction around the sequence and no lock in the service, so
any number of these sequences interleave at every call. The engine is a second
copy of what the table says, rebuilt from it. An evaluation lists the enabled
policies page by page and asks the engine about each, in between the
mutations; a client that lists policies does the same over HTTP. Within an
evaluation each policy sees the spec and the constraints the earlier ones left.
Two servers, their shutdown hooks and the main goroutine talk through a context
and a channel.

What is hard, then, and what correctness means:

* **Service and engine.** Two copies of one state, changed without a transaction.
  Correct: they agree when nothing is in flight; a refused mutation changes
  neither; whatever went wrong before, a later mutation repairs it; a request
  answered as the client's fault left no trace.
* **Failure.** The context of a request is cancelled when the client disconnects,
  a store call fails with or without having taken effect, the process dies: each
  may come between any two calls, the rollback included.
* **Stale reads.** An update writes a row computed from an earlier read. A
  uniqueness error is explained by reads made after it. A page of policies is
  evaluated with a later engine.
* **Pages.** The next page is an offset into a table that may have changed.
  Correct: exact when nothing changed, and nobody left out, or nobody repeated,
  under the changes that allow it.
* **Engine locks.** Two mutexes, one taken under the other, with an error path
  between them. Correct: no data race, calls are atomic, calls return.
* **Constraints.** A later policy must never loosen what an earlier one set. That
  is a property of a chain of decisions, each merged keyword by keyword, with
  patches at any depth.
* **Start and stop.** Either server may fail at any moment, and a signal may
  arrive at any moment. Correct: the database outlives the servers, the process
  ends, and its exit code is true.

`PROJECT.json` lists each of these hazards at its line, with the properties
that would catch it.

## 2. Modules

```
PolicyData ── PolicyStore ──┬── PolicyRegistry (abstract)
          └── OpaEngine ────┤        ^ INSTANCE, refinement mapping
                  │         └── PolicyService ──┬── PolicyRefinement ── MCPolicyService
                  │                             ├── PolicyServiceProofs ── PolicySequentialProofs (1)
                  │                             ├── PolicyAPI ──┬── PolicyAPIProofs
                  │                             │               └── MCPolicyAPI
                  │         PolicyStore ── PolicyListing
                  │                             ├── PolicyEvaluation ── MCPolicyEvaluation
                  │                             └── PolicyListWalk ──┬── MCPolicyListWalk
                  │                                              └── PolicyListProofs (2)
                  ├── AtomicEngine (abstract)
                  │        ^ INSTANCE                  SpecDocument ── ConstraintContext
                  └── OpaEngineLocks                        └── EvaluationService
                        ├── OpaEngineLocksProofs                  ├── EvaluationServiceProofs
                        └── MCOpaEngineLocks                      ├── MCEvaluationService
                                                                  └── RequestEvaluation
ServerLifecycle ──┬── ServerLifecycleProofs                            ├── RequestEvaluationProofs
                  └── MCServerLifecycle                                └── MCRequestEvaluation

(1) also extends PolicyRefinement
(2) also extends PolicyEvaluation and PolicySequentialProofs
```

**PolicyStore.** The table is a function from ids to rows or `None`. Each store
call is one SQL statement and hence one atomic operator. `Update` keeps
`policy_type` because the statement names its columns, without that one.
`mapUniqueConstraintError` looks for the clash with up to three reads, and each
of them is a step of its own.

**OpaEngine** is the engine as the service sees it: `SwapQueries` or
`KeepQueries`. What OPA accepts is the constant predicate `Compiles`; all that is
assumed of it is that a list that compiles has only modules that parse, and that
the empty list compiles. Nothing says that a part of what compiles compiles:
modules may depend on each other and may clash.

**PolicyService** has one action per call: `BeginCreate`, `Insert`, `Classify`;
`BeginUpdate`, `Read`, `Write`; `BeginDelete`, `Remove`; and the shared `List`,
`Recompile`, `Rollback`, `StoreError`, `LoseAnswer`, `Cancel`. `pc[p]` names the
call request `p` makes next and `job[p]` holds the handler's local variables.
Validation that makes no call is part of the step that follows or precedes it.
`StoreError` is a call that failed without effect, `LoseAnswer` a statement that
took effect and whose answer was lost: the service treats both alike.
`Start` is `run` up to serving, `Crash` loses the engine and everything in flight
and keeps the table. `MayCancel`, `MayFail`, `MayCrash` switch the faults on.
`sent` and `alone` are histories that only properties read. A row has the
columns the program acts on; `description` and `label_selector` are carried the way
`enabled` is.

**PolicyRegistry** is the promise to a client that waits for each answer: a
mutation changes what is stored and what is served together or not at all.
`MutateAside` is the exception the code makes for deletes. **PolicyRefinement**
gives the mapping: a row under a request whose compilation is undecided still
counts as it was before (`Settled`).

**PolicyAPI** puts the handlers over the service. `answer` is the HTTP answer the
last step sent: its status from one of five switches on the error's type, its
log level from a sixth. `Malformed` is the refusal of the generated wrapper,
before any handler. `wrote` is a history: the request has changed the table.

**OpaEngineLocks** takes every lock operation and every access to the map as a
step. `Lock` announces the writer and `Drain` waits for the readers inside, as
`sync.RWMutex` does. **AtomicEngine** is what callers may assume: each call takes
effect at one instant between its invocation and its return.

**PolicyListing** has the operators of listing: a filter is its clauses and the
words between them, `order_by` its parts, each a sequence of words; the
conversions do what the regular expressions and the splitting do, such as taking
the first clause on a field wherever it stands. `Results` is the set of answers
SQL allows: rows the terms do not tell apart come in any order, anew in each
query. **PolicyListWalk** composes them with PolicyService and a client, `walk`,
that asks for page after page; `older` is the order of the `create_time` column.
GORM stamps that column before it sends the INSERT, so a row may turn out older
than rows inserted while its create was at the INSERT (`Stamp`, `since`).

**PolicyEvaluation** composes PolicyService with one evaluation, `scan`. Any
step of the service may come between `ListPage` (a `List` at an offset) and
`AskNext` (an `EvaluatePolicy` with whatever the engine holds then). `quiet`,
`kept` and `steady` are histories.

**SpecDocument**, **ConstraintContext**, **EvaluationService** model what a chain of
decisions does. A document is a function from paths to nodes; `ValueAt(d, p)` is the
whole JSON value at a path, and `Members(d, p)` what the object there has. A schema
has the keywords `mergeSchemaKeywords` treats differently: `const`, `enum`, `min` and
`max` for the bounds of numbers and of lengths, `minProperties` and `maxProperties`
for those of objects, `multipleOf`, `pattern` and `allOf`, which stands for all that
are overridden. The values of keywords have the types JSON Schema gives them, and a
`const` or an `enum` may name whole objects (`Literal`). `PatchAllowed` validates what
the patch has at a path, as `validatePatchRecursive` does, not what the merge makes
of it. `Evaluate(d)` is `evaluatePolicy` with the policy's answer
`d`, any member of the constant `Decision`; each evaluation thus meets any chain of
decisions. Go ranges over the keywords of a schema in any order, and the
one pair for which it matters, `pattern` and `allOf`, is a nondeterministic
choice. `renumbered` are the numbers that came from a policy, which `Finish` tells
from those of the request. `laid` and `promised` are histories.

**RequestEvaluation** is one request to the engine API from its spec to its
status: the handler derives the labels, the walk passes the policies whose
selector does not match (`Skip`) or whose `main` is undefined (`AskUndefined`),
and `AskDefined` is `Evaluate` of EvaluationService with the decision of the
policy whose turn it is. It implements EvaluationService, which promises the
same of any chain of decisions.

**ServerLifecycle** is the process: `at` is how far `run` has come, `state[s]` the
goroutine in `Run` of server `s`, `hook[s]` the one that waits for the context
and calls `Shutdown`, `errs`, `closed` and `firstErr` the error channel as
`runServers` uses it, `work[r]` a request in flight. `Shutdown` and `Serve`
behave as `net/http` documents: `Serve` returns as soon as `Shutdown` is called,
`Shutdown` returns when no request is in flight or its context expires.

## 3. Runs that pass

| Run | Instance | What it asks |
|---|---|---|
| PolicySequential | two ids, one request at a time, twelve POST and ten PATCH bodies, crashes | `TypeOK`; `EngineMatchesDB`; `ImplementsRegistry`; `PatchKeepsOmitted`; `Responds` |
| PolicyConcurrent | the API, two ids, two requests that overlap, colliding bodies | `SoloMutationHeals`; `PolicyTypeImmutable`; `RefusedWithoutTrace`; `SeverityMatchesStatus` |
| PolicyFaults | one id, two requests, cancellation, store failures, lost answers and crashes everywhere | `StoredRegoParses`; `SoloMutationHeals` |
| OpaEngineLocks | three goroutines, two ids, three lists | `NoDataRace`; `ImplementsAtomicEngine`; `CallsReturn`; no deadlock |
| PolicyEvaluation | two ids, one mutation and one evaluation at a time, pages of one policy, crashes | `QuietEvaluationIsExact`; `SteadyPoliciesAsked`; `EvaluationEnds` |
| EvaluationService | five paths, numbers, strings and objects, twenty decisions in any order and number | `TypeOK`; `GuardrailsHold`; `PatchesObeyLaid`; `ProvidersOnlyNarrow`; `SelectionAllowed`; `LockHolds` |
| PolicyListWalk | three ids, eight list requests, pages of one or two, creates and deletes in between | `QuietWalkIsExact`; `GrowingWalkMissesNothing`; `ShrinkingWalkRepeatsNothing`; `WalkEnds` |
| RequestEvaluation | seven specs, lists of up to three policies with five selectors and six answers | `AskedByRequestLabels`; `ImplementsEvaluationService`; `EveryRequestAnswered` |
| ServerLifecycle | two servers, two requests in flight, a failure at every stage, signals | `StoreOutlivesServers`; `ExitCodeTells`; `StopsForGood` |

Four of these properties are the part that holds of a promise the code breaks.
`EngineMatchesDB` is restricted to a sequential client because with two requests
it fails (section 4). What remains true of concurrent requests is
`SoloMutationHeals`: the next create or change of Rego that meets no
other request and is acknowledged makes the engine equal to the table again.
`SteadyPoliciesAsked` promises that an evaluation asks every policy nobody
touched only if no enabled policy gives up its place in the order meanwhile, and
`LockHolds` that a value locked by a `const` stays unless the object around it is
taken away. `GuardrailsHold` is about scalars: that an object in the spec satisfies
what was laid on it is false of the code (section 4). What holds of objects is
`PatchesObeyLaid`, that no patch is applied that breaks by itself, at any of its
paths, a constraint ever laid there, and `LockHolds`, where the `const` may be an object.

Bounds and why they are enough. The unique indexes, the interleavings and the
page boundary of an evaluation all need two rows and no more; two requests are the
smallest number that interleaves, and each reads and writes shared state at most
seven times. In PolicyFaults one id suffices, since rollbacks, rereads and
recreation are about one row. A walk takes three rows, so that there is a
page between the first and the last, with one row disabled and two of the same
priority, so that ties happen; its mutations come one at a time, so that a create
whose row turns out older than another's is left to the theorems. The sources are chosen so that
each outcome occurs: two that compile together, two that each compile
and clash, one that needs another, one that does not parse. Priorities 0, 1,
1000 and 1001 are tried. Three callers of the engine are two compilations and a
reader, or two readers and a writer. In EvaluationService the depth-two path
makes nested patches and removed parents happen; the constraints on it meet one
another in every order. A second path under the same object gives that object two
members that can be patched one by one, so that its size, and a `const` that
names it as a whole, meet patches of a part of it. A label that is no string, a missing service type, a
label called `service_type` and labels that are no object are among the specs of
RequestEvaluation, and three policies let one act between two others.

Reductions. `Request` is a symmetry set in PolicyConcurrent and PolicyFaults, and
in the former the ids are too: no liveness is checked there, nothing
distinguishes the slots, and the service neither orders ids nor chooses among
them. PolicyListWalk has a view, `WalkView`. It leaves out the
answers of the service and the engine, which no property of the run reads and, in a
run without faults where everything compiles, no guard whose step changes the
table; and the histories of a walk that has lost the promise they serve.

Deadlock is checked except where the system may stop for good: a process that
crashed with policies that do not compile cannot start again, a process that has
exited stays so, and an evaluation that has ended takes no further step.

Fairness. `Step(p)` is weakly fair because the Go runtime runs a goroutine that
can run and a store call returns or fails; `Start` is, because the container is
restarted. Clients, cancellations, failures and crashes owe nothing. In
OpaEngineLocks acquiring a lock is strongly fair: a Go mutex in starvation mode
hands itself to a waiter that has waited long, and an `RWMutex` lets waiting
readers in after a writer. In PolicyEvaluation only the evaluation itself is
fair, so it ends whatever else happens; ids are finite there, while in the
program a table that grew faster than pages are read would postpone the end. In
PolicyListWalk the client that walks asks for the next page and is served. In
RequestEvaluation the goroutine of the request runs. In ServerLifecycle every
goroutine of the process runs and timers expire; requests in flight owe nothing,
not even an answer.

## 4. Where the code and its documents disagree

Three runs end in a counterexample, each for one property that a document or a
comment states.

* **StaleEngine** (`EngineMatchesDB`, `policy.go:117`). Request 1 lists the table,
  request 2 writes, lists and compiles, request 1 compiles its older list. The
  engine lacks request 2's policy until the next mutation.
* **CancelledRollback** (`RollbackRestores`, `policy.go:168`). The client
  disconnects after the write: `ListAll` fails on the cancelled context, so does the
  rollback, and the failure is only logged.
* **GracefulShutdown** (`DrainsBeforeExit`, `apiserver/server.go:79`). `Serve`
  returns as soon as `Shutdown` is called, and nothing waits for the goroutine that
  is still in it: the process exits with code 0 while requests are in flight.

Also met while modelling. The models contain the behaviour; the properties of the
passing runs are worded so as to leave it open.

Of concurrent requests:

* Two overlapping PATCHes of different fields: the later write carries the fields
  the earlier request changed as they were (`policy.go:423`), where
  `README.md:223` says that omitted fields are unchanged. A Rego change lost so
  is not recompiled either.
* The rollback of an update restores the row as this request read it, over what
  another request wrote in between (`policy.go:434`); that of a create deletes the
  row although another request changed it (`policy.go:168`).
* A create refused by a unique index is answered 500 when the row it clashed with
  is gone before `mapUniqueConstraintError` looks (`store/policy.go:166`).

Of failures:

* A delete of a policy others depend on is acknowledged (`policy.go:467`), although
  the specification's REQ-XC-ERR-020 asks for a rollback whenever the compilation
  after a write fails. Afterwards every create and every change of Rego is
  refused until the dependency is gone, and the process cannot restart.
* A crash between a write and its rollback can leave a table that does not
  compile, and `run` then exits at each start (`main.go:74`).

Of pages:

* Between two pages of an evaluation a policy of an earlier page is deleted or
  disabled. The offset then points one row too far and a policy nobody touched is
  not asked (`evaluation.go:77`). A page has 1000 policies.
* A GLOBAL policy created while the first page is evaluated may be asked after a
  USER policy of that page; `README.md:654` says GLOBAL always runs before USER.
* An `order_by` that does not tell rows apart, such as `priority`, is not completed
  by the key (`store/policy.go:95`): a page may repeat a policy of the last one and
  omit another though the table did not change.
* Without `order_by` the order is type, priority, id (`orderby.go:10`);
  `api/v1alpha1/openapi.yaml:120` and `:166` say `priority asc`.
* A filter of two clauses joined by `OR` is answered as if joined by `AND`, and an
  unknown clause beside a known one is passed over (`filter.go:50`); the comment at
  `filter.go:28` promises an error for invalid expressions.

Of evaluation:

* With `{"a.b": {"const": 2}}` in force, the patch `{"a": null}` removes `a.b`, and
  `{"a": "x"}` replaces it: only paths present in the patch are validated
  (`constraints.go:97`), where `README.md:604` promises a conflict.
* Of an object, the patch is validated and not what the merge leaves
  (`constraints.go:104`, `evaluation.go:204`). With `{"a": {"maxProperties": 1}}` in force,
  the patches `{"a": {"b": 1}}` and `{"a": {"c": 1}}` of two policies both pass, and `a`
  ends up with two members; an `enum` of objects is escaped likewise.
  `README.md:604` promises a conflict for a patch value that violates the constraints,
  which each of the two, taken alone, does not. `GuardrailsHold` extended to
  objects is violated by these three decisions.
* A number a policy patches over an equal one of the request makes the answer
  MODIFIED: OPA's numbers are `json.Number`, those of the request `float64`, and
  `deep.Equal` tells them apart (`evaluation.go:115`); `README.md:332` has APPROVED for
  a request that is unchanged.
* The paths `a.b` and `a_b` get one schema resource name (`constraints.go:411`), and
  a patch of both is refused though it satisfies both constraints.
* A label `service_type` in `spec.metadata.labels` replaces the service type that
  selectors see (`handlers/engine/converters.go:44`, `README.md:635`).
* Policies that declare one package answer for each other (`opa/engine.go:75`); the
  specification says at `.ai/specs/policy-persistence.md:760` that policies are
  looked up by id and not by package. All modules are compiled together, so the `main`
  of one may also read the rules of another and change with it.
* `mergePatch` stores a patch object that has no object below it as it is, nulls
  included, where RFC 7396 drops them (`evaluation.go:251`).
* A second `pattern` is ANDed through `allOf`, which the `allOf` of a later policy
  replaces (`constraints.go:384`); the comment there concedes it for overridden
  keywords in general.

Of single requests:

* `validatePatchInput` accepts a blank `display_name`, which a POST may not have
  (`policy.go:318`), and any string is accepted as `policy_type` (`policy.go:61`).
* `README.md:234` says immutable fields in a PATCH are ignored;
  `validatePatchImmutableFields` refuses those that differ.
* `README.md:219` says a list has an empty `rego_code`; the code returns it.

## 5. What is proved

TLAPS checks the following for any finite or infinite sets of ids, requests,
bodies, sources, patterns, providers, decisions and servers, and for any finite set of paths.

**PolicyServiceProofs.** `TypeCorrect`, `PolicyTypeNeverChanges`,
`StoredRegoAlwaysParses` and `SoloMutationsHeal`, lost answers included. The
assumptions are `CompileParses` and `EnvironmentAssumption` of the modules. `TypeOK`
alone is not inductive: that `Write` stores a row depends on what `Read` left in
`job`. The strengthening is `JobsOK`: for each call, which kind of request may be at
it and which of its local variables are then rows. For the Rego, `JobsParse` adds
that the rows a handler holds to write, or to write back, hold Rego that parses;
without the second half a rollback could store anything. For `SoloMutationHeals`,
`AllAloneOK` says that a request nobody overlapped is the only one in flight and that
what it listed is what the table still holds when it compiles. Each of the three has
one step per action, and a lemma that what the other requests keep stays true.

**PolicyAPIProofs.** `RefusedRequestsLeaveNoTrace`, for any number of requests and all
faults. The strengthening `WroteOK` says that a request that has changed the table
is past its write; `StepEffects` goes through the calls of the service and finds
that past the write only success and internal errors are returned, and
`OnlyRequestErrorsAre4xx` through the switches of the handlers.

`SeverityIsTrue` says that a failure is logged as an error exactly when the answer
blames the server; `StepOutcomes` lists which errors each operation of the service can
return, and `SwitchesAgree` shows that for those the two switches agree.

**PolicySequentialProofs.** Three properties that only hold of a client that waits
for each answer: `ServiceImplementsRegistry`, `EngineFollowsDatabase`,
`PatchesKeepOmitted`. Their hypothesis is `OneFaultlessClient`: at most
one request at a time, and no call of the store that fails or is cancelled. It cannot be
dropped: StaleEngine shows `EngineMatchesDB` failing with two requests, CancelledRollback
one cancelled request whose write stays in the table. Crashes are allowed, and the sets of ids,
bodies and sources may be infinite. `SequentialInv` is the invariant: the table as
`Settled` has it, with the write of the request in flight undone, satisfies the unique
indexes and is what the engine serves if it compiles; and `Progress` says of each call what
the request has read and written so far, for example that the list it is about to
compile is the table. `Promised` collects what a step owes to the invariant, to the
refinement and to the PATCH property, and has one lemma for each part of a request:
its arrival, the calls before the write, the write, the calls after it.

**PolicyListProofs.** The safety properties of lists that are read a page at a time,
for any table, any page size, any filter and any `order_by`. They rest on one
number, the `Place` of a policy: how many rows come before it. Adding rows lets
places only grow, removing them lets places only shrink (`PlacesGrow`). In a query's
answer the row at index i has place i - 1 if the terms tell the rows apart
(`ResultsByPlace`, which rests on `OrderIsTotal`), so the page at offset n lists the rows
whose places start at n (`PageHolds`).

* `GrowingWalksMissNothing`, `ShrinkingWalksRepeatNothing` and `QuietWalksAreExact` follow
  from `WalkInv`: of each policy that was there at the start, it has been listed or its
  place is not before the offset; of each that has been listed while nothing was
  added, its place is before the offset; and without a change the pages so far
  are an initial part of the whole list. All three need that the order decides between any two
  rows, which `UniqueOrderDecides` derives from `order_by` as the properties word it.
  All faults and any number of requests are allowed.
* `SteadyPoliciesAreAsked` is the same argument for the loop of an evaluation, with the `Turn`
  of a policy among the enabled ones (`ScanInv`), for any number of requests and
  all faults.
* `QuietEvaluationsAreExact` assumes `OneFaultlessClient`, since it says with which Rego a
  policy answers. `QuietInv` adds to the above that the engine holds the Rego
  of every stored policy. That is weaker than `EngineMatchesDB` and is what is left of it
  after a delete that leaves modules which do not compile (`RegistryKeepsHeld`).
* `FilterSelects` is about `parseFilter` and the WHERE clause of `List` together: for a filter
  of the form the API describes, the rows selected are those that match all its clauses.

The counting needs that only finitely many rows are stored, which the theorems derive
(`FinitelyManyRows`) rather than assume: the table starts empty and a step writes one
row. `RankAssumption` says that the collation of a text column tells different texts apart, and
`NilAssumption` that no value of a field is nil.

**OpaEngineLocksProofs.** `MapIsNeverRaced` and `EngineIsAtomic`, for any number of
goroutines. `LocksOK` says who holds which lock at which step, and that a writer
that swaps has seen the last reader leave; from it the data race is excluded at
once. The refinement needs `CallsOK` too: at each step which operation the call is,
whether its list is known to compile, and whether its effect has already
happened. Then each step is an `Invoke`, an `Effect`, a `Return` or invisible.

**EvaluationServiceProofs.** `EvaluationTyped`, `ProvidersNarrow`, `SelectionsAllowed`,
`LocksHold`, `GuardrailsNeverFall` and `NoPatchEscapes`, from `PathAssumption`, `ConstraintAssumption` and
`DecisionAssumption`. Typing rests on `MergePatchTyped`: the merge of two documents is
a document, because the prefixes of a path form a chain (`UptoChain`) and the
decision at one of them is the decision for all below. `LocksHold` distinguishes
whether the patch has a value at the locked path. If it has, the value passed the
merged schema, which still has the `const` (`ConstStays`); if not, the path can
change only if an object above it does (`LackedPathStays`). It needs no assumption
about `allOf`. `GuardrailsHold` is not inductive,
since a patch is checked against the merged schema and the property is about each
schema it was merged from. The strengthening is `LaidImplied`: the schema in
force on a path implies each one laid there. `TightenedImplies` is its heart: two schemas
merged without a conflict accept only what both accept, keyword by keyword,
`DividesTransitive` being the case of `multipleOf`. A scalar has no members and no
value but itself, so whether it satisfies a schema does not depend on the document
around it (`SameScalar`); with it a patched scalar satisfies in the spec what it
satisfied in the patch. `NoPatchEscapes` needs only `LaidImplied`, and holds of objects
too. Paths are finitely many since the members of an object are counted. Both theorems assume `NoAllOf`, that no
policy sets an `allOf` of its own; without it the statement is false of the
code (section 4).

**RequestEvaluationProofs.** `WalkImplementsEvaluation`: every step of a request is a
step of EvaluationService or changes nothing of it, so the theorems above hold of
every request. `SelectedByRequestLabels`: the policies asked are those the labels of
the request as received select; the invariant says that `labels` is what was derived
from `request`, which no policy changes.

**ServerLifecycleProofs.** `LifecycleTyped`, `StoreIsClosedLast` and `ExitCodeIsTrue`, for
any number of servers. `MainOK` relates how far `run` has come to the states the
servers can be in, and `ErrorsOK` an error anywhere (in a goroutine, in the channel,
received) to a server that could not serve.

## 6. What is only model-checked

Every safety and action property of a run that passes is stated by a theorem. What stays
with TLC:

* Liveness under fairness: `Responds`, `CallsReturn`, `EvaluationEnds`, `WalkEnds`,
  `EveryRequestAnswered` and `StopsForGood`. The prover has no rules for it.
* That a query has an answer at all, that is, that a finite set of rows can be
  sorted: induction over data. A model in which `Results` were empty would get stuck,
  and `WalkEnds` and `EvaluationEnds` would be violated.
* The three disagreements of section 4. A counterexample is a proof of its own.

## 7. Assumptions of the models

* The database is serializable at the level of one statement.
* `uuid.New` returns an id nobody uses.
* JSON Schema validation, OPA's compiler and OPA's evaluation are
  external: a schema is satisfied or not, a set of modules compiles or not, a
  policy answers any decision. What the `main` of a policy yields when all modules
  are compiled together is not modelled: the properties say which Rego the engine
  holds for a policy, not what it computes.
* Numbers are integers, so rounding of floats in `math.Mod` is not seen. An array is a
  value without structure, so `Finish` does not tell an array of numbers a policy
  patched from an equal one of the request. `multipleOf: 0` and `allOf` are in the
  model and in the proofs (`allOf` as said there), not among the run's decisions.
* No two rows have the same `create_time`.
* A signal handler that is registered gets every signal, and a second signal
  changes nothing, as `signal.NotifyContext` has it.

## 8. Not modelled

* The generated clients and types encode and decode; they hold no state and take
  no decision. Of the generated server code the refusal of a request that does not
  decode is modelled (`Malformed`), not the routing.
* The converters of the handlers copy fields. `GetHealth` answers a constant.
* Values of the configuration, the format of the log, the logger of a request, the
  pool of database connections and the migration of the schema.
* Page tokens a client made up: the code takes one as an offset or as the first
  page, and any page of the table may follow.
* Values of the wrong JSON type in a decision, which `ParsePolicyDecision` takes as
  absent.
* What follows when OPA or the database returns something they should not.

## 9. Plan

Done: the service, store and engine with faults; the engine's locks; listing and
the client that walks it; the API over the service; the evaluation beside
mutations; constraints and patches; a whole evaluation request; the life of the
process; and the proofs of section 5, which cover every safety property checked.

Next:

1. What of `ServiceImplementsRegistry` survives failures: with one request at a time
   whose calls may fail, the database alone still implements a registry in which
   a mutation takes effect, is undone, or is left half done.
2. `GuardrailsNeverFall` without `NoAllOf`, for the keywords other than `pattern`,
   which no `allOf` of a later policy can loosen.
3. Termination measures for the two loops over pages, as action properties that can
   be proved: each page moves the offset, so only a growing table postpones
   the end.
