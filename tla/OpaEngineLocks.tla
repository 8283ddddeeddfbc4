--------------------------- MODULE OpaEngineLocks ---------------------------
(***************************************************************************)
(* internal/opa/engine.go with its two locks: compileMu serializes Compile *)
(* calls, mu guards the query map.  Every lock operation and every access  *)
(* to the map is a step; EvaluatePolicy runs the query it read after it    *)
(* gave mu back.                                                           *)
(***************************************************************************)
EXTENDS OpaEngine

CONSTANTS
  Caller,        \* goroutines that call the engine
  CompileArgs    \* the module lists Compile is called with

VARIABLES
  compileMu,     \* the caller that holds compileMu, or None
  writer,        \* the caller that holds mu for writing or waits for readers
  readers,       \* the callers that hold mu for reading
  pc,            \* pc[g]: the step caller g makes next
  call,          \* call[g]: the call g is in, None outside any
  local          \* local[g]: the result g has so far, None when it has none

vars == <<queries, compileMu, writer, readers, pc, call, local>>

Call == [op: {"compile"}, arg: CompileArgs] \cup [op: {"evaluate"}, arg: PolicyID]

Answer == [ok: BOOLEAN] \cup [query: Rego \cup {None}]

ASSUME CallersAssumption ==
  /\ CompileArgs \subseteq ModuleMap
  /\ None \notin Caller /\ None \notin Call /\ None \notin Answer

CompileSteps == {"lockCompile", "build", "lock", "drain", "swap", "unlock",
                 "unlockCompile"}
EvaluateSteps == {"rlock", "read", "runlock"}

TypeOK ==
  /\ queries \in ModuleMap
  /\ compileMu \in Caller \cup {None}
  /\ writer \in Caller \cup {None}
  /\ readers \in SUBSET Caller
  /\ pc \in [Caller -> {"out", "return"} \cup CompileSteps \cup EvaluateSteps]
  /\ call \in [Caller -> Call \cup {None}]
  /\ local \in [Caller -> Answer \cup {None}]

Init ==
  /\ queries = NoModules
  /\ compileMu = None /\ writer = None /\ readers = {}
  /\ pc = [g \in Caller |-> "out"]
  /\ call = [g \in Caller |-> None]
  /\ local = [g \in Caller |-> None]

Go(g, from, to) == pc[g] = from /\ pc' = [pc EXCEPT ![g] = to]

-----------------------------------------------------------------------------
(* Compile *)

CallCompile(g) ==
  /\ Go(g, "out", "lockCompile")
  /\ \E m \in CompileArgs : call' = [call EXCEPT ![g] = [op |-> "compile", arg |-> m]]
  /\ UNCHANGED <<queries, compileMu, writer, readers, local>>

LockCompile(g) ==
  /\ Go(g, "lockCompile", "build")
  /\ compileMu = None /\ compileMu' = g
  /\ UNCHANGED <<queries, writer, readers, call, local>>

(* Fault: a Compile that fails leaves an empty map. *)
BuildClearing(g) ==
  /\ \/ Go(g, "build", "lock") /\ Compiles(call[g].arg) /\ UNCHANGED <<queries, local>>
     \/ /\ Go(g, "build", "unlockCompile") /\ ~Compiles(call[g].arg)
        /\ local' = [local EXCEPT ![g] = [ok |-> FALSE]]
        /\ queries' = NoModules
  /\ UNCHANGED <<compileMu, writer, readers, call>>

(* Fault: the error path returns without the deferred unlock. *)
BuildKeepingLock(g) ==
  /\ \/ Go(g, "build", "lock") /\ Compiles(call[g].arg) /\ UNCHANGED local
     \/ /\ Go(g, "build", "return") /\ ~Compiles(call[g].arg)
        /\ local' = [local EXCEPT ![g] = [ok |-> FALSE]]
  /\ UNCHANGED <<queries, compileMu, writer, readers, call>>

(* An empty list and a list that compiles go on to replace the map; an error
   returns, and the deferred unlock runs. *)
Build(g) ==
  /\ \/ Go(g, "build", "lock") /\ Compiles(call[g].arg) /\ UNCHANGED local
     \/ /\ Go(g, "build", "unlockCompile") /\ ~Compiles(call[g].arg)
        /\ local' = [local EXCEPT ![g] = [ok |-> FALSE]]
  /\ UNCHANGED <<queries, compileMu, writer, readers, call>>

(* RWMutex.Lock keeps new readers out, then waits for those inside. *)
Lock(g) ==
  /\ Go(g, "lock", "drain")
  /\ writer = None /\ writer' = g
  /\ UNCHANGED <<queries, compileMu, readers, call, local>>

(* Fault: the writer does not wait. *)
DrainAtOnce(g) ==
  /\ Go(g, "drain", "swap")
  /\ UNCHANGED <<queries, compileMu, writer, readers, call, local>>

Drain(g) ==
  /\ Go(g, "drain", "swap")
  /\ readers = {}
  /\ UNCHANGED <<queries, compileMu, writer, readers, call, local>>

SwapMap(g) ==
  /\ Go(g, "swap", "unlock")
  /\ queries' = call[g].arg
  /\ local' = [local EXCEPT ![g] = [ok |-> TRUE]]
  /\ UNCHANGED <<compileMu, writer, readers, call>>

Unlock(g) ==
  /\ Go(g, "unlock", "unlockCompile")
  /\ writer' = None
  /\ UNCHANGED <<queries, compileMu, readers, call, local>>

UnlockCompile(g) ==
  /\ Go(g, "unlockCompile", "return")
  /\ compileMu' = None
  /\ UNCHANGED <<queries, writer, readers, call, local>>

-----------------------------------------------------------------------------
(* EvaluatePolicy *)

CallEvaluate(g) ==
  /\ Go(g, "out", "rlock")
  /\ \E id \in PolicyID : call' = [call EXCEPT ![g] = [op |-> "evaluate", arg |-> id]]
  /\ UNCHANGED <<queries, compileMu, writer, readers, local>>

RLock(g) ==
  /\ Go(g, "rlock", "read")
  /\ writer = None
  /\ readers' = readers \cup {g}
  /\ UNCHANGED <<queries, compileMu, writer, call, local>>

ReadMap(g) ==
  /\ Go(g, "read", "runlock")
  /\ local' = [local EXCEPT ![g] = [query |-> queries[call[g].arg]]]
  /\ UNCHANGED <<queries, compileMu, writer, readers, call>>

RUnlock(g) ==
  /\ Go(g, "runlock", "return")
  /\ readers' = readers \ {g}
  /\ UNCHANGED <<queries, compileMu, writer, call, local>>

(* For an evaluation this is pq.Eval, outside the lock. *)
ReturnFrom(g) ==
  /\ Go(g, "return", "out")
  /\ call' = [call EXCEPT ![g] = None]
  /\ local' = [local EXCEPT ![g] = None]
  /\ UNCHANGED <<queries, compileMu, writer, readers>>

-----------------------------------------------------------------------------
Acquire(g) == LockCompile(g) \/ Lock(g) \/ RLock(g)

Proceed(g) ==
  \/ Build(g) \/ Drain(g) \/ SwapMap(g) \/ Unlock(g) \/ UnlockCompile(g)
  \/ ReadMap(g) \/ RUnlock(g) \/ ReturnFrom(g)

Next ==
  \E g \in Caller : CallCompile(g) \/ CallEvaluate(g) \/ Acquire(g) \/ Proceed(g)

(* A runnable goroutine runs; Go's mutexes pass to a waiter that has waited
   long enough, so a lock that is free again and again is acquired. *)
Fairness == \A g \in Caller : WF_vars(Proceed(g)) /\ SF_vars(Acquire(g))

Spec == Init /\ [][Next]_vars /\ Fairness

-----------------------------------------------------------------------------
(* Properties *)

(* The map is never written while another caller reads or writes it. *)
NoDataRace ==
  \A g, h \in Caller : g # h /\ pc[g] = "swap" => pc[h] \notin {"swap", "read"}

(* Every call takes effect at one instant: no evaluation sees a map that is
   half of two Compile calls, and a failed Compile changes nothing. *)
Atomic == INSTANCE AtomicEngine WITH answer <- local
ImplementsAtomicEngine == Atomic!AtomicSpec

(* Every call returns, however many others compete for the locks. *)
CallsReturn == \A g \in Caller : call[g] # None ~> call[g] = None

=============================================================================
