------------------------ MODULE OpaEngineLocksProofs ------------------------
(***************************************************************************)
(* Theorems about the engine's locks, for any number of goroutines.        *)
(***************************************************************************)
EXTENDS OpaEngineLocks, TLAPS

HoldsCompileMu == {"build", "lock", "drain", "swap", "unlock", "unlockCompile"}
HoldsMu == {"drain", "swap", "unlock"}
HoldsMuForReading == {"read", "runlock"}

(* The locks are held by exactly the callers whose code is between the two
   calls on them, and a writer that swaps has seen the last reader leave. *)
LocksOK ==
  /\ \A g \in Caller : pc[g] \in HoldsCompileMu => compileMu = g
  /\ \A g \in Caller : pc[g] \in HoldsMu => writer = g
  /\ \A g \in Caller : pc[g] \in HoldsMuForReading => g \in readers
  /\ \A g \in Caller : pc[g] = "swap" => readers = {}

(* What is known of a call at a step: its operation, whether its list
   compiles, and whether it has taken effect. *)
CallOK(g) ==
  /\ pc[g] = "out" => call[g] = None /\ local[g] = None
  /\ pc[g] \in CompileSteps => call[g] \in [op: {"compile"}, arg: CompileArgs]
  /\ pc[g] \in EvaluateSteps => call[g] \in [op: {"evaluate"}, arg: PolicyID]
  /\ pc[g] \in {"lock", "drain", "swap"} => Compiles(call[g].arg)
  /\ pc[g] \in {"lockCompile", "build", "lock", "drain", "swap", "rlock", "read"}
       => local[g] = None
  /\ pc[g] \in {"unlock", "unlockCompile", "runlock", "return"}
       => local[g] \in Answer
  /\ pc[g] = "return" => call[g] \in Call

CallsOK == \A g \in Caller : CallOK(g)

LocksInv == TypeOK /\ LocksOK /\ CallsOK

-----------------------------------------------------------------------------
LEMMA InitLocks == Init => LocksInv
BY DEF Init, LocksInv, TypeOK, LocksOK, CallsOK, CallOK, NoModules, ModuleMap,
       CompileSteps, EvaluateSteps, HoldsCompileMu, HoldsMu, HoldsMuForReading

(* The steps of one caller. *)
LEMMA StepLocks ==
  ASSUME LocksInv, NEW g \in Caller,
         CallCompile(g) \/ CallEvaluate(g) \/ Acquire(g) \/ Proceed(g)
  PROVE  LocksInv'
<1> USE CallersAssumption DEF LocksInv, LocksOK, HoldsCompileMu, HoldsMu,
        HoldsMuForReading, CompileSteps, EvaluateSteps, Go
<1>1. CASE CallCompile(g)
  BY <1>1 DEF CallCompile, TypeOK, CallsOK, CallOK, Call
<1>2. CASE CallEvaluate(g)
  BY <1>2 DEF CallEvaluate, TypeOK, CallsOK, CallOK, Call
<1>3. CASE LockCompile(g)
  BY <1>3 DEF LockCompile, TypeOK, CallsOK, CallOK
<1>4. CASE Lock(g)
  BY <1>4 DEF Lock, TypeOK, CallsOK, CallOK
<1>5. CASE RLock(g)
  BY <1>5 DEF RLock, TypeOK, CallsOK, CallOK
<1>6. CASE Build(g)
  <2>1. UNCHANGED <<queries, compileMu, writer, readers, call>>
    BY <1>6 DEF Build
  <2>2. CASE Compiles(call[g].arg)
    BY <1>6, <2>1, <2>2 DEF Build, TypeOK, CallsOK, CallOK
  <2>3. CASE ~Compiles(call[g].arg)
    <3>1. pc' = [pc EXCEPT ![g] = "unlockCompile"] /\ pc[g] = "build"
          /\ local' = [local EXCEPT ![g] = [ok |-> FALSE]]
      BY <1>6, <2>3 DEF Build
    <3>2. [ok |-> FALSE] \in Answer
      BY DEF Answer
    <3> QED
      BY <2>1, <3>1, <3>2 DEF TypeOK, CallsOK, CallOK
  <2> QED
    BY <2>2, <2>3
<1>7. CASE Drain(g)
  BY <1>7 DEF Drain, TypeOK, CallsOK, CallOK
<1>8. CASE SwapMap(g)
  BY <1>8 DEF SwapMap, TypeOK, CallsOK, CallOK, Answer
<1>9. CASE Unlock(g)
  BY <1>9 DEF Unlock, TypeOK, CallsOK, CallOK
<1>10. CASE UnlockCompile(g)
  BY <1>10 DEF UnlockCompile, TypeOK, CallsOK, CallOK, Call
<1>11. CASE ReadMap(g)
  BY <1>11 DEF ReadMap, TypeOK, CallsOK, CallOK, Answer, ModuleMap
<1>12. CASE RUnlock(g)
  BY <1>12 DEF RUnlock, TypeOK, CallsOK, CallOK, Call
<1>13. CASE ReturnFrom(g)
  BY <1>13 DEF ReturnFrom, TypeOK, CallsOK, CallOK
<1> QED
  BY <1>1, <1>2, <1>3, <1>4, <1>5, <1>6, <1>7, <1>8, <1>9, <1>10, <1>11,
     <1>12, <1>13 DEF Acquire, Proceed

LEMMA NextLocks == LocksInv /\ [Next]_vars => LocksInv'
<1> SUFFICES ASSUME LocksInv, [Next]_vars PROVE LocksInv'
  OBVIOUS
<1>1. CASE Next
  BY <1>1, StepLocks DEF Next
<1>2. CASE UNCHANGED vars
  BY <1>2 DEF vars, LocksInv, TypeOK, LocksOK, CallsOK, CallOK
<1> QED
  BY <1>1, <1>2

THEOREM LockTyping == Spec => []LocksInv
<1> QED
  BY InitLocks, NextLocks, PTL DEF Spec

-----------------------------------------------------------------------------
(* However many goroutines compile and evaluate, Go's memory model sees no
   race on the query map. *)
THEOREM MapIsNeverRaced == Spec => []NoDataRace
<1>1. LocksInv => NoDataRace
  <2> SUFFICES ASSUME LocksInv, NEW g \in Caller, NEW h \in Caller,
                      g # h, pc[g] = "swap"
               PROVE  pc[h] \notin {"swap", "read"}
    BY DEF NoDataRace
  <2>1. writer = g /\ readers = {}
    BY DEF LocksInv, LocksOK, HoldsMu
  <2> QED
    BY <2>1 DEF LocksInv, LocksOK, HoldsMu, HoldsMuForReading
<1> QED
  BY <1>1, LockTyping, PTL

(* Every step of the locked engine is a step of the engine its callers see,
   or none. *)
LEMMA StepIsAtomic ==
  ASSUME LocksInv, NEW g \in Caller,
         CallCompile(g) \/ CallEvaluate(g) \/ Acquire(g) \/ Proceed(g)
  PROVE  [Atomic!AtomicNext]_<<queries, call, local>>
<1> USE CallersAssumption DEF LocksInv, CallsOK, CallOK, Go
<1>1. CASE CallCompile(g)
  <2>1. Atomic!Invoke(g)
    BY <1>1 DEF CallCompile, Atomic!Invoke, Atomic!Call
  <2> QED
    BY <2>1 DEF Atomic!AtomicNext
<1>2. CASE CallEvaluate(g)
  <2>1. Atomic!Invoke(g)
    BY <1>2 DEF CallEvaluate, Atomic!Invoke, Atomic!Call
  <2> QED
    BY <2>1 DEF Atomic!AtomicNext
<1>3. CASE Build(g)
  <2>1. CASE Compiles(call[g].arg)
    BY <1>3, <2>1 DEF Build
  <2>2. CASE ~Compiles(call[g].arg)
    <3>1. Atomic!Effect(g)
      BY <1>3, <2>2 DEF Build, Atomic!Effect, Atomic!KeepQueries, CompileSteps, Call
    <3> QED
      BY <3>1 DEF Atomic!AtomicNext
  <2> QED
    BY <2>1, <2>2
<1>4. CASE SwapMap(g)
  <2>1. Atomic!Effect(g)
    BY <1>4 DEF SwapMap, Atomic!Effect, Atomic!SwapQueries, CompileSteps, Call
  <2> QED
    BY <2>1 DEF Atomic!AtomicNext
<1>5. CASE ReadMap(g)
  <2>1. Atomic!Effect(g)
    BY <1>5 DEF ReadMap, Atomic!Effect, EvaluateSteps, Call
  <2> QED
    BY <2>1 DEF Atomic!AtomicNext
<1>6. CASE ReturnFrom(g)
  <2>1. Atomic!Return(g)
    BY <1>6 DEF ReturnFrom, Atomic!Return
  <2> QED
    BY <2>1 DEF Atomic!AtomicNext
<1>7. CASE Acquire(g) \/ Drain(g) \/ Unlock(g) \/ UnlockCompile(g) \/ RUnlock(g)
  BY <1>7 DEF Acquire, LockCompile, Lock, RLock, Drain, Unlock, UnlockCompile, RUnlock
<1> QED
  BY <1>1, <1>2, <1>3, <1>4, <1>5, <1>6, <1>7 DEF Proceed

(* To its callers every Compile and every EvaluatePolicy happens at one
   instant, whatever the schedule and the number of callers. *)
THEOREM EngineIsAtomic == Spec => ImplementsAtomicEngine
<1>1. Init => Atomic!AtomicInit
  BY DEF Init, Atomic!AtomicInit, Atomic!NoModules, NoModules
<1>2. LocksInv /\ [Next]_vars => [Atomic!AtomicNext]_<<queries, call, local>>
  <2> SUFFICES ASSUME LocksInv, [Next]_vars
               PROVE  [Atomic!AtomicNext]_<<queries, call, local>>
    OBVIOUS
  <2>1. CASE Next
    BY <2>1, StepIsAtomic DEF Next
  <2>2. CASE UNCHANGED vars
    BY <2>2 DEF vars
  <2> QED
    BY <2>1, <2>2
<1> QED
  BY <1>1, <1>2, LockTyping, PTL DEF Spec, ImplementsAtomicEngine, Atomic!AtomicSpec

=============================================================================
