----------------------- MODULE ServerLifecycleProofs -----------------------
(***************************************************************************)
(* Theorems about the life of the process, for any number of servers and   *)
(* requests.                                                               *)
(***************************************************************************)
EXTENDS ServerLifecycle, TLAPS

Booting == at \in {"config", "database", "compile", "listen"}

NothingStarted ==
  /\ \A s \in Server : state[s] = "none" /\ hook[s] = "none"
  /\ errs = {} /\ ~closed /\ firstErr = None /\ broken = {}

(* What run() has done when it is where it is. *)
MainOK ==
  /\ Booting => NothingStarted /\ ~notified /\ code = None
  /\ at \in {"compile", "listen", "run"} => store = "open"
  /\ at = "run" => code = None /\ \A s \in Server : state[s] # "none"
  /\ at = "unwind" => code \in {0, 1}
  /\ ~Booting /\ at # "run" /\ code \in {0, 1} =>
       \/ code = 1 /\ NothingStarted
       \/ /\ AllReturned /\ errs = {}
          /\ code = 0 <=> firstErr = None

(* An error on its way: not yet sent, in the channel, or received. *)
ErrorsOK ==
  /\ closed => AllReturned
  /\ broken # {} =>
       (\E s \in Server : state[s] = "failed") \/ errs # {} \/ firstErr # None
  /\ errs # {} \/ firstErr # None => broken # {}
  /\ (\E s \in Server : state[s] = "failed") => broken # {}

LifecycleInv == TypeOK /\ MainOK /\ ErrorsOK

-----------------------------------------------------------------------------
LEMMA InitLifecycle == Init => LifecycleInv
BY ServersAssumption
DEF Init, LifecycleInv, TypeOK, MainOK, ErrorsOK, Booting, NothingStarted

(* The steps of run() and of the goroutine that closes the channel. *)
LEMMA RunKeepsInv == ASSUME LifecycleInv, RunStep PROVE LifecycleInv'
<1> USE ServersAssumption
    DEF LifecycleInv, Booting, NothingStarted, AllReturned, main, chan
<1>1. CASE LoadConfig
  BY <1>1 DEF LoadConfig, TypeOK, MainOK, ErrorsOK
<1>2. CASE InitDB
  BY <1>2 DEF InitDB, TypeOK, MainOK, ErrorsOK
<1>3. CASE CompileAll
  BY <1>3 DEF CompileAll, TypeOK, MainOK, ErrorsOK
<1>4. CASE StartServers
  BY <1>4 DEF StartServers, TypeOK, MainOK, ErrorsOK
<1>5. CASE CloseChannel
  BY <1>5 DEF CloseChannel, TypeOK, MainOK, ErrorsOK
<1>6. CASE Return
  <2>1. TypeOK'
    BY <1>6 DEF Return, TypeOK
  <2>2. MainOK'
    BY <1>6 DEF Return, TypeOK, MainOK, ErrorsOK
  <2>3. ErrorsOK'
    BY <1>6 DEF Return, ErrorsOK
  <2> QED BY <2>1, <2>2, <2>3
<1>7. CASE CloseStore
  BY <1>7 DEF CloseStore, TypeOK, MainOK, ErrorsOK
<1>8. CASE Exit
  BY <1>8 DEF Exit, TypeOK, MainOK, ErrorsOK
<1>9. ASSUME NEW s \in Server, Listen(s) PROVE LifecycleInv'
  BY <1>9 DEF Listen, TypeOK, MainOK, ErrorsOK
<1>10. ASSUME NEW s \in Server, ReceiveError(s) PROVE LifecycleInv'
  <2>1. TypeOK'
    BY <1>10 DEF ReceiveError, TypeOK
  <2>2. MainOK'
    BY <1>10 DEF ReceiveError, TypeOK, MainOK
  <2>3. firstErr' # None /\ broken' # {}
    BY <1>10 DEF ReceiveError, TypeOK, ErrorsOK
  <2>4. ErrorsOK'
    BY <1>10, <2>3 DEF ReceiveError, TypeOK, ErrorsOK
  <2> QED BY <2>1, <2>2, <2>4
<1>11. ASSUME NEW s \in Server, CloseListener(s) PROVE LifecycleInv'
  BY <1>11 DEF CloseListener, TypeOK, MainOK, ErrorsOK
<1> QED BY <1>1, <1>2, <1>3, <1>4, <1>5, <1>6, <1>7, <1>8, <1>9, <1>10, <1>11
        DEF RunStep

(* The steps of a server's Run: its main goroutine is not booting, and has
   not returned while the server runs. *)
LEMMA ServerKeepsInv ==
  ASSUME LifecycleInv, NEW s \in Server, ServerStep(s) \/ ServeFails(s)
  PROVE  LifecycleInv'
<1> USE ServersAssumption
    DEF LifecycleInv, Booting, NothingStarted, AllReturned, main, chan
<1>1. CASE Serve(s)
  BY <1>1 DEF Serve, SetState, Alive, TypeOK, MainOK, ErrorsOK
<1>2. CASE ServeStops(s)
  BY <1>2 DEF ServeStops, SetState, Alive, TypeOK, MainOK, ErrorsOK
<1>3. CASE ReportError(s)
  <2>1. at = "run" /\ ~closed
    BY <1>3 DEF ReportError, Alive, TypeOK, MainOK, ErrorsOK
  <2>2. broken # {}
    BY <1>3 DEF ReportError, ErrorsOK
  <2>3. TypeOK' /\ MainOK'
    BY <1>3, <2>1 DEF ReportError, TypeOK, MainOK
  <2>4. ErrorsOK'
    BY <1>3, <2>1, <2>2 DEF ReportError, TypeOK, ErrorsOK
  <2> QED BY <2>3, <2>4
<1>4. CASE Leave(s)
  BY <1>4 DEF Leave, SetState, Alive, TypeOK, MainOK, ErrorsOK
<1>5. CASE ServeFails(s)
  <2>1. at = "run" /\ ~closed
    BY <1>5 DEF ServeFails, SetState, Alive, TypeOK, MainOK, ErrorsOK
  <2>2. TypeOK' /\ MainOK'
    BY <1>5, <2>1 DEF ServeFails, SetState, TypeOK, MainOK
  <2>3. ErrorsOK'
    BY <1>5, <2>1 DEF ServeFails, SetState, TypeOK, ErrorsOK
  <2> QED BY <2>2, <2>3
<1> QED BY <1>1, <1>2, <1>3, <1>4, <1>5 DEF ServerStep

(* Hooks touch nothing but hook, which is started by Serve only. *)
LEMMA HookKeepsInv ==
  ASSUME LifecycleInv, NEW s \in Server, HookStep(s)
  PROVE  LifecycleInv'
<1>1. hook[s] # "none"
  BY DEF HookStep, Shutdown, Drained, Expired
<1>2. PICK next \in {"draining", "drained", "expired"} : SetHook(s, next)
  BY DEF HookStep, Shutdown, Drained, Expired
<1>3. TypeOK'
  BY <1>2 DEF SetHook, LifecycleInv, TypeOK, main, chan
<1>4. MainOK'
  BY <1>1, <1>2 DEF SetHook, LifecycleInv, TypeOK, MainOK, Booting,
                    NothingStarted, AllReturned, main, chan
<1>5. ErrorsOK'
  BY <1>2 DEF SetHook, LifecycleInv, ErrorsOK, AllReturned, chan
<1> QED BY <1>3, <1>4, <1>5 DEF LifecycleInv

LEMMA EnvironmentKeepsInv ==
  ASSUME LifecycleInv,
         \/ BootFails \/ Signal
         \/ \E r \in Request : Respond(r) \/ \E s \in Server : Accept(r, s)
  PROVE  LifecycleInv'
<1> USE ServersAssumption
    DEF LifecycleInv, Booting, NothingStarted, AllReturned, main, chan
<1>1. CASE BootFails
  BY <1>1 DEF BootFails, TypeOK, MainOK, ErrorsOK
<1>2. CASE Signal
  <2>1. CASE notified
    BY <1>2, <2>1 DEF Signal, TypeOK, MainOK, ErrorsOK
  <2>2. CASE Die
    BY <2>2 DEF Die, TypeOK, MainOK, ErrorsOK
  <2> QED BY <1>2, <2>1, <2>2 DEF Signal
<1>3. ASSUME NEW r \in Request, Respond(r) PROVE LifecycleInv'
  BY <1>3 DEF Respond, TypeOK, MainOK, ErrorsOK
<1>4. ASSUME NEW r \in Request, NEW s \in Server, Accept(r, s)
      PROVE  LifecycleInv'
  BY <1>4 DEF Accept, TypeOK, MainOK, ErrorsOK
<1> QED BY <1>1, <1>2, <1>3, <1>4

LEMMA StutterKeepsInv == ASSUME LifecycleInv, UNCHANGED vars PROVE LifecycleInv'
BY DEF LifecycleInv, TypeOK, MainOK, ErrorsOK, Booting, NothingStarted,
       AllReturned, vars, main, chan

LEMMA LifecycleInvariant == Spec => []LifecycleInv
<1>1. LifecycleInv /\ [Next]_vars => LifecycleInv'
  BY RunKeepsInv, ServerKeepsInv, HookKeepsInv, EnvironmentKeepsInv,
     StutterKeepsInv
  DEF Next
<1> QED BY InitLifecycle, <1>1, PTL DEF Spec

-----------------------------------------------------------------------------
(* Every variable of main.go's and the servers' goroutines keeps its type:
   the store goes from none to open to closed, hooks and Runs only take the
   places their code has. *)
THEOREM LifecycleTyped == Spec => []TypeOK
BY LifecycleInvariant, PTL DEF LifecycleInv

(* run() never closes the database under a server that accepts requests:
   it returns only after errChan was closed, which waits for every Run. *)
THEOREM StoreIsClosedLast == Spec => []StoreOutlivesServers
<1>1. LifecycleInv => StoreOutlivesServers
  <2> SUFFICES ASSUME LifecycleInv, NEW s \in Server, state[s] = "serving", Alive
               PROVE  at = "run" /\ store = "open"
    BY DEF StoreOutlivesServers
  <2>1. at # "unwind"
    BY DEF LifecycleInv, MainOK, Booting, NothingStarted, AllReturned
  <2> QED BY <2>1 DEF LifecycleInv, TypeOK, MainOK, Booting, NothingStarted, Alive
<1> QED BY LifecycleInvariant, <1>1, PTL

(* The exit code of run() is 0 only when no server's Run returned an error:
   no error is lost between a server, errChan and firstErr. *)
THEOREM ExitCodeIsTrue == Spec => []ExitCodeTells
<1>1. LifecycleInv => ExitCodeTells
  <2> SUFFICES ASSUME LifecycleInv PROVE ExitCodeTells
    OBVIOUS
  <2>1. ASSUME code \in {0, 1} PROVE ~Booting /\ at # "run"
    BY <2>1, ServersAssumption DEF LifecycleInv, MainOK
  <2>2. ASSUME code = 0 PROVE broken = {}
    <3>1. AllReturned /\ errs = {} /\ firstErr = None
      BY <2>1, <2>2 DEF LifecycleInv, MainOK
    <3> QED BY <3>1 DEF LifecycleInv, ErrorsOK, AllReturned
  <2>3. ASSUME code = 1 PROVE broken # {} \/ \A s \in Server : state[s] = "none"
    BY <2>1, <2>3 DEF LifecycleInv, MainOK, ErrorsOK, NothingStarted
  <2> QED BY <2>2, <2>3 DEF ExitCodeTells, LifecycleInv, ErrorsOK, AllReturned
<1> QED BY LifecycleInvariant, <1>1, PTL

=============================================================================
