-------------------------- MODULE ServerLifecycle --------------------------
(***************************************************************************)
(* The life of the process: cmd/policy-manager/main.go brings up the       *)
(* database, the engine, two listeners and two HTTP servers, waits for a   *)
(* signal or for the first server that fails, and takes everything down.   *)
(*                                                                         *)
(* Goroutines: run() itself (at); one per server in Server.Run (state);    *)
(* one per server that waits for the context and calls Shutdown (hook);    *)
(* one that closes errChan when every Run has returned (closed); and one   *)
(* per request in flight (work).  The public and the engine server have    *)
(* the same Run, so they are two elements of Server.                       *)
(*                                                                         *)
(* net/http's part: Shutdown makes Serve return at once and then waits     *)
(* until no request is in flight or its context expires; Serve called      *)
(* after Shutdown returns at once.                                         *)
(***************************************************************************)
EXTENDS Naturals, FiniteSets

CONSTANTS
  Server,       \* the servers run() creates
  Request,      \* slots for HTTP requests in flight
  None          \* no server, no exit code

ASSUME ServersAssumption == None \notin Server /\ None \notin {0, 1, 2}

VARIABLES
  at,           \* how far run() is
  store,        \* the database connection: "none", "open" or "closed"
  listening,    \* the servers whose listener is open
  code,         \* what run() returns, None before; 2 when the process dies
  done,         \* the context of runServers is done
  notified,     \* signals are delivered to that context
  state,        \* state[s]: the goroutine in Run of server s
  hook,         \* hook[s]: the goroutine that shuts server s down
  errs,         \* the servers whose error is in errChan
  closed,       \* errChan is closed
  firstErr,     \* the server whose error came first
  work,         \* work[r]: the server that handles request r, None if free
  broken        \* history: the servers whose Run could not serve

main == <<at, store, listening, code>>
chan == <<errs, closed, firstErr>>
vars == <<main, done, notified, state, hook, chan, work, broken>>

TypeOK ==
  /\ at \in {"config", "database", "compile", "listen", "run", "unwind", "exited"}
  /\ store \in {"none", "open", "closed"}
  /\ listening \subseteq Server
  /\ code \in {0, 1, 2, None}
  /\ done \in BOOLEAN /\ notified \in BOOLEAN
  /\ state \in [Server -> {"none", "starting", "serving", "failed", "leaving",
                           "returned"}]
  /\ hook \in [Server -> {"none", "waiting", "draining", "drained", "expired"}]
  /\ errs \subseteq Server
  /\ closed \in BOOLEAN
  /\ firstErr \in Server \cup {None}
  /\ work \in [Request -> Server \cup {None}]
  /\ broken \subseteq Server

Init ==
  /\ at = "config" /\ store = "none" /\ listening = {} /\ code = None
  /\ done = FALSE /\ notified = FALSE
  /\ state = [s \in Server |-> "none"]
  /\ hook = [s \in Server |-> "none"]
  /\ errs = {} /\ closed = FALSE /\ firstErr = None
  /\ work = [r \in Request |-> None]
  /\ broken = {}

Alive == at # "exited"

-----------------------------------------------------------------------------
(* run(), up to the servers *)

LoadConfig ==
  /\ at = "config"
  /\ at' = "database"
  /\ UNCHANGED <<store, listening, code, done, notified, state, hook, chan, work, broken>>

InitDB ==
  /\ at = "database"
  /\ store' = "open"
  /\ at' = "compile"
  /\ UNCHANGED <<listening, code, done, notified, state, hook, chan, work, broken>>

CompileAll ==
  /\ at = "compile"
  /\ at' = "listen"
  /\ UNCHANGED <<store, listening, code, done, notified, state, hook, chan, work, broken>>

Listen(s) ==
  /\ at = "listen" /\ s \notin listening
  /\ listening' = listening \cup {s}
  /\ UNCHANGED <<at, store, code, done, notified, state, hook, chan, work, broken>>

(* Any of these may fail, and run() returns 1. *)
BootFails ==
  /\ at \in {"config", "database", "compile", "listen"}
  /\ at' = "unwind" /\ code' = 1
  /\ UNCHANGED <<store, listening, done, notified, state, hook, chan, work, broken>>

(* runServers: signals go to the context from here, and each server gets a
   goroutine. *)
StartServers ==
  /\ at = "listen" /\ listening = Server
  /\ at' = "run"
  /\ notified' = TRUE
  /\ state' = [s \in Server |-> "starting"]
  /\ UNCHANGED <<store, listening, code, done, hook, chan, work, broken>>

-----------------------------------------------------------------------------
(* Server.Run *)

SetState(s, next) ==
  /\ Alive
  /\ state' = [state EXCEPT ![s] = next]
  /\ UNCHANGED <<main, done, notified, chan, work>>

(* The router is built from the embedded OpenAPI document, the shutdown hook
   is spawned and Serve is called. *)
Serve(s) ==
  /\ state[s] = "starting"
  /\ hook' = [hook EXCEPT ![s] = "waiting"]
  /\ SetState(s, "serving")
  /\ UNCHANGED broken

(* GetSwagger fails, before there is a hook; or Accept fails, unless the
   server is shutting down, which is what Serve then reports instead. *)
ServeFails(s) ==
  /\ \/ state[s] = "starting"
     \/ state[s] = "serving" /\ hook[s] = "waiting"
  /\ SetState(s, "failed")
  /\ broken' = broken \cup {s}
  /\ UNCHANGED hook

(* ErrServerClosed is no error. *)
ServeStops(s) ==
  /\ state[s] = "serving" /\ hook[s] # "waiting"
  /\ SetState(s, "leaving")
  /\ UNCHANGED <<hook, broken>>

(* The deferred wg.Done. *)
Leave(s) ==
  /\ state[s] = "leaving"
  /\ SetState(s, "returned")
  /\ UNCHANGED <<hook, broken>>

(* Fault: wg.Done is called before the error is sent. *)
AllReturnedOrFailed == \A s \in Server : state[s] \in {"failed", "returned"}

AllReturned == \A s \in Server : state[s] = "returned"

Die ==
  /\ at' = "exited" /\ code' = 2
  /\ UNCHANGED <<store, listening, done, notified, state, hook, chan, work, broken>>

(* errChan <- err, which panics when errChan is closed.  The channel holds
   one error per server, so the send never waits. *)
ReportError(s) ==
  /\ Alive /\ state[s] = "failed"
  /\ IF closed
     THEN Die
     ELSE /\ errs' = errs \cup {s}
          /\ state' = [state EXCEPT ![s] = "leaving"]
          /\ UNCHANGED <<main, done, notified, hook, closed, firstErr, work, broken>>

-----------------------------------------------------------------------------
(* The hook of a server: <-ctx.Done(), then Shutdown. *)

SetHook(s, next) ==
  /\ Alive
  /\ hook' = [hook EXCEPT ![s] = next]
  /\ UNCHANGED <<main, done, notified, state, chan, work, broken>>

Shutdown(s) == done /\ hook[s] = "waiting" /\ SetHook(s, "draining")

InFlight(s) == \E r \in Request : work[r] = s

Drained(s) == hook[s] = "draining" /\ ~InFlight(s) /\ SetHook(s, "drained")

(* gracefulShutdownTimeout *)
Expired(s) == hook[s] = "draining" /\ InFlight(s) /\ SetHook(s, "expired")

-----------------------------------------------------------------------------
(* runServers and the end of run() *)

CloseChannel ==
  /\ at = "run" /\ ~closed /\ AllReturned
  /\ closed' = TRUE
  /\ UNCHANGED <<main, done, notified, state, hook, errs, firstErr, work, broken>>

(* Fault: the first error is only kept. *)
KeepError(s) ==
  /\ at = "run" /\ s \in errs
  /\ errs' = errs \ {s}
  /\ firstErr' = IF firstErr = None THEN s ELSE firstErr
  /\ UNCHANGED <<main, done, notified, state, hook, closed, work, broken>>

(* The first error cancels the context; cancel also gives signals back to
   the runtime, which dies of them. *)
ReceiveError(s) ==
  /\ at = "run" /\ s \in errs
  /\ errs' = errs \ {s}
  /\ IF firstErr = None
     THEN firstErr' = s /\ done' = TRUE /\ notified' = FALSE
     ELSE UNCHANGED <<firstErr, done, notified>>
  /\ UNCHANGED <<main, state, hook, closed, work, broken>>

(* Fault: the loop over errChan ends at the first error. *)
ReturnAtFirstError ==
  /\ at = "run" /\ (closed \/ firstErr # None)
  /\ at' = "unwind"
  /\ code' = IF firstErr = None THEN 0 ELSE 1
  /\ done' = TRUE /\ notified' = FALSE
  /\ UNCHANGED <<store, listening, state, hook, chan, work, broken>>

(* The loop over errChan ends when it is closed and empty; the deferred
   cancel runs. *)
Return ==
  /\ at = "run" /\ closed /\ errs = {}
  /\ at' = "unwind"
  /\ code' = IF firstErr = None THEN 0 ELSE 1
  /\ done' = TRUE /\ notified' = FALSE
  /\ UNCHANGED <<store, listening, state, hook, chan, work, broken>>

(* Deferred calls run last to first: the listeners, then the store. *)
CloseListener(s) ==
  /\ at = "unwind" /\ s \in listening
  /\ listening' = listening \ {s}
  /\ UNCHANGED <<at, store, code, done, notified, state, hook, chan, work, broken>>

CloseStore ==
  /\ at = "unwind" /\ listening = {} /\ store = "open"
  /\ store' = "closed"
  /\ UNCHANGED <<at, listening, code, done, notified, state, hook, chan, work, broken>>

Exit ==
  /\ at = "unwind" /\ listening = {} /\ store # "open"
  /\ at' = "exited"
  /\ UNCHANGED <<store, listening, code, done, notified, state, hook, chan, work, broken>>

-----------------------------------------------------------------------------
(* The environment *)

(* SIGINT or SIGTERM: the context is done, or the process dies when nobody
   asked to be notified. *)
Signal ==
  /\ Alive
  /\ IF notified
     THEN /\ ~done
          /\ done' = TRUE
          /\ UNCHANGED <<main, notified, state, hook, chan, work, broken>>
     ELSE Die

(* A request arrives at a server that is not shutting down. *)
Accept(r, s) ==
  /\ Alive /\ state[s] = "serving" /\ hook[s] = "waiting" /\ work[r] = None
  /\ work' = [work EXCEPT ![r] = s]
  /\ UNCHANGED <<main, done, notified, state, hook, chan, broken>>

Respond(r) ==
  /\ Alive /\ work[r] # None
  /\ work' = [work EXCEPT ![r] = None]
  /\ UNCHANGED <<main, done, notified, state, hook, chan, broken>>

-----------------------------------------------------------------------------
RunStep ==
  \/ LoadConfig \/ InitDB \/ CompileAll \/ StartServers
  \/ CloseChannel \/ Return \/ CloseStore \/ Exit
  \/ \E s \in Server : Listen(s) \/ ReceiveError(s) \/ CloseListener(s)

ServerStep(s) ==
  Serve(s) \/ ServeStops(s) \/ ReportError(s) \/ Leave(s)

HookStep(s) == Shutdown(s) \/ Drained(s) \/ Expired(s)

Next ==
  \/ RunStep
  \/ \E s \in Server : ServerStep(s) \/ HookStep(s) \/ ServeFails(s)
  \/ BootFails \/ Signal
  \/ \E r \in Request : Respond(r) \/ \E s \in Server : Accept(r, s)

(* The Go runtime runs a goroutine that can run, and timers expire.
   Requests, signals and failures owe nothing: not even that a request in
   flight is ever answered. *)
Fairness ==
  /\ WF_vars(RunStep)
  /\ \A s \in Server : WF_vars(ServerStep(s)) /\ WF_vars(HookStep(s))

Spec == Init /\ [][Next]_vars /\ Fairness

-----------------------------------------------------------------------------
(* Properties *)

(* The database is closed only after every server has stopped accepting
   requests, and no server accepts before the database is open and the
   engine holds the stored policies. *)
StoreOutlivesServers ==
  \A s \in Server : state[s] = "serving" /\ hook[s] = "waiting" /\ Alive
    => at = "run" /\ store = "open"

(* The exit code tells what happened: 0 only when every server could serve
   until it was told to stop, 1 only when the boot or a server failed.  No
   error is sent to a closed channel, or left in one that nobody reads. *)
ExitCodeTells ==
  /\ code = 0 => broken = {}
  /\ code = 1 => broken # {} \/ \A s \in Server : state[s] = "none"
  /\ closed => \A s \in Server : state[s] = "returned"

(* A signal, or one server that fails, stops the other server as well and
   ends the process, whatever the requests in flight do. *)
StopsForGood ==
  at = "run" /\ (done \/ \E s \in Server : state[s] = "failed") ~> at = "exited"

(* The shutdown is graceful: a process that stops on a signal has answered
   the requests in flight, or has waited for them the whole timeout. *)
DrainsBeforeExit ==
  at = "exited" /\ code = 0 =>
    \A r \in Request : work[r] # None => hook[work[r]] = "expired"

=============================================================================
