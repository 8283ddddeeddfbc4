---------------------------- MODULE AtomicEngine ----------------------------
(***************************************************************************)
(* The engine as its callers see it: each call takes effect at one instant *)
(* between its invocation and its return.                                  *)
(***************************************************************************)
EXTENDS OpaEngine

CONSTANTS
  Caller,        \* goroutines that call the engine
  CompileArgs    \* the module lists Compile is called with

VARIABLES
  call,          \* call[g]: the call g is in, None outside any
  answer         \* answer[g]: what the call will return, None before its effect

Call == [op: {"compile"}, arg: CompileArgs] \cup [op: {"evaluate"}, arg: PolicyID]

(* A compile returns nil or an error.  An evaluate runs the query it finds
   under the id, or returns Defined: false for None. *)
Answer == [ok: BOOLEAN] \cup [query: Rego \cup {None}]

AtomicInit ==
  /\ queries = NoModules
  /\ call = [g \in Caller |-> None]
  /\ answer = [g \in Caller |-> None]

Invoke(g) ==
  /\ call[g] = None
  /\ \E c \in Call : call' = [call EXCEPT ![g] = c]
  /\ UNCHANGED <<queries, answer>>

Effect(g) ==
  /\ call[g] # None /\ answer[g] = None
  /\ UNCHANGED call
  /\ \/ /\ call[g].op = "compile" /\ SwapQueries(call[g].arg)
        /\ answer' = [answer EXCEPT ![g] = [ok |-> TRUE]]
     \/ /\ call[g].op = "compile" /\ KeepQueries(call[g].arg)
        /\ answer' = [answer EXCEPT ![g] = [ok |-> FALSE]]
     \/ /\ call[g].op = "evaluate" /\ UNCHANGED queries
        /\ answer' = [answer EXCEPT ![g] = [query |-> queries[call[g].arg]]]

Return(g) ==
  /\ answer[g] # None
  /\ call' = [call EXCEPT ![g] = None]
  /\ answer' = [answer EXCEPT ![g] = None]
  /\ UNCHANGED queries

AtomicNext == \E g \in Caller : Invoke(g) \/ Effect(g) \/ Return(g)

AtomicSpec == AtomicInit /\ [][AtomicNext]_<<queries, call, answer>>

=============================================================================
