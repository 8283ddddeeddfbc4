--------------------------- MODULE PolicyRegistry ---------------------------
(***************************************************************************)
(* What the policy API promises a client that sends one request at a time: *)
(* a mutation changes the stored policies and the policies the engine      *)
(* serves together, or neither, as long as the stored policies compile.    *)
(* .ai/decisions/005-policy-persistence.md calls the database the single   *)
(* source of truth and the engine a cache derived from it; this is that    *)
(* decision as a specification.                                            *)
(***************************************************************************)
EXTENDS PolicyStore

CONSTANT Compiles(_)  \* does the engine accept a map of modules?

VARIABLES served,     \* the modules the engine answers with
          on          \* the process serves requests

(* A request creates, updates or deletes one policy and never changes the
   policy_type of one. *)
OneChange(old, new) ==
  \E id \in PolicyID :
    /\ old[id] # new[id]
    /\ \A other \in PolicyID \ {id} : new[other] = old[other]
    /\ old[id] # None /\ new[id] # None => new[id].ptype = old[id].ptype

(* Names and priorities are unique within a policy_type. *)
Consistent(table) ==
  \A id \in PolicyID : table[id] # None => ~UniqueClash(table, id, table[id])

Mutate ==
  /\ on /\ on'
  /\ OneChange(db, db') /\ Consistent(db')
  /\ Compiles(ModulesOf(db'))
  /\ served' = ModulesOf(db')

(* No policy is added and none gets other Rego. *)
AddsNoRego(old, new) ==
  \A id \in PolicyID : new[id] # None => old[id] # None /\ new[id].rego = old[id].rego

(* A delete may take away what another policy needs, and fields other than
   the Rego may change while that is so: the engine goes on as it was. *)
MutateAside ==
  /\ on /\ on'
  /\ OneChange(db, db') /\ Consistent(db')
  /\ ~Compiles(ModulesOf(db')) /\ AddsNoRego(db, db')
  /\ served' = served

(* A crash may leave the write of the request it interrupts in the database,
   even one the engine would have refused. *)
Die ==
  /\ on /\ ~on'
  /\ db' = db \/ (OneChange(db, db') /\ Consistent(db'))
  /\ served' = NoModules

(* The process serves again only when every stored policy compiles. *)
Boot ==
  /\ ~on /\ on'
  /\ db' = db
  /\ Compiles(ModulesOf(db))
  /\ served' = ModulesOf(db)

RegistryInit ==
  /\ db = [id \in PolicyID |-> None]
  /\ served = NoModules
  /\ on = FALSE

RegistryNext == Mutate \/ MutateAside \/ Die \/ Boot

RegistrySpec == RegistryInit /\ [][RegistryNext]_<<db, served, on>>

=============================================================================
