-------------------------- MODULE PolicyRefinement --------------------------
(***************************************************************************)
(* The service, serving one request at a time, implements PolicyRegistry.  *)
(***************************************************************************)
EXTENDS PolicyService

(* The rows as they are between requests: a write whose recompilation has
   not been decided yet does not count. *)
Settled ==
  [id \in PolicyID |->
     IF \E p \in Request : pc[p] \in AfterWrite /\ job[p].id = id
     THEN job[CHOOSE p \in Request : pc[p] \in AfterWrite /\ job[p].id = id].prev
     ELSE db[id]]

Registry == INSTANCE PolicyRegistry WITH db <- Settled, served <- queries, on <- up

(* The engine and the database change together as far as a client that waits
   for each answer can tell: a request the engine refuses changes neither. *)
ImplementsRegistry == Registry!RegistrySpec

=============================================================================
