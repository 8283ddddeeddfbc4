------------------------- MODULE MCServerLifecycle -------------------------
(***************************************************************************)
(* ServerLifecycle for model checking: the configurations give it the two  *)
(* servers of run() and two requests in flight.                            *)
(***************************************************************************)
EXTENDS ServerLifecycle

=============================================================================
