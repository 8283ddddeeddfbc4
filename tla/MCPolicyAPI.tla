---------------------------- MODULE MCPolicyAPI ----------------------------
(* Model checking PolicyAPI with the sources and bodies of MCPolicyService. *)
EXTENDS PolicyAPI, MCPolicyService

=============================================================================
