------------------------------ MODULE StartUp ------------------------------
(***************************************************************************)
(* What happens on the Python thread from the construction of the engine   *)
(* on: the memory is divided and the cache's pools are cut, then the       *)
(* parameters are registered and the topology is built, then the forward   *)
(* passes run under the hooks.                                             *)
(***************************************************************************)
EXTENDS CachePlan, DenseNodes

StartInit == PlanInit /\ Init

StartNext == \/ PlanNext /\ UNCHANGED vars
             \/ at = "built" /\ Next /\ UNCHANGED planVars

StartSpec == StartInit /\ [][StartNext]_<<planVars, vars>>
=============================================================================
