--------------------------- MODULE ExpertService ---------------------------
(***************************************************************************)
(* What the expert dispatcher promises the Python executor, and nothing of *)
(* how it does it.  ExpertExecutor.dispatch_local names the experts that   *)
(* the router activated for a layer, and wait_expert returns once every    *)
(* one of them has produced its output, each exactly once.                 *)
(***************************************************************************)
EXTENDS Integers, FiniteSets

CONSTANT Experts            \* the expert indices of a sparse layer

VARIABLES
  busy,      \* a layer call is between set_expected_queue and wait_expert
  wanted,    \* the experts of the current call
  served,    \* those whose output has been produced
  expected   \* the number of outputs the caller still waits for

serviceVars == <<busy, wanted, served, expected>>

ServiceInit ==
  /\ busy = FALSE
  /\ wanted = {} /\ served = {}
  /\ expected = 0

\* The executor asks for the activated experts of a layer.
Request(A) ==
  /\ ~busy
  /\ busy' = TRUE /\ wanted' = A /\ served' = {}
  /\ expected' = Cardinality(A)

\* One more requested expert has an output; no expert has two.
Serve(e) ==
  /\ busy /\ e \in wanted \ served
  /\ served' = served \cup {e}
  /\ UNCHANGED <<busy, wanted, expected>>

\* The caller is told of an output that exists.
Acknowledge ==
  /\ busy
  /\ Cardinality(wanted) - Cardinality(served) < expected
  /\ expected' = expected - 1
  /\ UNCHANGED <<busy, wanted, served>>

\* The call returns the outputs of all the requested experts.
Collect ==
  /\ busy /\ expected = 0 /\ served = wanted
  /\ busy' = FALSE /\ wanted' = {} /\ served' = {}
  /\ UNCHANGED expected

ServiceNext ==
  \/ \E A \in (SUBSET Experts) \ {{}} : Request(A)
  \/ \E e \in Experts : Serve(e)
  \/ Acknowledge
  \/ Collect

ServiceSpec == ServiceInit /\ [][ServiceNext]_serviceVars
=============================================================================
