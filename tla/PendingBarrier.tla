--------------------------- MODULE PendingBarrier ---------------------------
(***************************************************************************)
(* How ExpertDispatcher::Wait and OutputFunc meet: the Python thread       *)
(* sleeps on pending_cv_ until pending_ is 0, and the output thread counts *)
(* pending_ down and notifies.  ExpertPipeline takes this handshake as one *)
(* step; here every load, decrement and notification is a step of its own. *)
(* Only Wait takes pending_mutex_, so the mutex excludes nobody and is not *)
(* a variable.                                                             *)
(***************************************************************************)
EXTENDS Integers, FiniteSets

CONSTANT Experts            \* the expert indices of a sparse layer

ASSUME BarrierAssumption == IsFiniteSet(Experts)

VARIABLES
  wait,      \* where the Python thread is
  out,       \* where the output thread is
  wanted,    \* the experts of the current layer call
  left,      \* those whose forward pass has not reached the output thread
  outputs,   \* output_queue_
  pending    \* pending_

vars == <<wait, out, wanted, left, outputs, pending>>

Init ==
  /\ wait = "idle" /\ out = "idle"
  /\ wanted = {} /\ left = {} /\ outputs = {} /\ pending = 0

\* Mutant: the queue length leaves out the last expert.
SetExpectedQueueShort(A) ==
  /\ wait = "idle"
  /\ wait' = "check"
  /\ wanted' = A /\ left' = A /\ pending' = Cardinality(A) - 1
  /\ UNCHANGED <<out, outputs>>

\* set_expected_queue and the EnqueueExpert calls of a layer.
SetExpectedQueue(A) ==
  /\ wait = "idle"
  /\ wait' = "check"
  /\ wanted' = A /\ left' = A /\ pending' = Cardinality(A)
  /\ UNCHANGED <<out, outputs>>

\* Mutant: the predicate is satisfied one result too early.
WaitCheckEarly ==
  /\ wait = "check"
  /\ wait' = IF pending <= 1 THEN "swap" ELSE "block"
  /\ UNCHANGED <<out, wanted, left, outputs, pending>>

\* The predicate of pending_cv_.wait, evaluated on entry and at every wakeup.
WaitCheck ==
  /\ wait = "check"
  /\ wait' = IF pending = 0 THEN "swap" ELSE "block"
  /\ UNCHANGED <<out, wanted, left, outputs, pending>>

\* The thread releases pending_mutex_ and goes to sleep.
WaitBlock ==
  /\ wait = "block"
  /\ wait' = "asleep"
  /\ UNCHANGED <<out, wanted, left, outputs, pending>>

\* A condition variable may wake up for no reason.
SpuriousWakeup ==
  /\ wait = "asleep"
  /\ wait' = "check"
  /\ UNCHANGED <<out, wanted, left, outputs, pending>>

\* Mutant: the results are copied and stay in the queue.
WaitReturnCopies ==
  /\ wait = "swap"
  /\ wait' = "idle" /\ wanted' = {}
  /\ UNCHANGED <<out, left, outputs, pending>>

\* Wait swaps output_queue_ out and returns it.
WaitReturn ==
  /\ wait = "swap"
  /\ wait' = "idle" /\ wanted' = {} /\ outputs' = {}
  /\ UNCHANGED <<out, left, pending>>

\* OutputFunc appends the result of an expert under output_mutex_ ...
OutputPush(e) ==
  /\ out = "idle" /\ e \in left
  /\ out' = "pushed"
  /\ left' = left \ {e} /\ outputs' = outputs \cup {e}
  /\ UNCHANGED <<wait, wanted, pending>>

\* ... counts it ...
OutputCount ==
  /\ out = "pushed"
  /\ out' = "counted" /\ pending' = pending - 1
  /\ UNCHANGED <<wait, wanted, left, outputs>>

\* ... reads the counter again ...
OutputLoad ==
  /\ out = "counted"
  /\ out' = IF pending = 0 THEN "notify" ELSE "idle"
  /\ UNCHANGED <<wait, wanted, left, outputs, pending>>

\* ... and wakes the threads that are asleep now, without pending_mutex_.
OutputNotify ==
  /\ out = "notify"
  /\ out' = "idle"
  /\ wait' = IF wait = "asleep" THEN "check" ELSE wait
  /\ UNCHANGED <<wanted, left, outputs, pending>>

Waiter == WaitCheck \/ WaitBlock \/ WaitReturn
Output == (\E e \in Experts : OutputPush(e)) \/ OutputCount \/ OutputLoad
          \/ OutputNotify

Next ==
  \/ \E A \in (SUBSET Experts) \ {{}} : SetExpectedQueue(A)
  \/ Waiter \/ SpuriousWakeup \/ Output

Spec == Init /\ [][Next]_vars

\* Both threads keep running; nothing makes a spurious wakeup happen.
FairSpec == Spec /\ WF_vars(Waiter) /\ WF_vars(Output)

-----------------------------------------------------------------------------
(* Properties.                                                             *)

\* Every variable keeps its type; the counter never goes below zero.
TypeOK ==
  /\ wait \in {"idle", "check", "block", "asleep", "swap"}
  /\ out \in {"idle", "pushed", "counted", "notify"}
  /\ wanted \subseteq Experts /\ left \subseteq wanted /\ outputs \subseteq wanted
  /\ pending \in 0 .. Cardinality(Experts)

\* The counter runs behind the results, never ahead of them: it is the number
\* of experts without a result, and one more between OutputFunc's append and
\* its fetch_sub, also when the output thread still finishes an earlier call.
PendingBehindOutputs ==
  wait # "idle" =>
    pending = Cardinality(wanted \ outputs) + (IF out = "pushed" THEN 1 ELSE 0)

Service == INSTANCE ExpertService WITH
  busy <- wait # "idle", served <- outputs, expected <- pending

\* With the handshake cut into its steps the promise of ExpertService still
\* holds: Wait returns one output of every requested expert and no other.
WaitReturnsAll == Service!ServiceSpec

\* wait_expert waits for all the experts to complete and collects the result:
\* once it waits it returns.
WaitCollects == wait = "check" ~> wait = "idle"
=============================================================================
