------------------------------ MODULE WorkQueue ------------------------------
(***************************************************************************)
(* What a thread pool promises: every task is run once, by a worker that   *)
(* has no other, in the order of the priorities, and the pool closes only  *)
(* when no task is queued or running.  How workers sleep, wake up and lock *)
(* is left out.                                                            *)
(***************************************************************************)
EXTENDS Integers

CONSTANTS Workers, Tasks, Priority, Null

VARIABLES queued, running, answered, closed

poolVars == <<queued, running, answered, closed>>

PoolInit ==
  /\ queued = {} /\ running = [w \in Workers |-> Null]
  /\ answered = {} /\ closed = FALSE

Submit(t) ==
  /\ ~closed /\ t \notin queued \cup answered /\ \A w \in Workers : running[w] # t
  /\ queued' = queued \cup {t}
  /\ UNCHANGED <<running, answered, closed>>

\* A worker takes a task that no other one precedes.
Start(w) ==
  /\ running[w] = Null
  /\ \E t \in queued :
       /\ \A u \in queued : Priority[t] <= Priority[u]
       /\ queued' = queued \ {t} /\ running' = [running EXCEPT ![w] = t]
  /\ UNCHANGED <<answered, closed>>

\* The future of the task gets a value or an exception.
Finish(w) ==
  /\ running[w] # Null /\ running[w] \notin answered
  /\ answered' = answered \cup {running[w]}
  /\ running' = [running EXCEPT ![w] = Null]
  /\ UNCHANGED <<queued, closed>>

Close ==
  /\ queued = {} /\ \A w \in Workers : running[w] = Null
  /\ closed' = TRUE
  /\ UNCHANGED <<queued, running, answered>>

PoolNext ==
  \/ \E t \in Tasks : Submit(t)
  \/ \E w \in Workers : Start(w) \/ Finish(w)
  \/ Close

PoolSpec == PoolInit /\ [][PoolNext]_poolVars
=============================================================================
