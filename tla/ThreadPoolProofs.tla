-------------------------- MODULE ThreadPoolProofs --------------------------
(***************************************************************************)
(* For any number of workers and tasks no wakeup of the pool is lost, and  *)
(* the pool keeps the promise of WorkQueue.                                *)
(***************************************************************************)
EXTENDS ThreadPool, FiniteSetTheorems, TLAPS

-----------------------------------------------------------------------------
(* The inductive invariant.  NobodySleepsOnWork needs who may still push   *)
(* and what those that left have seen; the refinement needs where a task   *)
(* is: queued, with one worker, or answered.                               *)

Busy == {"taken", "execute", "body", "erase"}

Places ==
  /\ \A w \in Workers : task[w] # Null <=> pc[w] \in Busy
  /\ \A w \in Workers : pc[w] \in Busy =>
       (promise[task[w]] # "none" <=> pc[w] = "erase")
  /\ \A t \in queue : promise[t] = "none" /\ \A w \in Workers : task[w] # t
  /\ \A v, w \in Workers : task[v] = task[w] /\ task[v] # Null => v = w
  /\ \A t \in toNotify : ~Fresh(t)

Stopping ==
  /\ flagStop <=> owner # "open"
  /\ owner # "open" => toNotify = {}
  /\ \A w \in Workers : pc[w] = "exited" => flagStop /\ queue = {}
  /\ owner = "stopped" => \A w \in Workers : pc[w] = "exited"

PoolInv == TypeOK /\ Places /\ Stopping

LEMMA InitPoolInv == Init => PoolInv
  BY PoolAssumption DEF Init, PoolInv, TypeOK, Places, Stopping, PoolAssumption, Busy

\* Every step keeps the types, the places of the tasks and what stop relies on.
LEMMA StepPoolInv == PoolInv /\ [Next]_vars => PoolInv'
  <1> SUFFICES ASSUME PoolInv, [Next]_vars PROVE PoolInv'
    OBVIOUS
  <1> USE PoolAssumption DEF PoolAssumption, PoolInv, TypeOK, Places, Stopping, Busy, Fresh
  <1>1. ASSUME NEW t \in Tasks, AddTask(t) PROVE PoolInv'
    BY <1>1 DEF AddTask
  <1>2. ASSUME NEW t \in Tasks, NotifyOne(t) PROVE PoolInv'
    <2>1. CASE pc' = pc
      BY <1>2, <2>1 DEF NotifyOne
    <2>2. ASSUME NEW w \in Asleep, pc' = [pc EXCEPT ![w] = "test"] PROVE PoolInv'
      BY <1>2, <2>2 DEF NotifyOne, Asleep
    <2> QED BY <1>2, <2>1, <2>2 DEF NotifyOne
  <1>3. ASSUME NEW t \in Tasks, StopToken(t) PROVE PoolInv'
    BY <1>3 DEF StopToken
  <1>4. ASSUME NEW w \in Workers, StartWorker(w) PROVE PoolInv'
    BY <1>4 DEF StartWorker
  <1>5. ASSUME NEW w \in Workers, Take(w) PROVE PoolInv'
    <2>1. PICK t \in queue : /\ queue' = queue \ {t}
                             /\ task' = [task EXCEPT ![w] = t]
      BY <1>5 DEF Take
    <2>2. TypeOK'
      BY <1>5, <2>1 DEF Take
    <2>3. Places'
      BY <1>5, <2>1 DEF Take
    <2>4. Stopping'
      BY <1>5, <2>1 DEF Take
    <2> QED BY <2>2, <2>3, <2>4
  <1>6. ASSUME NEW w \in Workers, Exit(w) PROVE PoolInv'
    BY <1>6 DEF Exit
  <1>7. ASSUME NEW w \in Workers, FindNothing(w) PROVE PoolInv'
    BY <1>7 DEF FindNothing
  <1>8. ASSUME NEW w \in Workers, Sleep(w) PROVE PoolInv'
    BY <1>8 DEF Sleep
  <1>9. ASSUME NEW w \in Workers, SpuriousWakeup(w) PROVE PoolInv'
    BY <1>9 DEF SpuriousWakeup
  <1>10. ASSUME NEW w \in Workers, Register(w) PROVE PoolInv'
    BY <1>10 DEF Register
  <1>11. ASSUME NEW w \in Workers, Execute(w) PROVE PoolInv'
    <2>1. TypeOK'
      BY <1>11 DEF Execute
    <2>2. Places'
      BY <1>11 DEF Execute
    <2>3. Stopping'
      BY <1>11 DEF Execute
    <2> QED BY <2>1, <2>2, <2>3
  <1>12. ASSUME NEW w \in Workers, Complete(w) PROVE PoolInv'
    <2>1. PICK r \in {"value", "exception"} : promise' = [promise EXCEPT ![task[w]] = r]
      BY <1>12 DEF Complete
    <2>2. TypeOK'
      BY <1>12, <2>1 DEF Complete
    <2>3. Places'
      BY <1>12, <2>1 DEF Complete
    <2>4. Stopping'
      BY <1>12, <2>1 DEF Complete
    <2> QED BY <2>2, <2>3, <2>4
  <1>13. ASSUME NEW w \in Workers, Erase(w) PROVE PoolInv'
    BY <1>13 DEF Erase
  <1>14. CASE SetStop
    BY <1>14 DEF SetStop
  <1>15. CASE NotifyAll
    BY <1>15 DEF NotifyAll
  <1>16. CASE Join
    BY <1>16 DEF Join
  <1>17. CASE UNCHANGED vars
    BY <1>17 DEF vars
  <1> QED
    BY <1>1, <1>2, <1>3, <1>4, <1>5, <1>6, <1>7, <1>8, <1>9, <1>10, <1>11, <1>12,
       <1>13, <1>14, <1>15, <1>16, <1>17
    DEF Next, Loop, Lock, Owner, PreemptTask

\* Every reachable state has its variables' types: queue_mutex has one holder,
\* the worker that is about to sleep.
THEOREM PoolTypes == Spec => []TypeOK
  <1>1. Spec => []PoolInv
    BY InitPoolInv, StepPoolInv, PTL DEF Spec
  <1> QED BY <1>1, PTL DEF PoolInv

-----------------------------------------------------------------------------
(* No wakeup is lost.                                                      *)

\* The sets that NobodySleepsOnWork counts are finite.
LEMMA PoolSetsFinite ==
  ASSUME TypeOK
  PROVE  /\ IsFiniteSet(queue) /\ Cardinality(queue) \in Nat
         /\ IsFiniteSet(toNotify) /\ Cardinality(toNotify) \in Nat
         /\ IsFiniteSet(Testing) /\ Cardinality(Testing) \in Nat
  <1>1. queue \in SUBSET Tasks /\ toNotify \in SUBSET Tasks /\ Testing \in SUBSET Workers
    BY DEF TypeOK, Testing
  <1> QED BY <1>1, PoolAssumption, FS_Subset, FS_CardinalityType DEF PoolAssumption

\* One more worker tests when one did not and now does.
LEMMA OneMoreTests ==
  ASSUME TypeOK, NEW w \in Workers, pc[w] # "test", pc' = [pc EXCEPT ![w] = "test"]
  PROVE  Cardinality(Testing') = Cardinality(Testing) + 1
  <1>1. Testing' = Testing \cup {w} /\ w \notin Testing
    BY DEF TypeOK, Testing
  <1> QED BY <1>1, PoolSetsFinite, FS_AddElement

\* And one less when one did and now does not.
LEMMA OneLessTests ==
  ASSUME TypeOK, NEW w \in Workers, pc[w] = "test",
         NEW c, c # "test", pc' = [pc EXCEPT ![w] = c]
  PROVE  Cardinality(Testing') = Cardinality(Testing) - 1
  <1>1. Testing' = Testing \ {w} /\ w \in Testing
    BY DEF TypeOK, Testing
  <1> QED BY <1>1, PoolSetsFinite, FS_RemoveElement

\* A worker that moves between two places that are neither of them testing.
LEMMA SameTests ==
  ASSUME TypeOK, NEW w \in Workers, pc[w] # "test",
         NEW c, c # "test", pc' = [pc EXCEPT ![w] = c]
  PROVE  Testing' = Testing
  BY DEF TypeOK, Testing

\* At the start nothing is queued and nobody sleeps.
LEMMA InitSleeps == Init => NobodySleepsOnWork
  BY FS_EmptySet DEF Init, NobodySleepsOnWork, Asleep

\* Every step keeps at least as many workers and notifications on the way as
\* tasks are queued, as long as somebody sleeps.
LEMMA StepSleeps == PoolInv /\ NobodySleepsOnWork /\ [Next]_vars => NobodySleepsOnWork'
  <1> SUFFICES ASSUME PoolInv, NobodySleepsOnWork, [Next]_vars
               PROVE  NobodySleepsOnWork'
    OBVIOUS
  <1>p. PoolInv' /\ TypeOK /\ TypeOK'
    BY StepPoolInv DEF PoolInv
  <1>c. /\ IsFiniteSet(queue) /\ Cardinality(queue) \in Nat
        /\ IsFiniteSet(toNotify) /\ Cardinality(toNotify) \in Nat
        /\ Cardinality(Testing) \in Nat
    BY <1>p, PoolSetsFinite
  <1>1. ASSUME NEW t \in Tasks, AddTask(t) PROVE NobodySleepsOnWork'
    <2>1. Cardinality(queue') = Cardinality(queue) + 1
      BY <1>1, <1>c, FS_AddElement DEF AddTask, Fresh
    <2>2. Cardinality(toNotify') = Cardinality(toNotify) + 1
      BY <1>1, <1>c, FS_AddElement DEF AddTask, PoolInv, Places
    <2>3. Testing' = Testing /\ Asleep' = Asleep
      BY <1>1 DEF AddTask, Testing, Asleep
    <2> QED BY <1>1, <1>c, <2>1, <2>2, <2>3 DEF AddTask, NobodySleepsOnWork, PoolInv, Stopping
  <1>2. ASSUME NEW t \in Tasks, NotifyOne(t) PROVE NobodySleepsOnWork'
    <2>1. Cardinality(toNotify') = Cardinality(toNotify) - 1
      BY <1>2, <1>c, FS_RemoveElement DEF NotifyOne
    <2>2. CASE Asleep = {} /\ pc' = pc
      BY <1>2, <2>2 DEF NotifyOne, Asleep, NobodySleepsOnWork
    <2>3. ASSUME NEW w \in Asleep, pc' = [pc EXCEPT ![w] = "test"] PROVE NobodySleepsOnWork'
      <3>1. Cardinality(Testing') = Cardinality(Testing) + 1
        BY <1>p, <2>3, OneMoreTests DEF Asleep
      <3>2. owner \notin {"join", "stopped"} /\ Asleep # {}
        BY <2>3 DEF NobodySleepsOnWork
      <3> QED BY <1>2, <1>c, <2>1, <3>1, <3>2 DEF NotifyOne, NobodySleepsOnWork
    <2> QED BY <1>2, <2>2, <2>3 DEF NotifyOne
  <1>3. ASSUME NEW w \in Workers, StartWorker(w) \/ SpuriousWakeup(w) \/ Erase(w)
        PROVE  NobodySleepsOnWork'
    <2>1. Cardinality(Testing') = Cardinality(Testing) + 1
      BY <1>3, <1>p, OneMoreTests DEF StartWorker, SpuriousWakeup, Erase
    <2>2. Asleep' \subseteq Asleep
      BY <1>3 DEF StartWorker, SpuriousWakeup, Erase, Asleep, TypeOK, PoolInv
    <2> QED BY <1>3, <1>c, <2>1, <2>2
         DEF StartWorker, SpuriousWakeup, Erase, NobodySleepsOnWork
  <1>4. ASSUME NEW w \in Workers, Take(w) PROVE NobodySleepsOnWork'
    <2>1. Cardinality(queue') = Cardinality(queue) - 1
      BY <1>4, <1>c, FS_RemoveElement DEF Take
    <2>2. Cardinality(Testing') = Cardinality(Testing) - 1
      BY <1>4, <1>p, OneLessTests DEF Take
    <2>3. Asleep' = Asleep
      BY <1>4 DEF Take, Asleep, TypeOK, PoolInv
    <2> QED BY <1>4, <1>c, <2>1, <2>2, <2>3 DEF Take, NobodySleepsOnWork
  <1>5. ASSUME NEW w \in Workers, Exit(w) \/ FindNothing(w) PROVE NobodySleepsOnWork'
    <2>1. queue' = {} /\ Cardinality(queue') = 0 /\ toNotify' = toNotify
      BY <1>5, FS_EmptySet DEF Exit, FindNothing
    <2>2. Cardinality(toNotify') \in Nat /\ Cardinality(Testing') \in Nat
      <3>1. Testing' \in SUBSET Workers
        BY DEF Testing
      <3> QED BY <1>c, <2>1, <3>1, PoolAssumption, FS_Subset, FS_CardinalityType
           DEF PoolAssumption
    <2>3. Asleep' = Asleep
      BY <1>5 DEF Exit, FindNothing, Asleep, TypeOK, PoolInv
    <2> QED BY <1>5, <2>1, <2>2, <2>3 DEF Exit, FindNothing, NobodySleepsOnWork
  <1>6. ASSUME NEW w \in Workers, Sleep(w) PROVE NobodySleepsOnWork'
    <2>1. holder = w /\ queue = {} /\ ~flagStop /\ Cardinality(queue) = 0
      BY <1>6, FS_EmptySet, PoolAssumption
      DEF Sleep, NobodySleepsOnWork, TypeOK, PoolInv, PoolAssumption
    <2>2. Testing' = Testing
      BY <1>6, <1>p, SameTests DEF Sleep
    <2> QED BY <1>6, <1>c, <2>1, <2>2 DEF Sleep, NobodySleepsOnWork, PoolInv, Stopping
  <1>7. ASSUME NEW w \in Workers, Register(w) \/ Execute(w) \/ Complete(w)
        PROVE  NobodySleepsOnWork'
    <2>1. Testing' = Testing /\ Asleep' = Asleep
      BY <1>7 DEF Register, Execute, Complete, Testing, Asleep, TypeOK, PoolInv
    <2> QED BY <1>7, <2>1 DEF Register, Execute, Complete, NobodySleepsOnWork
  <1>8. ASSUME NEW t \in Tasks, StopToken(t) PROVE NobodySleepsOnWork'
    BY <1>8 DEF StopToken, NobodySleepsOnWork, Testing, Asleep
  <1>9. CASE SetStop
    BY <1>9 DEF SetStop, NobodySleepsOnWork, Testing, Asleep
  <1>10. CASE NotifyAll
    <2>1. Asleep' = {}
      BY <1>10 DEF NotifyAll, Asleep
    <2> QED BY <1>10, <2>1 DEF NotifyAll, NobodySleepsOnWork
  <1>11. CASE Join
    BY <1>11 DEF Join, NobodySleepsOnWork, Testing, Asleep
  <1>12. CASE UNCHANGED vars
    BY <1>12 DEF vars, NobodySleepsOnWork, Testing, Asleep
  <1> QED
    BY <1>1, <1>2, <1>3, <1>4, <1>5, <1>6, <1>7, <1>8, <1>9, <1>10, <1>11, <1>12
    DEF Next, Loop, Lock, Owner, PreemptTask

\* No wakeup is lost, for any number of workers and tasks: while one sleeps,
\* every queued task has a worker or a notification of its own on the way, and
\* after notify_all nobody sleeps through stop.
THEOREM NoLostWakeup == Spec => []NobodySleepsOnWork
  <1>1. PoolInv /\ NobodySleepsOnWork /\ [Next]_vars => (PoolInv /\ NobodySleepsOnWork)'
    BY StepPoolInv, StepSleeps
  <1> QED BY <1>1, InitPoolInv, InitSleeps, PTL DEF Spec

-----------------------------------------------------------------------------
(* The refinement.                                                         *)

LEMMA InitPool == Init => Pool!PoolInit
  BY PoolAssumption DEF Init, Pool!PoolInit, PoolAssumption

\* Every step is a step of WorkQueue or leaves what WorkQueue sees alone.
LEMMA StepPool == PoolInv /\ PoolInv' /\ [Next]_vars => [Pool!PoolNext]_(Pool!poolVars)
  <1> SUFFICES ASSUME PoolInv, PoolInv', [Next]_vars
               PROVE  [Pool!PoolNext]_(Pool!poolVars)
    OBVIOUS
  <1> DEFINE run == [w \in Workers |-> IF pc[w] = "erase" THEN Null ELSE task[w]]
             done == {t \in Tasks : promise[t] # "none"}
  <1> USE PoolAssumption DEF PoolAssumption, PoolInv, TypeOK, Places, Stopping, Busy
  <1>1. ASSUME NEW t \in Tasks, AddTask(t) PROVE Pool!Submit(t)
    BY <1>1 DEF AddTask, Fresh, Pool!Submit
  <1>2. ASSUME NEW w \in Workers, Take(w) PROVE Pool!Start(w)
    <2>1. PICK t \in queue : /\ \A u \in queue : Priority[t] <= Priority[u]
                             /\ queue' = queue \ {t} /\ task' = [task EXCEPT ![w] = t]
      BY <1>2 DEF Take
    <2>2. run[w] = Null
      BY <1>2 DEF Take
    <2>3. run' = [run EXCEPT ![w] = t]
      <3>1. \A v \in Workers : run'[v] = IF v = w THEN t ELSE run[v]
        BY <1>2, <2>1 DEF Take
      <3>2. run = [v \in Workers |-> run[v]] /\ run' = [v \in Workers |-> run'[v]]
        OBVIOUS
      <3> HIDE DEF run
      <3> QED BY <3>1, <3>2
    <2>4. UNCHANGED <<promise, owner>>
      BY <1>2 DEF Take
    <2> HIDE DEF run
    <2>5. /\ run[w] = Null /\ run' = [run EXCEPT ![w] = t]
          /\ UNCHANGED <<{u \in Tasks : promise[u] # "none"}, owner = "stopped">>
      BY <2>2, <2>3, <2>4
    <2> QED BY <2>1, <2>5 DEF Pool!Start, run
  <1>3. ASSUME NEW w \in Workers, Complete(w) \/ (Execute(w) /\ task[w] \in stopped)
        PROVE  Pool!Finish(w)
    <2>1. PICK r \in {"empty", "value", "exception"} :
            /\ promise' = [promise EXCEPT ![task[w]] = r]
            /\ pc' = [pc EXCEPT ![w] = "erase"] /\ pc[w] \in {"execute", "body"}
            /\ UNCHANGED <<queue, task, owner>>
      BY <1>3 DEF Complete, Execute
    <2>2. run[w] = task[w] /\ task[w] \in Tasks /\ task[w] \notin done
      BY <2>1
    <2>3. run' = [run EXCEPT ![w] = Null]
      <3>1. \A v \in Workers : run'[v] = IF v = w THEN Null ELSE run[v]
        BY <2>1
      <3>2. run = [v \in Workers |-> run[v]] /\ run' = [v \in Workers |-> run'[v]]
        OBVIOUS
      <3> HIDE DEF run
      <3> QED BY <3>1, <3>2
    <2>4. done' = done \cup {task[w]}
      <3>1. \A t \in Tasks : promise'[t] = IF t = task[w] THEN r ELSE promise[t]
        BY <2>1, <2>2
      <3> QED BY <2>2, <3>1
    <2> QED BY <2>1, <2>2, <2>3, <2>4 DEF Pool!Finish
  <1>4. ASSUME Join PROVE Pool!Close
    BY <1>4 DEF Join, Pool!Close
  <1>5. ASSUME NEW w \in Workers,
               \/ StartWorker(w) \/ Exit(w) \/ FindNothing(w) \/ Sleep(w) \/ SpuriousWakeup(w)
               \/ Register(w) \/ Erase(w) \/ (Execute(w) /\ task[w] \notin stopped)
        PROVE  UNCHANGED Pool!poolVars
    <2>1. UNCHANGED <<queue, promise, owner>> /\ run' = run
      BY <1>5 DEF StartWorker, Exit, FindNothing, Sleep, SpuriousWakeup, Register, Erase, Execute
    <2> QED BY <2>1 DEF Pool!poolVars
  <1>6. ASSUME NEW t \in Tasks, NotifyOne(t) \/ StopToken(t) PROVE UNCHANGED Pool!poolVars
    <2>1. UNCHANGED <<queue, promise, owner>> /\ run' = run
      <3>1. CASE NotifyOne(t)
        BY <3>1 DEF NotifyOne, Asleep
      <3>2. CASE StopToken(t)
        BY <3>2 DEF StopToken
      <3> QED BY <1>6, <3>1, <3>2
    <2> QED BY <2>1 DEF Pool!poolVars
  <1>7. ASSUME SetStop \/ NotifyAll \/ UNCHANGED vars
        PROVE  UNCHANGED Pool!poolVars
    <2>1. UNCHANGED <<queue, promise>> /\ run' = run
      BY <1>7 DEF SetStop, NotifyAll, vars
    <2>2. (owner' = "stopped") = (owner = "stopped")
      BY <1>7 DEF SetStop, NotifyAll, vars
    <2> QED BY <2>1, <2>2 DEF Pool!poolVars
  <1>8. ASSUME NEW t \in Tasks, AddTask(t) \/ NotifyOne(t) \/ StopToken(t) \/ PreemptTask(t)
        PROVE  Pool!Submit(t) \/ UNCHANGED Pool!poolVars
    BY <1>1, <1>6, <1>8 DEF PreemptTask
  <1>9. ASSUME NEW w \in Workers, Loop(w) \/ Lock(w) \/ SpuriousWakeup(w)
        PROVE  Pool!Start(w) \/ Pool!Finish(w) \/ UNCHANGED Pool!poolVars
    <2>1. CASE Take(w)
      BY <1>2, <2>1
    <2>2. CASE Complete(w) \/ (Execute(w) /\ task[w] \in stopped)
      BY <1>3, <2>2
    <2>3. CASE \/ StartWorker(w) \/ Exit(w) \/ FindNothing(w) \/ Sleep(w) \/ SpuriousWakeup(w)
               \/ Register(w) \/ Erase(w) \/ (Execute(w) /\ task[w] \notin stopped)
      BY <1>5, <2>3
    <2> QED BY <1>9, <2>1, <2>2, <2>3 DEF Loop, Lock
  <1>10. Pool!PoolNext \/ UNCHANGED Pool!poolVars
    BY <1>4, <1>7, <1>8, <1>9, Zenon DEF Next, Owner, Pool!PoolNext
  <1> QED BY <1>10, Zenon

\* The pool implements WorkQueue: every task that was added runs once, the most
\* urgent of the queued ones first, and is answered once, and stop returns only
\* when none is queued or running.
THEOREM PoolServes == Spec => RunsEachOnce
  <1>1. Spec => []PoolInv
    BY InitPoolInv, StepPoolInv, PTL DEF Spec
  <1> QED BY <1>1, InitPool, StepPool, PTL DEF Spec, RunsEachOnce, Pool!PoolSpec
=============================================================================
