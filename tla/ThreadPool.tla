----------------------------- MODULE ThreadPool -----------------------------
(***************************************************************************)
(* PreemptiveThreadPool, twice in the tensor engine: compute_pool inflates *)
(* and IO_thread reads.  Every region under queue_mutex, every             *)
(* notification and every test of a token is a step of its own.  A task is *)
(* one operation; its token is that of the job it belongs to, which the    *)
(* scheduler may stop at any time.                                         *)
(***************************************************************************)
EXTENDS Integers, FiniteSets

CONSTANTS
  Workers, Tasks,
  Priority,   \* of each task; the smallest goes first
  Null

ASSUME PoolAssumption ==
  /\ IsFiniteSet(Workers) /\ Workers # {} /\ IsFiniteSet(Tasks)
  /\ Priority \in [Tasks -> Int]
  /\ Null \notin Workers \cup Tasks

VARIABLES
  queue,      \* task_queue
  toNotify,   \* tasks pushed by an add_task that has not notified yet
  flagStop,   \* flag_stop
  holder,     \* the worker that found nothing to do and holds queue_mutex
  pc,         \* where each worker is in worker_loop
  task,       \* its task
  stopped,    \* tasks whose preempt token is set
  promise,    \* what the future of each task was given
  owner       \* where the thread that destroys the pool is

vars == <<queue, toNotify, flagStop, holder, pc, task, stopped, promise, owner>>

Asleep  == {w \in Workers : pc[w] = "asleep"}
Testing == {w \in Workers : pc[w] = "test"}
\* running_tasks: a worker's task from its registration to its removal.
RunningTasks == {task[w] : w \in {v \in Workers : pc[v] \in {"execute", "body", "erase"}}}
Fresh(t) == t \notin queue /\ promise[t] = "none" /\ \A w \in Workers : task[w] # t

Init ==
  /\ queue = {} /\ toNotify = {} /\ flagStop = FALSE /\ holder = Null
  /\ pc = [w \in Workers |-> "start"] /\ task = [w \in Workers |-> Null]
  /\ stopped = {} /\ promise = [t \in Tasks |-> "none"] /\ owner = "open"

-----------------------------------------------------------------------------

\* Mutant: only the push that makes the queue non-empty is announced.
AddTaskQuiet(t) ==
  /\ owner = "open" /\ holder = Null /\ Fresh(t)
  /\ queue' = queue \cup {t}
  /\ toNotify' = IF queue = {} THEN toNotify \cup {t} ELSE toNotify
  /\ UNCHANGED <<flagStop, holder, pc, task, stopped, promise, owner>>

\* add_task pushes under queue_mutex.  Nobody adds once the pool is destroyed.
AddTask(t) ==
  /\ owner = "open" /\ holder = Null /\ Fresh(t)
  /\ queue' = queue \cup {t} /\ toNotify' = toNotify \cup {t}
  /\ UNCHANGED <<flagStop, holder, pc, task, stopped, promise, owner>>

\* notify_one, without the mutex: it wakes one of those asleep, if any.
NotifyOne(t) ==
  /\ t \in toNotify
  /\ toNotify' = toNotify \ {t}
  /\ \/ Asleep = {} /\ pc' = pc
     \/ \E w \in Asleep : pc' = [pc EXCEPT ![w] = "test"]
  /\ UNCHANGED <<queue, flagStop, holder, task, stopped, promise, owner>>

\* The scheduler stops the token that a job shares with its operations.  That of
\* a task that has its answer is read by nobody and left out.
StopToken(t) ==
  /\ promise[t] = "none"
  /\ stopped' = stopped \cup {t}
  /\ UNCHANGED <<queue, toNotify, flagStop, holder, pc, task, promise, owner>>

\* preempt_task finds only a task that runs.
PreemptTask(t) == t \in RunningTasks /\ StopToken(t)

-----------------------------------------------------------------------------

\* A worker registers in thread_idx_map and enters the loop.
StartWorker(w) ==
  /\ pc[w] = "start"
  /\ pc' = [pc EXCEPT ![w] = "test"]
  /\ UNCHANGED <<queue, toNotify, flagStop, holder, task, stopped, promise, owner>>

\* Mutant: any task is popped.
TakeAny(w) ==
  /\ pc[w] = "test" /\ holder = Null
  /\ \E t \in queue : queue' = queue \ {t} /\ task' = [task EXCEPT ![w] = t]
  /\ pc' = [pc EXCEPT ![w] = "taken"]
  /\ UNCHANGED <<toNotify, flagStop, holder, stopped, promise, owner>>

\* The predicate of cond_var.wait holds: pop the first task ...
Take(w) ==
  /\ pc[w] = "test" /\ holder = Null
  /\ \E t \in queue :
       /\ \A u \in queue : Priority[t] <= Priority[u]
       /\ queue' = queue \ {t} /\ task' = [task EXCEPT ![w] = t]
  /\ pc' = [pc EXCEPT ![w] = "taken"]
  /\ UNCHANGED <<toNotify, flagStop, holder, stopped, promise, owner>>

\* ... or leave, with nothing queued and the stop flag set.
Exit(w) ==
  /\ pc[w] = "test" /\ holder = Null
  /\ flagStop /\ queue = {}
  /\ pc' = [pc EXCEPT ![w] = "exited"]
  /\ UNCHANGED <<queue, toNotify, flagStop, holder, task, stopped, promise, owner>>

\* It does not hold: the worker still holds the mutex ...
FindNothing(w) ==
  /\ pc[w] = "test" /\ holder = Null
  /\ ~flagStop /\ queue = {}
  /\ pc' = [pc EXCEPT ![w] = "block"] /\ holder' = w
  /\ UNCHANGED <<queue, toNotify, flagStop, task, stopped, promise, owner>>

\* Mutant: the mutex is kept through the sleep.
SleepHolding(w) ==
  /\ pc[w] = "block"
  /\ pc' = [pc EXCEPT ![w] = "asleep"]
  /\ UNCHANGED <<queue, toNotify, flagStop, holder, task, stopped, promise, owner>>

\* ... which it gives up as it goes to sleep.
Sleep(w) ==
  /\ pc[w] = "block"
  /\ pc' = [pc EXCEPT ![w] = "asleep"] /\ holder' = Null
  /\ UNCHANGED <<queue, toNotify, flagStop, task, stopped, promise, owner>>

SpuriousWakeup(w) ==
  /\ pc[w] = "asleep"
  /\ pc' = [pc EXCEPT ![w] = "test"]
  /\ UNCHANGED <<queue, toNotify, flagStop, holder, task, stopped, promise, owner>>

\* The task goes into running_tasks.
Register(w) ==
  /\ pc[w] = "taken"
  /\ pc' = [pc EXCEPT ![w] = "execute"]
  /\ UNCHANGED <<queue, toNotify, flagStop, holder, task, stopped, promise, owner>>

\* execute: a stopped task gets an empty value and its function is not called.
Execute(w) ==
  /\ pc[w] = "execute"
  /\ IF task[w] \in stopped
     THEN promise' = [promise EXCEPT ![task[w]] = "empty"] /\ pc' = [pc EXCEPT ![w] = "erase"]
     ELSE promise' = promise /\ pc' = [pc EXCEPT ![w] = "body"]
  /\ UNCHANGED <<queue, toNotify, flagStop, holder, task, stopped, owner>>

\* The function returns or throws; either way the future is answered.
Complete(w) ==
  /\ pc[w] = "body"
  /\ \E r \in {"value", "exception"} : promise' = [promise EXCEPT ![task[w]] = r]
  /\ pc' = [pc EXCEPT ![w] = "erase"]
  /\ UNCHANGED <<queue, toNotify, flagStop, holder, task, stopped, owner>>

\* The task leaves running_tasks and the loop starts again.
Erase(w) ==
  /\ pc[w] = "erase"
  /\ pc' = [pc EXCEPT ![w] = "test"] /\ task' = [task EXCEPT ![w] = Null]
  /\ UNCHANGED <<queue, toNotify, flagStop, holder, stopped, promise, owner>>

-----------------------------------------------------------------------------

\* Mutant: the flag is set without queue_mutex.
SetStopUnlocked ==
  /\ owner = "open" /\ toNotify = {}
  /\ flagStop' = TRUE /\ owner' = "notify"
  /\ UNCHANGED <<queue, toNotify, holder, pc, task, stopped, promise>>

\* stop, from the destructor: no add_task is under way.  The flag ...
SetStop ==
  /\ owner = "open" /\ holder = Null /\ toNotify = {}
  /\ flagStop' = TRUE /\ owner' = "notify"
  /\ UNCHANGED <<queue, toNotify, holder, pc, task, stopped, promise>>

\* ... notify_all ...
NotifyAll ==
  /\ owner = "notify"
  /\ pc' = [w \in Workers |-> IF pc[w] = "asleep" THEN "test" ELSE pc[w]]
  /\ owner' = "join"
  /\ UNCHANGED <<queue, toNotify, flagStop, holder, task, stopped, promise>>

\* ... and join.
Join ==
  /\ owner = "join" /\ \A w \in Workers : pc[w] = "exited"
  /\ owner' = "stopped"
  /\ UNCHANGED <<queue, toNotify, flagStop, holder, pc, task, stopped, promise>>

Loop(w) == StartWorker(w) \/ Sleep(w) \/ Register(w) \/ Execute(w) \/ Complete(w) \/ Erase(w)
Lock(w) == Take(w) \/ Exit(w) \/ FindNothing(w)
Owner   == NotifyAll \/ Join

Next ==
  \/ \E t \in Tasks : AddTask(t) \/ NotifyOne(t) \/ StopToken(t) \/ PreemptTask(t)
  \/ \E w \in Workers : Loop(w) \/ Lock(w) \/ SpuriousWakeup(w)
  \/ SetStop \/ Owner

Spec == Init /\ [][Next]_vars

\* Threads keep running, and who waits for queue_mutex gets it in the end.
FairSpec ==
  /\ Spec
  /\ \A w \in Workers : WF_vars(Loop(w)) /\ SF_vars(Lock(w))
  /\ \A t \in Tasks : WF_vars(NotifyOne(t))
  /\ WF_vars(Owner)

-----------------------------------------------------------------------------
(* Properties.                                                             *)

\* Every variable keeps its type, and queue_mutex has at most one holder.
TypeOK ==
  /\ queue \subseteq Tasks /\ toNotify \subseteq Tasks /\ stopped \subseteq Tasks
  /\ flagStop \in BOOLEAN /\ holder \in Workers \cup {Null}
  /\ pc \in [Workers -> {"start", "test", "block", "asleep", "taken", "execute",
                         "body", "erase", "exited"}]
  /\ task \in [Workers -> Tasks \cup {Null}]
  /\ promise \in [Tasks -> {"none", "empty", "value", "exception"}]
  /\ owner \in {"open", "notify", "join", "stopped"}
  /\ \A w \in Workers : pc[w] = "block" <=> holder = w

\* No wakeup is lost.  While a worker sleeps, every queued task has a worker of
\* its own on the way, or an add_task that is about to wake one; and once stop
\* has notified nobody sleeps, or goes to sleep, who will not be woken again.
NobodySleepsOnWork ==
  /\ Asleep # {} => Cardinality(queue) <= Cardinality(toNotify) + Cardinality(Testing)
  /\ holder # Null => queue = {} /\ ~flagStop
  /\ owner \in {"join", "stopped"} => Asleep = {}

Pool == INSTANCE WorkQueue WITH
  queued   <- queue,
  running  <- [w \in Workers |-> IF pc[w] = "erase" THEN Null ELSE task[w]],
  answered <- {t \in Tasks : promise[t] # "none"},
  closed   <- (owner = "stopped")

\* The pool keeps the promise of WorkQueue: each task runs once and is answered
\* once, the most urgent first, and stop returns only when all have been, those
\* that were still queued when the flag was set included.
RunsEachOnce == Pool!PoolSpec

\* A task that was added is answered, and a pool told to stop does stop.
AllAnswered ==
  /\ \A t \in Tasks : t \in queue ~> promise[t] # "none"
  /\ flagStop ~> owner = "stopped"
=============================================================================
