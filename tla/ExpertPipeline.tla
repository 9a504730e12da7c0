--------------------------- MODULE ExpertPipeline ---------------------------
(***************************************************************************)
(* The serving path of a sparse layer: the Python executor calls the       *)
(* ExpertDispatcher, which decides a caching state for every activated     *)
(* expert, hands cache misses to the TensorEngine (scheduler, IO thread,   *)
(* decompression pool), recovers the tensors on the fetch thread, runs the *)
(* expert on the exec thread and releases it on the output thread.         *)
(*                                                                         *)
(* A node is one expert of one layer.  At most one task lives per node,    *)
(* because its creator holds the node mutex until the task is released.    *)
(* Memory is abstracted to regions (GPU slots, pinned sign-mantissa slots, *)
(* docks) whose content is the node whose bytes landed there.              *)
(***************************************************************************)
EXTENDS Integers, Sequences, FiniteSets

CONSTANTS
  NumLayers, NumExperts,  \* sparse layers, experts per layer
  GpuSlots, SmSlots,      \* slots of the GPU pool and of the pinned SM pool
  Docks,                  \* staging docks (one per expert of a layer)
  ExpOps, SmOps,          \* operations of a task: exponent chunks, SM reads
  Margin,                 \* hyperparam_margin * num_experts, rounded down
  Plannings,              \* whether caching_algorithm may be "ZipMoE", or not
  PrefetchTopK,           \* experts prefetched after each layer
  NumComputeWorkers,      \* threads of the decompression pool
  Null, Garbled           \* no node/region; a tensor mixed from two nodes

Layers  == 0 .. NumLayers - 1
Experts == 0 .. NumExperts - 1
Node    == Layers \X Experts
Ops     == ExpOps \cup SmOps

ASSUME PipelineAssumption ==
  /\ NumLayers \in Nat \ {0} /\ NumExperts \in Nat \ {0}
  /\ IsFiniteSet(GpuSlots) /\ IsFiniteSet(SmSlots)
  /\ IsFiniteSet(Docks) /\ Cardinality(Docks) = NumExperts
  /\ GpuSlots \cap Docks = {} /\ SmSlots \cap Docks = {}
  /\ IsFiniteSet(ExpOps) /\ IsFiniteSet(SmOps)
  /\ ExpOps # {} /\ SmOps # {} /\ ExpOps \cap SmOps = {}
  /\ Margin \in Nat /\ PrefetchTopK \in Nat
  /\ Plannings \subseteq BOOLEAN /\ NumComputeWorkers \in Nat \ {0}
  /\ Null \notin GpuSlots \cup SmSlots \cup Docks \cup Node
  /\ Garbled \notin Node \cup {Null}

VARIABLES
  planning,                                           \* caching_algorithm = "ZipMoE"
  pc, layer, todo, wanted, decision, blockOpen,       \* the Python thread
  place, readyQ, task, ops, pend, stray,              \* tasks and operations
  locked, onGpu, memPtr, smPtr,                       \* the nodes
  dockOf, gpuSlotOf, smSlotOf,                        \* who owns which region
  dockIn, smIn, tensor,                               \* what the regions hold
  pending, outputs,                                   \* the results
  fault                                               \* why the process stopped

mainVars  == <<planning, pc, layer, todo, wanted, decision, blockOpen>>
taskVars  == <<place, readyQ, task, ops, pend, stray>>
nodeVars  == <<locked, onGpu, memPtr, smPtr>>
ownerVars == <<dockOf, gpuSlotOf, smSlotOf>>
dataVars  == <<dockIn, smIn, tensor>>
doneVars  == <<pending, outputs>>
vars == <<mainVars, taskVars, nodeVars, ownerVars, dataVars, doneVars, fault>>

TaskState == {"PREFETCH", "NORMAL", "SMCACHE", "EVICT"}

\* The container that holds the task of a node.  "released" and "pushed" are
\* the task in the hands of the output thread, after the mutex is unlocked.
Place == {"none", "new", "typeI", "typeII", "scheduled", "ready", "exec",
          "output", "released", "pushed"}

Task == [state : TaskState, hit : BOOLEAN, exp : Docks \cup {Null},
         sm : Docks \cup SmSlots \cup {Null},
         tensor : Docks \cup GpuSlots \cup {Null}]

NoTask == [state |-> "NORMAL", hit |-> FALSE,
           exp |-> Null, sm |-> Null, tensor |-> Null]

Owned(owner) == {owner[n] : n \in Node}
FreeDocks    == Docks \ Owned(dockOf)
FreeGpu      == GpuSlots \ Owned(gpuSlotOf)
FreeSm       == SmSlots \ Owned(smSlotOf)
EmptyDock    == [o \in Ops |-> Null]
EmptySm      == [o \in SmOps |-> Null]

Init ==
  /\ planning \in Plannings
  /\ pc = "idle" /\ layer = NumLayers - 1
  /\ todo = {} /\ wanted = {} /\ decision = "NORMAL" /\ blockOpen = FALSE
  /\ place = [n \in Node |-> "none"] /\ readyQ = <<>>
  /\ task = [n \in Node |-> NoTask]
  /\ ops = [n \in Node |-> {}] /\ pend = [n \in Node |-> 0] /\ stray = {}
  /\ locked = {}
  /\ onGpu = [n \in Node |-> FALSE]
  /\ memPtr = [n \in Node |-> Null] /\ smPtr = [n \in Node |-> Null]
  /\ dockOf = [n \in Node |-> Null]
  /\ gpuSlotOf = [n \in Node |-> Null] /\ smSlotOf = [n \in Node |-> Null]
  /\ dockIn = [d \in Docks |-> EmptyDock]
  /\ smIn = [s \in SmSlots |-> EmptySm]
  /\ tensor = [r \in GpuSlots \cup Docks |-> Null]
  /\ pending = 0 /\ outputs = {} /\ fault = "none"

-----------------------------------------------------------------------------
(* The cache pools and the docks.                                          *)

ThresholdNormal  == Cardinality(GpuSlots) + Margin
ThresholdSmCache == ThresholdNormal + Cardinality(SmSlots) + Margin

\* Mutant: without a free slot an expert is not cached at all.
ProactiveDecisionNoFallback(countUp) ==
  IF planning /\ countUp < ThresholdNormal /\ FreeGpu = {}
  THEN IF FreeSm # {} THEN "SMCACHE" ELSE "EVICT"
  ELSE "NORMAL"

\* ProactiveDecision: countUp is the number of experts of the layer that have
\* been visited more often than this one.
ProactiveDecision(countUp) ==
  LET sm   == FreeSm # {}
      gpu  == FreeGpu # {}
      cold == countUp >= ThresholdNormal
  IN CASE ~planning                        -> "NORMAL"
       [] planning /\ ~cold /\ gpu         -> "NORMAL"
       [] planning /\ ~cold /\ ~gpu /\ sm  -> "SMCACHE"
       [] planning /\ ~cold /\ ~gpu /\ ~sm -> "NORMAL"
       [] planning /\ cold /\ sm           -> "SMCACHE"
       [] planning /\ cold /\ ~sm /\ gpu   -> "NORMAL"
       [] OTHER -> IF countUp < ThresholdSmCache THEN "SMCACHE" ELSE "EVICT"

\* Mutant: the victim's mutex is not tried.
UnprotectedAny(owner, n) == {owner[m] : m \in Node \ {n}} \ {Null}

\* A slot may be taken from a node whose mutex a try_lock can take.
Unprotected(owner, n) == {owner[m] : m \in Node \ (locked \cup {n})} \ {Null}

GpuSlotFor(n) ==
  IF gpuSlotOf[n] # Null THEN {gpuSlotOf[n]}
  ELSE IF FreeGpu # {} THEN FreeGpu ELSE Unprotected(gpuSlotOf, n)

\* Mutant: the SM cache policy is asked for a victim of the GPU pool.
SmSlotForWrongPool(n) ==
  IF smSlotOf[n] # Null THEN {smSlotOf[n]}
  ELSE IF FreeSm # {} THEN FreeSm ELSE Unprotected(gpuSlotOf, n)

SmSlotFor(n) ==
  IF smSlotOf[n] # Null THEN {smSlotOf[n]}
  ELSE IF FreeSm # {} THEN FreeSm ELSE Unprotected(smSlotOf, n)

DockFor(n) ==
  IF FreeDocks = {} THEN {}
  ELSE IF dockOf[n] # Null THEN {dockOf[n]} ELSE FreeDocks

\* Mutant: the victim keeps its entry in the table.
GrantKeepsVictim(owner, n, s) == [owner EXCEPT ![n] = s]

\* The owner table after slot s has been taken for n (from m, if m had it).
Grant(owner, n, s) ==
  [m \in Node |-> IF m = n THEN s ELSE IF owner[m] = s THEN Null ELSE owner[m]]

Victim(owner, n, s, m) == m # n /\ owner[m] = s

-----------------------------------------------------------------------------
(* The Python thread: ExpertExecutor.dispatch_local.                       *)

NextLayer == (layer + 1) % NumLayers

\* An exception out of a thread function, or DLOG_FATAL, ends the process.
Alive == fault = "none"

\* Mutant: the expected queue is the whole layer.
StartLayerExpectsAll(A) ==
  /\ Alive
  /\ pc = "idle" /\ todo = {}
  /\ pc' = "decide" /\ layer' = NextLayer
  /\ todo' = A /\ wanted' = A /\ pending' = NumExperts
  /\ UNCHANGED <<planning, decision, blockOpen, taskVars, nodeVars, ownerVars, dataVars,
                 outputs, fault>>

\* set_inputs and set_expected_queue for the experts the router activated.
StartLayer(A) ==
  /\ Alive
  /\ pc = "idle" /\ todo = {}
  /\ pc' = "decide" /\ layer' = NextLayer
  /\ todo' = A /\ wanted' = A /\ pending' = Cardinality(A)
  /\ UNCHANGED <<planning, decision, blockOpen, taskVars, nodeVars, ownerVars, dataVars,
                 outputs, fault>>

Current(e) == e \in todo /\ \A f \in todo : e <= f

\* EnqueueExpert, first half: the caching decision, made from the occupancy of
\* the pools at this moment.
EnqueueDecide(countUp) ==
  /\ Alive
  /\ pc = "decide"
  /\ pc' = "enqueue" /\ decision' = ProactiveDecision(countUp)
  /\ UNCHANGED <<planning, layer, todo, wanted, blockOpen, taskVars, nodeVars, ownerVars,
                 dataVars, doneVars, fault>>

Enqueued(e) ==
  /\ todo' = todo \ {e}
  /\ pc' = IF todo = {e} THEN "schedule" ELSE "decide"
  /\ decision' = "NORMAL"
  /\ UNCHANGED <<planning, layer, wanted, blockOpen>>

\* EnqueueExpert finds a prefetch of the same expert among the scheduled or
\* the ready tasks and turns it into the requested one.
EnqueueHit(e) ==
  LET n == <<layer, e>> IN
  /\ Alive
  /\ pc = "enqueue" /\ Current(e)
  /\ place[n] \in {"scheduled", "ready"}
  /\ task' = [task EXCEPT ![n].state = "NORMAL", ![n].hit = TRUE]
  /\ Enqueued(e)
  /\ UNCHANGED <<place, readyQ, ops, pend, stray, nodeVars, ownerVars, dataVars,
                 doneVars, fault>>

\* Mutants: the SM reads are never, or always, counted.
NumOpsWithoutSm(n) == Cardinality(ExpOps)
NumOpsWithSm(n)    == Cardinality(ExpOps) + Cardinality(SmOps)

\* num_pending_operations of a new task: the SM reads are left out when the
\* sign-mantissa part of the node is cached.
NumOps(n) == Cardinality(ExpOps)
             + (IF smPtr[n] # Null THEN 0 ELSE Cardinality(SmOps))

\* EnqueueExpert creates a task under the node mutex.  A node on the GPU is
\* ready at once, any other waits for the scheduler.
EnqueueNew(e) ==
  LET n == <<layer, e>> IN
  /\ Alive
  /\ pc = "enqueue" /\ Current(e)
  /\ place[n] \notin {"scheduled", "ready"}
  /\ n \notin locked
  /\ locked' = locked \cup {n}
  /\ pend' = [pend EXCEPT ![n] = NumOps(n)]
  /\ task' = [task EXCEPT ![n] = [NoTask EXCEPT !.hit = TRUE,
                 !.state = IF onGpu[n] THEN "NORMAL" ELSE decision]]
  /\ place' = [place EXCEPT ![n] = IF onGpu[n] THEN "ready" ELSE "new"]
  /\ readyQ' = IF onGpu[n] THEN Append(readyQ, n) ELSE readyQ
  /\ Enqueued(e)
  /\ UNCHANGED <<ops, stray, onGpu, memPtr, smPtr, ownerVars, dataVars,
                 doneVars, fault>>

-----------------------------------------------------------------------------
(* The TensorEngine: ZipMoESchedulerFunc, ToWorkers and the operations.    *)

\* The scheduled tasks that no request has claimed.
Stale == {n \in Node : place[n] = "scheduled" /\ ~task[n].hit}

\* Operations of the stale tasks that may already be past their stop check.
Running(n) == [node : {n}, dock : {task[n].exp}, op : ops[n] \cap ExpOps]
              \cup [node : {n}, dock : {task[n].sm} \cap Docks,
                    op : ops[n] \cap SmOps]

StrayExp(S) == {w \in S : w.op \in ExpOps}
StraySm(S)  == {w \in S : w.op \in SmOps}

\* unregister_memory: what the code knew of a stale task is forgotten.
Discarded(f, none) == [n \in Node |-> IF n \in Stale THEN none ELSE f[n]]

\* ops_schedule: the stale tasks are told to stop and lose their dock, their
\* GPU slot and their mutex, though an operation that is already running goes
\* on; the new tasks are split by whether their sign-mantissa part is cached.
OpsSchedule(S) ==
  /\ Alive
  /\ pc = "schedule"
  /\ S \subseteq stray \cup UNION {Running(n) : n \in Stale} /\ stray \subseteq S
  /\ Cardinality(StrayExp(S)) <= NumComputeWorkers
  /\ Cardinality(StraySm(S)) <= 1
  /\ pc' = "submit" /\ blockOpen' = FALSE
  /\ stray' = S
  /\ place' = [n \in Node |->
                 IF n \in Stale THEN "none"
                 ELSE IF place[n] = "new"
                      THEN IF smPtr[n] # Null THEN "typeII" ELSE "typeI"
                      ELSE place[n]]
  /\ task' = Discarded(task, NoTask)
  /\ ops'  = Discarded(ops, {})
  /\ pend' = Discarded(pend, 0)
  /\ locked' = locked \ Stale
  /\ dockOf' = Discarded(dockOf, Null)
  /\ gpuSlotOf' = Discarded(gpuSlotOf, Null)
  /\ onGpu'  = Discarded(onGpu, FALSE)
  /\ memPtr' = Discarded(memPtr, Null)
  /\ dockIn' = [d \in Docks |-> IF \E n \in Stale : dockOf[n] = d
                                THEN EmptyDock ELSE dockIn[d]]
  /\ UNCHANGED <<planning, layer, todo, wanted, decision, readyQ, smPtr, smSlotOf, smIn,
                 tensor, doneVars, fault>>

\* A cached node (state NORMAL, or a prefetch) is recovered into a GPU slot.
TakeGpuSlot(n, t, d) ==
  /\ t.state \in {"NORMAL", "PREFETCH"}
  /\ \E s \in GpuSlotFor(n) :
       /\ gpuSlotOf' = Grant(gpuSlotOf, n, s)
       /\ onGpu' = [m \in Node |-> ~Victim(gpuSlotOf, n, s, m) /\ onGpu[m]]
       /\ memPtr' = [m \in Node |->
                       IF Victim(gpuSlotOf, n, s, m) THEN Null ELSE memPtr[m]]
       /\ tensor' = [tensor EXCEPT ![s] = IF gpuSlotOf[n] = s THEN @ ELSE Null]
       /\ task' = [task EXCEPT ![n] =
            [t EXCEPT !.exp = d, !.tensor = s,
                      !.sm = IF smPtr[n] = Null THEN d ELSE smPtr[n]]]
  /\ UNCHANGED <<smSlotOf, smPtr, smIn>>

\* Of a node in state SMCACHE only the sign-mantissa part stays in memory.
TakeSmSlot(n, t, d) ==
  /\ t.state = "SMCACHE"
  /\ \E s \in SmSlotFor(n) :
       /\ smSlotOf' = Grant(smSlotOf, n, s)
       /\ smPtr' = [m \in Node |->
                      IF Victim(smSlotOf, n, s, m) THEN Null ELSE smPtr[m]]
       /\ smIn' = [smIn EXCEPT ![s] = IF smSlotOf[n] = s THEN @ ELSE EmptySm]
       /\ task' = [task EXCEPT ![n] =
            [t EXCEPT !.exp = d, !.tensor = d, !.sm = s]]
  /\ UNCHANGED <<gpuSlotOf, onGpu, memPtr, tensor>>

\* A node in state EVICT uses its dock alone.
TakeNoSlot(n, t, d) ==
  /\ t.state = "EVICT"
  /\ task' = [task EXCEPT ![n] =
       [t EXCEPT !.exp = d, !.tensor = d,
                 !.sm = IF smPtr[n] = Null THEN d ELSE smPtr[n]]]
  /\ UNCHANGED <<gpuSlotOf, onGpu, memPtr, tensor, smSlotOf, smPtr, smIn>>

\* ToWorkers for task t of node n: it takes a dock and, by the state of the
\* task, a GPU slot, an SM slot or neither, and submits the operations.
ToWorkers(n, t, p) ==
  /\ place' = [place EXCEPT ![n] = "scheduled"]
  /\ pend' = [pend EXCEPT ![n] = p]
  /\ ops' = [ops EXCEPT ![n] = ExpOps \cup (IF smPtr[n] = Null THEN SmOps ELSE {})]
  /\ \E d \in DockFor(n) :
       /\ dockOf' = [dockOf EXCEPT ![n] = d]
       /\ TakeGpuSlot(n, t, d) \/ TakeSmSlot(n, t, d) \/ TakeNoSlot(n, t, d)
  /\ UNCHANGED <<readyQ, stray, dockIn, doneVars, fault>>

\* RegisterDockForNode throws, or no cache policy finds a victim.
ToWorkersFails(n, state) ==
  \/ DockFor(n) = {} /\ fault' = "no dock"
  \/ /\ DockFor(n) # {} /\ state \in {"NORMAL", "PREFETCH"}
     /\ GpuSlotFor(n) = {} /\ fault' = "no victim"
  \/ /\ DockFor(n) # {} /\ state = "SMCACHE"
     /\ SmSlotFor(n) = {} /\ fault' = "no victim"

InType(t) == {n \in Node : place[n] = t}

\* The scheduler's loops: a block starts with a task that needs SM reads and
\* goes on with tasks that need none until the compute side is the bottleneck.
Eligible(n) ==
  /\ pc = "submit"
  /\ \/ n \in InType("typeI") /\ (~blockOpen \/ InType("typeII") = {})
     \/ n \in InType("typeII") /\ (blockOpen \/ InType("typeI") = {})

\* add_and_update weighs counts of operations with delays that were measured on
\* the machine, so it may end a block with any task.
BlockEnds == BOOLEAN

Submit(n, endBlock) ==
  /\ Alive
  /\ Eligible(n)
  /\ ToWorkers(n, task[n], pend[n])
  /\ blockOpen' = ~endBlock
  /\ UNCHANGED <<planning, pc, layer, todo, wanted, decision, locked>>

SubmitFails(n) ==
  /\ Alive
  /\ Eligible(n) /\ ToWorkersFails(n, task[n].state)
  /\ UNCHANGED <<mainVars, taskVars, nodeVars, ownerVars, dataVars, doneVars>>

SubmitDone ==
  /\ Alive
  /\ pc = "submit" /\ InType("typeI") = {} /\ InType("typeII") = {}
  /\ pc' = "wait" /\ blockOpen' = FALSE
  /\ UNCHANGED <<planning, layer, todo, wanted, decision, taskVars, nodeVars, ownerVars,
                 dataVars, doneVars, fault>>

\* Bytes of node n land in a plane of a dock, if anybody owns it.
LandInDock(d, o, n) ==
  IF d \in Owned(dockOf) THEN [dockIn EXCEPT ![d][o] = n] ELSE dockIn

\* A worker of the pool, or the IO thread, is not busy with a stray operation.
WorkerFree(o) ==
  IF o \in SmOps THEN StraySm(stray) = {}
  ELSE Cardinality(StrayExp(stray)) < NumComputeWorkers

\* An operation reads its part of node n and counts itself done; the last one
\* moves the task from the scheduled to the ready queue, if it is still there.
OpDone(n, o) ==
  LET region == IF o \in ExpOps THEN task[n].exp ELSE task[n].sm
      last   == pend[n] = 1 /\ place[n] = "scheduled"
  IN
  /\ Alive
  /\ o \in ops[n] /\ WorkerFree(o)
  /\ ops' = [ops EXCEPT ![n] = @ \ {o}]
  /\ pend' = [pend EXCEPT ![n] = @ - 1]
  /\ IF region \in Docks
     THEN dockIn' = LandInDock(region, o, n) /\ smIn' = smIn
     ELSE smIn' = [smIn EXCEPT ![region][o] = n] /\ dockIn' = dockIn
  /\ place' = IF last THEN [place EXCEPT ![n] = "ready"] ELSE place
  /\ readyQ' = IF last THEN Append(readyQ, n) ELSE readyQ
  /\ UNCHANGED <<mainVars, task, stray, nodeVars, ownerVars, tensor, doneVars,
                 fault>>

\* An operation of a discarded task ends, and finds nothing to notify.
StrayDone(w) ==
  /\ Alive
  /\ w \in stray
  /\ stray' = stray \ {w}
  /\ dockIn' = LandInDock(w.dock, w.op, w.node)
  /\ UNCHANGED <<mainVars, place, readyQ, task, ops, pend, nodeVars, ownerVars,
                 smIn, tensor, doneVars, fault>>

-----------------------------------------------------------------------------
(* The fetch, exec and output threads of the dispatcher.                   *)

\* What the recovery kernel builds from the planes the task points to.
Recovered(n) ==
  LET t == task[n]
      sm == IF t.sm \in Docks THEN dockIn[t.sm] ELSE smIn[t.sm]
  IN IF /\ \A o \in ExpOps : dockIn[t.exp][o] = n
        /\ \A o \in SmOps : sm[o] = n
     THEN n ELSE Garbled

\* Node::SetDevice(cuda): nothing when the node is on the GPU already.
Recovers(n) == ~onGpu[n] /\ memPtr[n] = Null

\* GPUFetchFunc takes the oldest ready task, recovers its tensors, and moves
\* on: a node that now has its tensors needs no SM slot, and a prefetch gives
\* back its dock and its mutex.
Fetch(n) ==
  LET t == task[n]
      sm == IF t.state = "SMCACHE" THEN t.sm ELSE smPtr[n]
      dropsSm == sm # Null /\ t.state \in {"NORMAL", "PREFETCH"}
      done == t.state = "PREFETCH"
  IN
  /\ Alive
  /\ readyQ # <<>> /\ n = Head(readyQ)
  /\ readyQ' = Tail(readyQ)
  /\ onGpu' = [onGpu EXCEPT ![n] = TRUE]
  /\ memPtr' = IF Recovers(n) THEN [memPtr EXCEPT ![n] = t.tensor] ELSE memPtr
  /\ tensor' = IF Recovers(n) THEN [tensor EXCEPT ![t.tensor] = Recovered(n)]
               ELSE tensor
  /\ smPtr' = [smPtr EXCEPT ![n] = IF dropsSm THEN Null ELSE sm]
  /\ smSlotOf' = IF dropsSm THEN [smSlotOf EXCEPT ![n] = Null] ELSE smSlotOf
  /\ smIn' = IF dropsSm /\ smSlotOf[n] # Null
             THEN [smIn EXCEPT ![smSlotOf[n]] = EmptySm] ELSE smIn
  /\ fault' = IF dropsSm /\ smSlotOf[n] = Null THEN "bad slot" ELSE fault
  /\ place' = [place EXCEPT ![n] = IF done THEN "none" ELSE "exec"]
  /\ IF done
     THEN /\ dockOf' = [dockOf EXCEPT ![n] = Null]
          /\ dockIn' = IF dockOf[n] = Null THEN dockIn
                       ELSE [dockIn EXCEPT ![dockOf[n]] = EmptyDock]
          /\ locked' = locked \ {n}
          /\ task' = [task EXCEPT ![n] = NoTask]
     ELSE UNCHANGED <<dockOf, dockIn, locked, task>>
  /\ UNCHANGED <<mainVars, ops, pend, stray, gpuSlotOf, doneVars>>

\* GPUExecFunc runs the expert on the tensors its node points to.
Exec(n) ==
  /\ Alive
  /\ place[n] = "exec"
  /\ place' = [place EXCEPT ![n] = "output"]
  /\ UNCHANGED <<mainVars, readyQ, task, ops, pend, stray, nodeVars, ownerVars,
                 dataVars, doneVars, fault>>

OutputBusy == \E m \in Node : place[m] \in {"released", "pushed"}

\* Mutant: the dock is not given back.
DockKept(n) == UNCHANGED <<dockOf, dockIn, tensor>>

\* UnregisterDockForNode at the end of a request.
DockReleased(n) ==
  LET d == dockOf[n] IN
  /\ dockOf' = [dockOf EXCEPT ![n] = Null]
  /\ dockIn' = IF d = Null THEN dockIn ELSE [dockIn EXCEPT ![d] = EmptyDock]
  /\ tensor' = IF d = Null THEN tensor ELSE [tensor EXCEPT ![d] = Null]

\* Mutant: a node of state SMCACHE keeps its device.
OutputReleaseOnGpu(n) ==
  /\ Alive
  /\ place[n] = "output" /\ ~OutputBusy /\ task[n].state # "EVICT"
  /\ place' = [place EXCEPT ![n] = "released"]
  /\ DockReleased(n)
  /\ locked' = locked \ {n}
  /\ task' = [task EXCEPT ![n] = NoTask]
  /\ UNCHANGED <<mainVars, readyQ, ops, pend, stray, onGpu, memPtr, smPtr,
                 gpuSlotOf, smSlotOf, smIn, doneVars, fault>>

\* OutputFunc, post-processing: a node cached as sign-mantissa only leaves the
\* GPU; the dock and the mutex are given back.
OutputRelease(n) ==
  LET t == task[n] IN
  /\ Alive
  /\ place[n] = "output" /\ ~OutputBusy /\ t.state # "EVICT"
  /\ place' = [place EXCEPT ![n] = "released"]
  /\ onGpu' = [onGpu EXCEPT ![n] = @ /\ t.state # "SMCACHE"]
  /\ memPtr' = [memPtr EXCEPT ![n] = IF t.state = "SMCACHE" THEN Null ELSE @]
  /\ DockReleased(n)
  /\ locked' = locked \ {n}
  /\ task' = [task EXCEPT ![n] = NoTask]
  /\ UNCHANGED <<mainVars, readyQ, ops, pend, stray, smPtr, gpuSlotOf, smSlotOf,
                 smIn, doneVars, fault>>

\* OutputFunc for an EVICT task: the node has no GPU slot, and evicting the
\* slot SIZE_MAX is fatal.
OutputEvictFails(n) ==
  /\ Alive
  /\ place[n] = "output" /\ ~OutputBusy /\ task[n].state = "EVICT"
  /\ gpuSlotOf[n] = Null
  /\ fault' = "bad slot"
  /\ UNCHANGED <<mainVars, taskVars, nodeVars, ownerVars, dataVars, doneVars>>

\* OutputFunc appends the result, and only then counts it.
OutputPush(n) ==
  /\ Alive
  /\ place[n] = "released"
  /\ place' = [place EXCEPT ![n] = "pushed"]
  /\ outputs' = outputs \cup {n}
  /\ UNCHANGED <<mainVars, readyQ, task, ops, pend, stray, nodeVars, ownerVars,
                 dataVars, pending, fault>>

OutputSignal(n) ==
  /\ Alive
  /\ place[n] = "pushed"
  /\ place' = [place EXCEPT ![n] = "none"]
  /\ pending' = pending - 1
  /\ UNCHANGED <<mainVars, readyQ, task, ops, pend, stray, nodeVars, ownerVars,
                 dataVars, outputs, fault>>

\* Mutant: the wait ends with one result still missing.
WaitReturnEarly(P) ==
  /\ Alive
  /\ pc = "wait" /\ pending <= 1
  /\ Cardinality(P) <= PrefetchTopK
  /\ pc' = "idle" /\ todo' = P
  /\ outputs' = {} /\ wanted' = {}
  /\ UNCHANGED <<planning, layer, decision, blockOpen, taskVars, nodeVars, ownerVars,
                 dataVars, pending, fault>>

\* wait_expert returns the outputs; P is what the predictor asks to prefetch.
\* (Module PendingBarrier models how the waiting thread is woken.)
WaitReturn(P) ==
  /\ Alive
  /\ pc = "wait" /\ pending = 0
  /\ Cardinality(P) <= PrefetchTopK
  /\ pc' = "idle" /\ todo' = P
  /\ outputs' = {} /\ wanted' = {}
  /\ UNCHANGED <<planning, layer, decision, blockOpen, taskVars, nodeVars, ownerVars,
                 dataVars, pending, fault>>

-----------------------------------------------------------------------------
(* SubmitPrefetch for an expert of the next layer.                         *)

PrefetchTask == [NoTask EXCEPT !.state = "PREFETCH"]

Prefetches(e) ==
  /\ pc = "idle" /\ e \in todo /\ <<NextLayer, e>> \notin locked
  /\ todo' = todo \ {e}
  /\ locked' = locked \cup {<<NextLayer, e>>}
  /\ UNCHANGED <<planning, pc, layer, wanted, decision, blockOpen>>

SubmitPrefetchReady(e) ==
  LET n == <<NextLayer, e>> IN
  /\ Alive
  /\ Prefetches(e) /\ onGpu[n]
  /\ pend' = [pend EXCEPT ![n] = NumOps(n)]
  /\ task' = [task EXCEPT ![n] = PrefetchTask]
  /\ place' = [place EXCEPT ![n] = "ready"]
  /\ readyQ' = Append(readyQ, n)
  /\ UNCHANGED <<ops, stray, onGpu, memPtr, smPtr, ownerVars, dataVars, doneVars,
                 fault>>

SubmitPrefetchFetch(e) ==
  LET n == <<NextLayer, e>> IN
  /\ Alive
  /\ Prefetches(e) /\ ~onGpu[n]
  /\ ToWorkers(n, PrefetchTask, NumOps(n))

SubmitPrefetchFails(e) ==
  LET n == <<NextLayer, e>> IN
  /\ Alive
  /\ Prefetches(e) /\ ~onGpu[n]
  /\ ToWorkersFails(n, "PREFETCH")
  /\ UNCHANGED <<taskVars, onGpu, memPtr, smPtr, ownerVars, dataVars, doneVars>>

-----------------------------------------------------------------------------
Main ==
  \/ \E e \in Experts : \/ EnqueueHit(e) \/ EnqueueNew(e)
  \/ \E c \in 0 .. NumExperts - 1 : EnqueueDecide(c)
  \/ \E S \in SUBSET (stray \cup UNION {Running(n) : n \in Stale}) : OpsSchedule(S)
  \/ \E n \in Node : SubmitFails(n) \/ \E b \in BlockEnds : Submit(n, b)
  \/ SubmitDone

Prefetch ==
  \E e \in Experts : \/ SubmitPrefetchReady(e)
                     \/ SubmitPrefetchFetch(e)
                     \/ SubmitPrefetchFails(e)

Workers ==
  \/ \E n \in Node, o \in Ops : OpDone(n, o)
  \/ \E w \in stray : StrayDone(w)

FetchThread  == \E n \in Node : Fetch(n)
ExecThread   == \E n \in Node : Exec(n)
OutputThread == \E n \in Node : \/ OutputRelease(n) \/ OutputEvictFails(n)
                                \/ OutputPush(n) \/ OutputSignal(n)

Next ==
  \/ \E A \in (SUBSET Experts) \ {{}} : StartLayer(A)
  \/ \E P \in SUBSET Experts : WaitReturn(P)
  \/ Main \/ Prefetch \/ Workers
  \/ FetchThread \/ ExecThread \/ OutputThread

Spec == Init /\ [][Next]_vars

\* Every thread keeps running.  Nothing is assumed of the router, nor of the
\* return from wait_expert.
FairSpec ==
  /\ Spec
  /\ WF_vars(Main) /\ WF_vars(Prefetch) /\ WF_vars(Workers)
  /\ WF_vars(FetchThread) /\ WF_vars(ExecThread) /\ WF_vars(OutputThread)

-----------------------------------------------------------------------------
(* Properties.                                                             *)

\* Every variable keeps its type.
MainType ==
  /\ planning \in BOOLEAN
  /\ pc \in {"idle", "decide", "enqueue", "schedule", "submit", "wait"}
  /\ layer \in Layers /\ todo \subseteq Experts /\ wanted \subseteq Experts
  /\ decision \in TaskState /\ blockOpen \in BOOLEAN
  /\ pending \in Int /\ outputs \subseteq Node
  /\ fault \in {"none", "no dock", "no victim", "bad slot"}

TaskType ==
  /\ place \in [Node -> Place] /\ readyQ \in Seq(Node)
  /\ task \in [Node -> Task]
  /\ ops \in [Node -> SUBSET Ops] /\ pend \in [Node -> Int]
  /\ stray \subseteq [node : Node, dock : Docks, op : Ops]

NodeType ==
  /\ locked \subseteq Node /\ onGpu \in [Node -> BOOLEAN]
  /\ memPtr \in [Node -> Docks \cup GpuSlots \cup {Null}]
  /\ smPtr \in [Node -> SmSlots \cup {Null}]

OwnerType ==
  /\ dockOf \in [Node -> Docks \cup {Null}]
  /\ gpuSlotOf \in [Node -> GpuSlots \cup {Null}]
  /\ smSlotOf \in [Node -> SmSlots \cup {Null}]

DataType ==
  /\ dockIn \in [Docks -> [Ops -> Node \cup {Null}]]
  /\ smIn \in [SmSlots -> [SmOps -> Node \cup {Null}]]
  /\ tensor \in [GpuSlots \cup Docks -> Node \cup {Null, Garbled}]

TypeOK == MainType /\ TaskType /\ NodeType /\ OwnerType /\ DataType

\* Serving never aborts and never throws: there is always a dock, a victim
\* that nobody is using, and a slot to give back (RegisterDockForNode,
\* select_victim_slot and the evict of both pools).
NeverFaults == fault = "none"

\* No task is ever asked to run its expert and then throw it away: OutputFunc
\* could not do it (the cold branch of ProactiveDecision is dead code when the
\* GPU pool has a slot for every expert of a layer).
NeverEvicts == \A n \in Node : task[n].state # "EVICT"

\* One region has one owner: two nodes never share a dock or a slot, however
\* registrations, evictions and releases of the four threads interleave.
Exclusive(owner) ==
  \A m, n \in Node : owner[m] = owner[n] /\ owner[m] # Null => m = n
OneOwner == Exclusive(dockOf) /\ Exclusive(gpuSlotOf) /\ Exclusive(smSlotOf)

\* The pointers a task received in ToWorkers stay good: from submission until
\* fetch the task's node owns the dock its exponents are read into; its
\* sign-mantissa bytes are in the node's SM slot and its tensors in its GPU slot,
\* if it has one, else in that dock.
InFlightOwnsRegions ==
  \A n \in Node : place[n] \in {"scheduled", "ready"} /\ ~onGpu[n] =>
     /\ task[n].exp = dockOf[n] /\ dockOf[n] # Null
     /\ task[n].sm = IF smSlotOf[n] = Null THEN dockOf[n] ELSE smSlotOf[n]
     /\ task[n].tensor = IF gpuSlotOf[n] = Null THEN dockOf[n] ELSE gpuSlotOf[n]

\* What the caches say of an idle node is true of the node: a GPU slot if and
\* only if it is on the GPU and points to that slot, an SM slot if and only if
\* its SM pointer is that slot, never both, and no dock.  (The assertion of
\* EnqueueExpert that a node on the GPU has no SM pointer is one case.)
IdleCoherent ==
  \A n \in Node \ locked :
     /\ onGpu[n] <=> gpuSlotOf[n] # Null
     /\ memPtr[n] = gpuSlotOf[n] /\ smPtr[n] = smSlotOf[n]
     /\ gpuSlotOf[n] = Null \/ smSlotOf[n] = Null
     /\ dockOf[n] = Null

\* What a cache hit relies on: the tensor a node on the GPU points to was
\* recovered from its own bytes, and so were all planes of its SM slot.  In
\* particular every forward pass runs on the weights of its own expert.
CachedWeightsAreOwn ==
  \A n \in Node :
     /\ onGpu[n] => memPtr[n] # Null /\ tensor[memPtr[n]] = n
     /\ smPtr[n] # Null => \A o \in SmOps : smIn[smPtr[n]][o] = n

\* The operation count fixed by EnqueueExpert, before the scheduler looked at
\* the node again, is the number of operations ToWorkers submitted that have
\* not ended; a scheduled task has at least one left, or nobody would ever
\* move it to the ready queue.
CountMatchesOps ==
  \A n \in Node : place[n] = "scheduled" =>
     ops[n] # {} /\ pend[n] = Cardinality(ops[n])

\* The task of a request: still to be created, or somewhere in the pipeline.
Unanswered ==
  todo \cup {e \in Experts : LET n == <<layer, e>> IN
                \/ place[n] \in {"released", "pushed"}
                \/ place[n] # "none" /\ task[n].hit}

\* pending_, which SetExpectedQueue sets from the router and the output thread
\* counts down, is at every moment of the call the number of requested experts
\* whose result is not counted yet.
PendingCountsUnanswered ==
  pc # "idle" => pending = Cardinality(Unanswered) /\ Unanswered \subseteq wanted

\* While the mutex of a node is held nobody takes its slots away: a GPU slot
\* stays with it, and an SM slot until the fetch thread gives it back itself.
KeepsSlots ==
  \A n \in locked \cap locked' :
     /\ gpuSlotOf[n] # Null => gpuSlotOf'[n] = gpuSlotOf[n]
     /\ smSlotOf[n] # Null => \/ smSlotOf'[n] = smSlotOf[n]
                              \/ place[n] = "ready" /\ onGpu'[n]
HeldNodeKeepsSlots == [][KeepsSlots]_vars

\* Every layer call comes to the point where wait_expert may return: no thread
\* waits for another for ever, and no task is lost between the queues.
LayerCompletes == pc = "decide" ~> pc = "wait" /\ pending = 0

Service == INSTANCE ExpertService WITH
  busy <- pc # "idle", served <- {n[2] : n \in outputs}, expected <- pending

\* The pipeline keeps the promise of ExpertService: wait_expert returns one
\* output of every requested expert and of nothing else.
ServesEachOnce == Service!ServiceSpec
=============================================================================
