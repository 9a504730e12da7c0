------------------------- MODULE ExpertRegionProofs -------------------------
(***************************************************************************)
(* Which regions a node and its task own at each point of the pipeline:    *)
(* pointers in flight are good, idle nodes and the pools agree, and the    *)
(* count of a task is that of its operations.  From there, for a pipeline  *)
(* without prefetch, that nothing fails and whose weights an expert uses.  *)
(***************************************************************************)
EXTENDS ExpertPipelineProofs

-----------------------------------------------------------------------------
(* The regions of a node follow its place in the pipeline.                 *)

\* Nobody works on the node, or its task has no regions yet.
Settled(n) ==
  /\ onGpu[n] <=> gpuSlotOf[n] # Null
  /\ memPtr[n] = gpuSlotOf[n] /\ smPtr[n] = smSlotOf[n]
  /\ gpuSlotOf[n] = Null \/ smSlotOf[n] = Null
  /\ dockOf[n] = Null

\* From ToWorkers to the recovery.
Loading(n) ==
  /\ ~onGpu[n] /\ memPtr[n] = Null
  /\ task[n].exp = dockOf[n] /\ dockOf[n] # Null
  /\ task[n].state = "SMCACHE" =>
       /\ task[n].sm = smSlotOf[n] /\ smSlotOf[n] # Null
       /\ smPtr[n] \in {Null, smSlotOf[n]}
  /\ task[n].state # "SMCACHE" =>
       /\ smPtr[n] = smSlotOf[n]
       /\ task[n].sm = IF smSlotOf[n] = Null THEN dockOf[n] ELSE smSlotOf[n]
  /\ task[n].state \in {"NORMAL", "PREFETCH"} =>
       task[n].tensor = gpuSlotOf[n] /\ gpuSlotOf[n] # Null
  /\ task[n].state \in {"SMCACHE", "EVICT"} =>
       task[n].tensor = dockOf[n] /\ gpuSlotOf[n] = Null

\* A task for a node that is on the GPU.
Cached(n) == onGpu[n] /\ Settled(n) /\ task[n].state \in {"NORMAL", "PREFETCH"}

\* From the recovery to the end of the output.
InUse(n) ==
  /\ onGpu[n]
  /\ task[n].state = "NORMAL" =>
       /\ memPtr[n] = gpuSlotOf[n] /\ gpuSlotOf[n] # Null
       /\ smPtr[n] = Null /\ smSlotOf[n] = Null
  /\ task[n].state = "SMCACHE" => gpuSlotOf[n] = Null /\ smPtr[n] = smSlotOf[n]

InPlace(n) ==
  /\ place[n] \notin {"scheduled", "ready", "exec", "output"} => Settled(n)
  /\ place[n] \in {"new", "typeI", "typeII"} => ~onGpu[n]
  /\ place[n] = "scheduled" => Loading(n)
  /\ place[n] = "ready" => Loading(n) \/ Cached(n)
  /\ place[n] \in {"exec", "output"} => InUse(n)

RegionInv == \A n \in Node : InPlace(n)

\* A step that does not concern the node.
Still(n) ==
  /\ place'[n] = place[n] /\ task'[n] = task[n]
  /\ onGpu'[n] = onGpu[n] /\ memPtr'[n] = memPtr[n] /\ smPtr'[n] = smPtr[n]
  /\ dockOf'[n] = dockOf[n] /\ gpuSlotOf'[n] = gpuSlotOf[n] /\ smSlotOf'[n] = smSlotOf[n]

LEMMA StillInPlace ==
  ASSUME NEW n \in Node, InPlace(n), Still(n)
  PROVE  InPlace(n)'
  BY DEF Still, InPlace, Settled, Loading, Cached, InUse

\* What ToWorkers does to the other nodes: nothing, or it takes one slot from a
\* node that nobody holds, and the node is told.
LEMMA ToWorkersOthers ==
  ASSUME TypeInv, OneOwner, NEW n \in Node, NEW t, NEW p, ToWorkers(n, t, p),
         NEW m \in Node \ {n}
  PROVE  /\ place'[m] = place[m] /\ task'[m] = task[m] /\ dockOf'[m] = dockOf[m]
         /\ \/ Still(m)
            \/ /\ m \notin locked
               /\ gpuSlotOf'[m] = Null /\ onGpu'[m] = FALSE /\ memPtr'[m] = Null
               /\ smPtr'[m] = smPtr[m] /\ smSlotOf'[m] = smSlotOf[m]
            \/ /\ m \notin locked
               /\ smSlotOf'[m] = Null /\ smPtr'[m] = Null
               /\ onGpu'[m] = onGpu[m] /\ memPtr'[m] = memPtr[m] /\ gpuSlotOf'[m] = gpuSlotOf[m]
  <1> USE DEF TypeInv, TypeOK, TaskType, NodeType, OwnerType
  <1>1. PICK d \in DockFor(n) :
          /\ dockOf' = [dockOf EXCEPT ![n] = d]
          /\ TakeGpuSlot(n, t, d) \/ TakeSmSlot(n, t, d) \/ TakeNoSlot(n, t, d)
    BY DEF ToWorkers
  <1>2. place'[m] = place[m] /\ dockOf'[m] = dockOf[m]
    BY <1>1 DEF ToWorkers
  <1>3. task'[m] = task[m]
    BY <1>1 DEF TakeGpuSlot, TakeSmSlot, TakeNoSlot
  <1>4. Null \notin GpuSlots /\ Null \notin SmSlots
    BY PipelineAssumption DEF PipelineAssumption
  <1>5. m \in locked => /\ gpuSlotOf[m] # Null => gpuSlotOf'[m] = gpuSlotOf[m]
                        /\ smSlotOf[m] # Null => smSlotOf'[m] = smSlotOf[m]
    BY ToWorkersSparesHeld
  <1>6. CASE TakeGpuSlot(n, t, d)
    <2>1. PICK s \in GpuSlots :
            /\ gpuSlotOf' = Grant(gpuSlotOf, n, s)
            /\ onGpu' = [k \in Node |-> ~Victim(gpuSlotOf, n, s, k) /\ onGpu[k]]
            /\ memPtr' = [k \in Node |->
                            IF Victim(gpuSlotOf, n, s, k) THEN Null ELSE memPtr[k]]
      BY <1>6, SlotsInPool DEF TakeGpuSlot
    <2>2. UNCHANGED <<smSlotOf, smPtr>>
      BY <1>6 DEF TakeGpuSlot
    <2>3. CASE gpuSlotOf[m] = s
      <3>1. gpuSlotOf'[m] = Null /\ onGpu'[m] = FALSE /\ memPtr'[m] = Null
        BY <2>1, <2>3 DEF Grant, Victim
      <3> QED BY <1>2, <1>3, <1>4, <1>5, <2>2, <2>3, <3>1
    <2>4. CASE gpuSlotOf[m] # s
      <3>1. gpuSlotOf'[m] = gpuSlotOf[m] /\ onGpu'[m] = onGpu[m] /\ memPtr'[m] = memPtr[m]
        BY <2>1, <2>4 DEF Grant, Victim
      <3> QED BY <1>2, <1>3, <2>2, <3>1 DEF Still
    <2> QED BY <2>3, <2>4
  <1>7. CASE TakeSmSlot(n, t, d)
    <2>1. PICK s \in SmSlots :
            /\ smSlotOf' = Grant(smSlotOf, n, s)
            /\ smPtr' = [k \in Node |->
                           IF Victim(smSlotOf, n, s, k) THEN Null ELSE smPtr[k]]
      BY <1>7, SlotsInPool DEF TakeSmSlot
    <2>2. UNCHANGED <<gpuSlotOf, onGpu, memPtr>>
      BY <1>7 DEF TakeSmSlot
    <2>3. CASE smSlotOf[m] = s
      <3>1. smSlotOf'[m] = Null /\ smPtr'[m] = Null
        BY <2>1, <2>3 DEF Grant, Victim
      <3> QED BY <1>2, <1>3, <1>4, <1>5, <2>2, <2>3, <3>1
    <2>4. CASE smSlotOf[m] # s
      <3>1. smSlotOf'[m] = smSlotOf[m] /\ smPtr'[m] = smPtr[m]
        BY <2>1, <2>4 DEF Grant, Victim
      <3> QED BY <1>2, <1>3, <2>2, <3>1 DEF Still
    <2> QED BY <2>3, <2>4
  <1>8. CASE TakeNoSlot(n, t, d)
    BY <1>2, <1>3, <1>8 DEF TakeNoSlot, Still
  <1> QED BY <1>1, <1>6, <1>7, <1>8

\* What it gives its own node.
LEMMA ToWorkersLoads ==
  ASSUME TypeInv, NEW n \in Node, NEW t \in Task, NEW p, ToWorkers(n, t, p),
         Settled(n), ~onGpu[n]
  PROVE  place'[n] = "scheduled" /\ Loading(n)'
  <1> USE DEF TypeInv, TypeOK, TaskType, NodeType, OwnerType
  <1>1. PICK d \in DockFor(n) :
          /\ dockOf' = [dockOf EXCEPT ![n] = d]
          /\ TakeGpuSlot(n, t, d) \/ TakeSmSlot(n, t, d) \/ TakeNoSlot(n, t, d)
    BY DEF ToWorkers
  <1>2. /\ d \in Docks /\ d # Null /\ dockOf'[n] = d /\ place'[n] = "scheduled"
        /\ Null \notin GpuSlots /\ Null \notin SmSlots
    BY <1>1, SlotsInPool, PipelineAssumption DEF ToWorkers, PipelineAssumption
  <1>3. /\ gpuSlotOf[n] = Null /\ memPtr[n] = Null /\ smPtr[n] = smSlotOf[n]
    BY DEF Settled
  <1>4. CASE TakeGpuSlot(n, t, d)
    <2>1. PICK s \in GpuSlots :
            /\ gpuSlotOf' = Grant(gpuSlotOf, n, s)
            /\ onGpu' = [k \in Node |-> ~Victim(gpuSlotOf, n, s, k) /\ onGpu[k]]
            /\ memPtr' = [k \in Node |->
                            IF Victim(gpuSlotOf, n, s, k) THEN Null ELSE memPtr[k]]
            /\ task' = [task EXCEPT ![n] =
                 [t EXCEPT !.exp = d, !.tensor = s,
                           !.sm = IF smPtr[n] = Null THEN d ELSE smPtr[n]]]
      BY <1>4, SlotsInPool DEF TakeGpuSlot
    <2>2. UNCHANGED <<smSlotOf, smPtr>> /\ t.state \in {"NORMAL", "PREFETCH"}
      BY <1>4 DEF TakeGpuSlot
    <2>3. gpuSlotOf'[n] = s /\ ~onGpu'[n] /\ memPtr'[n] = Null
      BY <1>3, <2>1 DEF Grant, Victim
    <2>4. /\ task'[n].exp = d /\ task'[n].tensor = s /\ task'[n].state = t.state
          /\ task'[n].sm = IF smPtr[n] = Null THEN d ELSE smPtr[n]
      BY <2>1 DEF Task
    <2> QED BY <1>2, <1>3, <2>1, <2>2, <2>3, <2>4 DEF Loading
  <1>5. CASE TakeSmSlot(n, t, d)
    <2>1. PICK s \in SmSlotFor(n) :
            /\ smSlotOf' = Grant(smSlotOf, n, s)
            /\ smPtr' = [k \in Node |->
                           IF Victim(smSlotOf, n, s, k) THEN Null ELSE smPtr[k]]
            /\ task' = [task EXCEPT ![n] =
                 [t EXCEPT !.exp = d, !.tensor = d, !.sm = s]]
      BY <1>5 DEF TakeSmSlot
    <2>2. UNCHANGED <<gpuSlotOf, onGpu, memPtr>> /\ t.state = "SMCACHE" /\ s \in SmSlots
      BY <1>5, SlotsInPool DEF TakeSmSlot
    <2>3. smSlotOf'[n] = s /\ smPtr'[n] = smPtr[n]
      BY <2>1 DEF Grant, Victim
    <2>4. smPtr[n] \in {Null, s}
      BY <1>3, <2>1 DEF SmSlotFor
    <2>5. /\ task'[n].exp = d /\ task'[n].tensor = d /\ task'[n].state = t.state
          /\ task'[n].sm = s
      BY <2>1 DEF Task
    <2> QED BY <1>2, <1>3, <2>2, <2>3, <2>4, <2>5 DEF Loading
  <1>6. CASE TakeNoSlot(n, t, d)
    <2>1. UNCHANGED <<gpuSlotOf, onGpu, memPtr, smSlotOf, smPtr>> /\ t.state = "EVICT"
      BY <1>6 DEF TakeNoSlot
    <2>2. /\ task'[n].exp = d /\ task'[n].tensor = d /\ task'[n].state = t.state
          /\ task'[n].sm = IF smPtr[n] = Null THEN d ELSE smPtr[n]
      BY <1>6 DEF TakeNoSlot, Task
    <2> QED BY <1>2, <1>3, <2>1, <2>2 DEF Loading
  <1> QED BY <1>1, <1>2, <1>4, <1>5, <1>6

\* The steps that end in ToWorkers, for a node without regions in flight.
LEMMA ToWorkersInPlace ==
  ASSUME QueueInv, OneOwner, \A m \in Node : InPlace(m),
         NEW n \in Node, NEW t \in Task, NEW p, ToWorkers(n, t, p),
         Settled(n), ~onGpu[n], NEW m \in Node
  PROVE  InPlace(m)'
  <1>0. TypeInv /\ LockInv
    BY DEF QueueInv
  <1>1. CASE m = n
    BY <1>0, <1>1, ToWorkersLoads DEF InPlace
  <1>2. CASE m # n
    <2>1. /\ place'[m] = place[m] /\ task'[m] = task[m] /\ dockOf'[m] = dockOf[m]
          /\ \/ Still(m)
             \/ /\ m \notin locked
                /\ gpuSlotOf'[m] = Null /\ onGpu'[m] = FALSE /\ memPtr'[m] = Null
                /\ smPtr'[m] = smPtr[m] /\ smSlotOf'[m] = smSlotOf[m]
             \/ /\ m \notin locked
                /\ smSlotOf'[m] = Null /\ smPtr'[m] = Null
                /\ onGpu'[m] = onGpu[m] /\ memPtr'[m] = memPtr[m]
                /\ gpuSlotOf'[m] = gpuSlotOf[m]
      BY <1>0, <1>2, ToWorkersOthers
    <2>2. CASE Still(m)
      BY <2>2, StillInPlace
    <2>3. CASE m \notin locked /\ ~Still(m)
      <3>1. place[m] \notin Active /\ Settled(m)
        BY <1>0, <2>3 DEF LockInv, InPlace, Active
      <3>2. Settled(m)' /\ place'[m] \notin Active
        BY <2>1, <2>3, <3>1 DEF Settled
      <3> QED BY <3>2 DEF InPlace, Active
    <2> QED BY <2>1, <2>2, <2>3
  <1> QED BY <1>1, <1>2

\* The request of the current layer creates its task, or takes over a prefetch.
LEMMA EnqueueInPlace ==
  ASSUME RequestInv, \A m \in Node : InPlace(m),
         NEW e \in Experts, EnqueueHit(e) \/ EnqueueNew(e), NEW m \in Node
  PROVE  InPlace(m)'
  <1>0. TypeInv /\ TaskType /\ MainType /\ LockInv /\ AskedInv /\ NodeType
    BY DEF RequestInv, QueueInv, TypeInv, TypeOK
  <1>1. PICK n \in Node : n = <<layer, e>> /\ n[1] = layer /\ n[2] = e
    BY <1>0, LayerNode
  <1>2. CASE m # n
    <2>1. Still(m)
      <3>1. CASE EnqueueHit(e)
        BY <1>0, <1>1, <1>2, <3>1 DEF EnqueueHit, Still, nodeVars, ownerVars, TaskType
      <3>2. CASE EnqueueNew(e)
        BY <1>0, <1>1, <1>2, <3>2 DEF EnqueueNew, Still, ownerVars, TaskType
      <3> QED BY <3>1, <3>2
    <2> QED BY <2>1, StillInPlace
  <1>3. CASE m = n /\ EnqueueHit(e)
    <2>1. /\ pc = "enqueue" /\ e \in todo /\ place[n] \in {"scheduled", "ready"}
          /\ task' = [task EXCEPT ![n].state = "NORMAL", ![n].hit = TRUE]
          /\ UNCHANGED <<place, onGpu, memPtr, smPtr, dockOf, gpuSlotOf, smSlotOf>>
      BY <1>1, <1>3 DEF EnqueueHit, Current, nodeVars, ownerVars
    <2>2. ~task[n].hit
      BY <1>0, <1>1, <2>1 DEF AskedInv, Asked
    <2>3. task[n].state = "PREFETCH"
      BY <1>0, <2>1, <2>2 DEF AskedInv, Active
    <2>4. /\ task'[n].state = "NORMAL" /\ task'[n].exp = task[n].exp
          /\ task'[n].sm = task[n].sm /\ task'[n].tensor = task[n].tensor
      <3>1. task[n] \in Task /\ task \in [Node -> Task]
        BY <1>0 DEF TaskType
      <3> QED BY <2>1, <3>1 DEF Task
    <2>5. place[n] = "scheduled" => Loading(n)
      BY DEF InPlace
    <2>6. place[n] = "ready" => Loading(n) \/ Cached(n)
      BY DEF InPlace
    <2>7. Loading(n) => Loading(n)'
      BY <2>1, <2>3, <2>4 DEF Loading
    <2>8. Cached(n) => Cached(n)'
      BY <2>1, <2>4 DEF Cached, Settled
    <2> QED BY <1>3, <2>1, <2>5, <2>6, <2>7, <2>8 DEF InPlace
  <1>4. CASE m = n /\ EnqueueNew(e)
    <2>1. /\ n \notin locked /\ place[n] \notin Active
          /\ place'[n] = IF onGpu[n] THEN "ready" ELSE "new"
          /\ task'[n].state = IF onGpu[n] THEN "NORMAL" ELSE decision
          /\ UNCHANGED <<onGpu, memPtr, smPtr, dockOf, gpuSlotOf, smSlotOf>>
      BY <1>0, <1>1, <1>4 DEF EnqueueNew, LockInv, TaskType, NoTask, ownerVars
    <2>2. Settled(n)
      BY <2>1 DEF InPlace, Active
    <2>3. Settled(n)'
      BY <2>1, <2>2 DEF Settled
    <2>4. CASE onGpu[n]
      BY <1>4, <2>1, <2>3, <2>4 DEF InPlace, Cached
    <2>5. CASE ~onGpu[n]
      BY <1>4, <2>1, <2>3, <2>5 DEF InPlace
    <2> QED BY <2>4, <2>5
  <1> QED BY <1>2, <1>3, <1>4

\* The scheduler drops the stale prefetches, regions and all.
LEMMA ScheduleInPlace ==
  ASSUME RequestInv, \A m \in Node : InPlace(m), NEW S, OpsSchedule(S), NEW m \in Node
  PROVE  InPlace(m)'
  <1>0. TaskType /\ NodeType /\ OwnerType /\ AskedInv
    BY DEF RequestInv, QueueInv, TypeInv, TypeOK
  <1>1. /\ smPtr' = smPtr /\ smSlotOf' = smSlotOf
        /\ m \notin Stale => /\ task'[m] = task[m] /\ dockOf'[m] = dockOf[m]
                             /\ gpuSlotOf'[m] = gpuSlotOf[m] /\ onGpu'[m] = onGpu[m]
                             /\ memPtr'[m] = memPtr[m]
        /\ m \in Stale => /\ dockOf'[m] = Null /\ gpuSlotOf'[m] = Null
                          /\ onGpu'[m] = FALSE /\ memPtr'[m] = Null
        /\ place'[m] = IF m \in Stale THEN "none"
                       ELSE IF place[m] = "new"
                            THEN IF smPtr[m] # Null THEN "typeII" ELSE "typeI"
                            ELSE place[m]
    BY DEF OpsSchedule, Discarded
  <1>2. CASE m \in Stale
    <2>1. place[m] = "scheduled" /\ ~task[m].hit
      BY <1>2 DEF Stale
    <2>2. task[m].state = "PREFETCH" /\ Loading(m)
      BY <1>0, <2>1 DEF AskedInv, Active, InPlace
    <2>3. Settled(m)'
      BY <1>1, <1>2, <2>2 DEF Settled, Loading
    <2> QED BY <1>1, <1>2, <2>3 DEF InPlace
  <1>3. CASE m \notin Stale /\ place[m] = "new"
    <2>1. Settled(m) /\ ~onGpu[m]
      BY <1>3 DEF InPlace
    <2>2. Settled(m)' /\ ~onGpu'[m]
      BY <1>1, <1>3, <2>1 DEF Settled
    <2> QED BY <1>1, <1>3, <2>2 DEF InPlace
  <1>4. CASE m \notin Stale /\ place[m] # "new"
    BY <1>1, <1>4, StillInPlace DEF Still
  <1> QED BY <1>2, <1>3, <1>4

\* The recovery: a prefetch comes to rest, a request goes on with its tensors.
LEMMA FetchInPlace ==
  ASSUME RequestInv, \A m \in Node : InPlace(m), NEW n \in Node, Fetch(n), NEW m \in Node
  PROVE  InPlace(m)'
  <1>0. TaskType /\ NodeType /\ OwnerType /\ ReadyInv
    BY DEF RequestInv, QueueInv, TypeInv, TypeOK
  <1> DEFINE t  == task[n]
             sm == IF t.state = "SMCACHE" THEN t.sm ELSE smPtr[n]
             dropsSm == sm # Null /\ t.state \in {"NORMAL", "PREFETCH"}
  <1>1. /\ onGpu' = [onGpu EXCEPT ![n] = TRUE]
        /\ memPtr' = IF Recovers(n) THEN [memPtr EXCEPT ![n] = t.tensor] ELSE memPtr
        /\ smPtr' = [smPtr EXCEPT ![n] = IF dropsSm THEN Null ELSE sm]
        /\ smSlotOf' = IF dropsSm THEN [smSlotOf EXCEPT ![n] = Null] ELSE smSlotOf
        /\ place' = [place EXCEPT ![n] = IF t.state = "PREFETCH" THEN "none" ELSE "exec"]
        /\ gpuSlotOf' = gpuSlotOf
        /\ t.state = "PREFETCH" => /\ dockOf' = [dockOf EXCEPT ![n] = Null]
                                   /\ task' = [task EXCEPT ![n] = NoTask]
        /\ t.state # "PREFETCH" => dockOf' = dockOf /\ task' = task
    BY DEF Fetch
  <1>2. place[n] = "ready" /\ t \in Task
    BY <1>0, HeadIsReady DEF Fetch, TaskType
  <1>3. CASE m # n
    BY <1>0, <1>1, <1>3, StillInPlace DEF Still, TaskType, NodeType, OwnerType
  <1>4. /\ onGpu'[n] = TRUE /\ gpuSlotOf'[n] = gpuSlotOf[n]
        /\ memPtr'[n] = IF Recovers(n) THEN t.tensor ELSE memPtr[n]
        /\ smPtr'[n] = IF dropsSm THEN Null ELSE sm
        /\ smSlotOf'[n] = IF dropsSm THEN Null ELSE smSlotOf[n]
        /\ place'[n] = IF t.state = "PREFETCH" THEN "none" ELSE "exec"
        /\ t.state = "PREFETCH" => dockOf'[n] = Null
        /\ t.state # "PREFETCH" => task'[n] = t
    BY <1>0, <1>1 DEF TaskType, NodeType, OwnerType
  <1>5. /\ t.state \in {"NORMAL", "PREFETCH"} =>
             /\ memPtr'[n] = gpuSlotOf[n] /\ gpuSlotOf[n] # Null
             /\ smPtr'[n] = Null /\ smSlotOf'[n] = Null
        /\ t.state = "SMCACHE" => gpuSlotOf[n] = Null /\ smPtr'[n] = smSlotOf'[n]
    <2>1. CASE Loading(n)
      BY <1>4, <2>1 DEF Loading, Recovers
    <2>2. CASE Cached(n)
      BY <1>4, <2>2 DEF Cached, Settled, Recovers
    <2> QED BY <1>2, <2>1, <2>2 DEF InPlace
  <1>6. CASE m = n /\ t.state = "PREFETCH"
    <2>1. Settled(n)'
      BY <1>4, <1>5, <1>6 DEF Settled
    <2> QED BY <1>4, <1>6, <2>1 DEF InPlace
  <1>7. CASE m = n /\ t.state # "PREFETCH"
    <2>1. InUse(n)'
      BY <1>4, <1>5, <1>7 DEF InUse
    <2> QED BY <1>4, <1>7, <2>1 DEF InPlace
  <1> QED BY <1>3, <1>6, <1>7

\* The end of a request: the node keeps its slot, and nothing else.
LEMMA ReleaseInPlace ==
  ASSUME RequestInv, \A m \in Node : InPlace(m), NEW n \in Node, OutputRelease(n),
         NEW m \in Node
  PROVE  InPlace(m)'
  <1>0. TaskType /\ NodeType /\ OwnerType /\ AskedInv
    BY DEF RequestInv, QueueInv, TypeInv, TypeOK
  <1>1. /\ place[n] = "output" /\ task[n].state # "EVICT"
        /\ place' = [place EXCEPT ![n] = "released"]
        /\ onGpu' = [onGpu EXCEPT ![n] = @ /\ task[n].state # "SMCACHE"]
        /\ memPtr' = [memPtr EXCEPT ![n] = IF task[n].state = "SMCACHE" THEN Null ELSE @]
        /\ dockOf' = [dockOf EXCEPT ![n] = Null]
        /\ task' = [task EXCEPT ![n] = NoTask]
        /\ UNCHANGED <<smPtr, gpuSlotOf, smSlotOf>>
    BY DEF OutputRelease, DockReleased
  <1>2. CASE m # n
    BY <1>0, <1>1, <1>2, StillInPlace DEF Still, TaskType, NodeType, OwnerType
  <1>3. CASE m = n
    <2>1. InUse(n) /\ task[n].state \in {"NORMAL", "SMCACHE"}
      <3>1. task[n].hit /\ task[n].state # "PREFETCH" /\ task[n] \in Task
        BY <1>0, <1>1 DEF AskedInv, Active, TaskType
      <3> QED BY <1>1, <3>1 DEF InPlace, Task, TaskState
    <2>2. /\ onGpu'[n] = (onGpu[n] /\ task[n].state # "SMCACHE")
          /\ memPtr'[n] = IF task[n].state = "SMCACHE" THEN Null ELSE memPtr[n]
          /\ dockOf'[n] = Null /\ place'[n] = "released"
      BY <1>0, <1>1 DEF TaskType, NodeType, OwnerType
    <2>3. Settled(n)'
      <3>1. CASE task[n].state = "NORMAL"
        BY <1>1, <2>1, <2>2, <3>1 DEF InUse, Settled
      <3>2. CASE task[n].state = "SMCACHE"
        BY <1>1, <2>1, <2>2, <3>2 DEF InUse, Settled
      <3> QED BY <2>1, <3>1, <3>2
    <2> QED BY <1>3, <2>2, <2>3 DEF InPlace
  <1> QED BY <1>2, <1>3

LEMMA InitRegionInv == Init => RegionInv
  BY DEF Init, RegionInv, InPlace, Settled

\* Every step keeps the regions of a node in step with its place.
LEMMA StepRegionInv == RequestInv /\ OneOwner /\ RegionInv /\ [Next]_vars => RegionInv'
  <1> SUFFICES ASSUME RequestInv, OneOwner, RegionInv, [Next]_vars, NEW m \in Node
               PROVE  InPlace(m)'
    BY DEF RegionInv
  <1>0. /\ QueueInv /\ TaskType /\ MainType /\ NodeType /\ ReadyInv /\ LockInv
        /\ \A k \in Node : InPlace(k)
    BY DEF RequestInv, QueueInv, TypeInv, TypeOK, RegionInv
  <1>1. ASSUME UNCHANGED <<place, task, onGpu, memPtr, smPtr, ownerVars>>
        PROVE  InPlace(m)'
    BY <1>0, <1>1, StillInPlace DEF Still, ownerVars
  <1>2. ASSUME NEW n \in Node, NEW b, Submit(n, b) PROVE InPlace(m)'
    <2>1. place[n] \in {"typeI", "typeII"} /\ task[n] \in Task /\ ToWorkers(n, task[n], pend[n])
      BY <1>0, <1>2 DEF Submit, Eligible, InType, TaskType
    <2>2. Settled(n) /\ ~onGpu[n]
      BY <2>1 DEF RegionInv, InPlace
    <2> QED BY <1>0, <2>1, <2>2, ToWorkersInPlace
  <1>3. ASSUME NEW e \in Experts,
               SubmitPrefetchReady(e) \/ SubmitPrefetchFetch(e) \/ SubmitPrefetchFails(e)
        PROVE  InPlace(m)'
    <2>1. PICK n \in Node : n = <<NextLayer, e>>
      BY <1>0, NextLayerType DEF Node
    <2>2. n \notin locked
      BY <1>3, <2>1 DEF SubmitPrefetchReady, SubmitPrefetchFetch, SubmitPrefetchFails, Prefetches
    <2>3. Settled(n)
      BY <1>0, <2>2 DEF LockInv, RegionInv, InPlace, Active
    <2>4. CASE SubmitPrefetchFetch(e)
      <3>1. ToWorkers(n, PrefetchTask, NumOps(n)) /\ ~onGpu[n]
        BY <2>1, <2>4 DEF SubmitPrefetchFetch
      <3> QED BY <1>0, <2>3, <3>1, NoTaskType, ToWorkersInPlace
    <2>5. CASE SubmitPrefetchReady(e)
      <3>1. /\ place' = [place EXCEPT ![n] = "ready"] /\ task' = [task EXCEPT ![n] = PrefetchTask]
            /\ onGpu[n]
            /\ UNCHANGED <<onGpu, memPtr, smPtr, dockOf, gpuSlotOf, smSlotOf>>
        BY <2>1, <2>5 DEF SubmitPrefetchReady, ownerVars
      <3>2. CASE m # n
        BY <1>0, <3>1, <3>2, StillInPlace DEF Still, TaskType
      <3>3. CASE m = n
        <4>1. /\ place'[n] = "ready" /\ task'[n].state = "PREFETCH"
              /\ onGpu'[n] /\ Settled(n)'
          BY <1>0, <2>3, <3>1 DEF TaskType, PrefetchTask, NoTask, Settled
        <4> QED BY <3>3, <4>1 DEF InPlace, Cached
      <3> QED BY <3>2, <3>3
    <2>6. CASE SubmitPrefetchFails(e)
      BY <1>1, <2>6 DEF SubmitPrefetchFails, taskVars
    <2> QED BY <1>3, <2>4, <2>5, <2>6
  <1>4. ASSUME NEW n \in Node, NEW o \in Ops, OpDone(n, o) PROVE InPlace(m)'
    <2>1. /\ UNCHANGED <<task, onGpu, memPtr, smPtr, dockOf, gpuSlotOf, smSlotOf>>
          /\ \/ place' = place
             \/ place[n] = "scheduled" /\ place' = [place EXCEPT ![n] = "ready"]
      BY <1>4 DEF OpDone, nodeVars, ownerVars
    <2>2. CASE place'[m] = place[m]
      BY <1>0, <2>1, <2>2, StillInPlace DEF Still
    <2>3. CASE place'[m] # place[m]
      <3>1. place[m] = "scheduled" /\ place'[m] = "ready" /\ Loading(m)
        BY <1>0, <2>1, <2>3 DEF TaskType, InPlace
      <3>2. Loading(m)'
        BY <2>1, <3>1 DEF Loading
      <3> QED BY <3>1, <3>2 DEF InPlace
    <2> QED BY <2>2, <2>3
  <1>5. ASSUME NEW n \in Node, Exec(n) PROVE InPlace(m)'
    <2>1. /\ UNCHANGED <<task, onGpu, memPtr, smPtr, dockOf, gpuSlotOf, smSlotOf>>
          /\ place[n] = "exec" /\ place' = [place EXCEPT ![n] = "output"]
      BY <1>5 DEF Exec, nodeVars, ownerVars
    <2>2. CASE place'[m] = place[m]
      BY <1>0, <2>1, <2>2, StillInPlace DEF Still
    <2>3. CASE place'[m] # place[m]
      <3>1. place'[m] = "output" /\ InUse(m)
        BY <1>0, <2>1, <2>3 DEF TaskType, InPlace
      <3>2. InUse(m)'
        BY <2>1, <3>1 DEF InUse
      <3> QED BY <3>1, <3>2 DEF InPlace
    <2> QED BY <2>2, <2>3
  <1>6. ASSUME NEW n \in Node, OutputPush(n) \/ OutputSignal(n) PROVE InPlace(m)'
    <2>1. /\ UNCHANGED <<task, onGpu, memPtr, smPtr, dockOf, gpuSlotOf, smSlotOf>>
          /\ place[n] \in {"released", "pushed"}
          /\ \E v \in {"pushed", "none"} : place' = [place EXCEPT ![n] = v]
      BY <1>6 DEF OutputPush, OutputSignal, nodeVars, ownerVars
    <2>2. CASE place'[m] = place[m]
      BY <1>0, <2>1, <2>2, StillInPlace DEF Still
    <2>3. CASE place'[m] # place[m]
      <3>1. place'[m] \in {"pushed", "none"} /\ Settled(m)
        BY <1>0, <2>1, <2>3 DEF TaskType, InPlace
      <3>2. Settled(m)'
        BY <2>1, <3>1 DEF Settled
      <3> QED BY <3>1, <3>2 DEF InPlace
    <2> QED BY <2>2, <2>3
  <1>7. ASSUME NEW S, OpsSchedule(S) PROVE InPlace(m)'
    BY <1>0, <1>7, ScheduleInPlace
  <1>8. CASE Main
    <2>1. ASSUME NEW n \in Node, SubmitFails(n) PROVE InPlace(m)'
      BY <1>1, <2>1 DEF SubmitFails, taskVars, nodeVars
    <2>2. ASSUME NEW c, EnqueueDecide(c) \/ SubmitDone PROVE InPlace(m)'
      BY <1>1, <2>2 DEF EnqueueDecide, SubmitDone, taskVars, nodeVars
    <2>3. ASSUME NEW e \in Experts, EnqueueHit(e) \/ EnqueueNew(e) PROVE InPlace(m)'
      BY <1>0, <2>3, EnqueueInPlace
    <2> QED BY <1>2, <1>7, <1>8, <2>1, <2>2, <2>3 DEF Main, BlockEnds
  <1>9. CASE Prefetch \/ Workers
    <2>1. ASSUME NEW w, StrayDone(w) PROVE InPlace(m)'
      BY <1>1, <2>1 DEF StrayDone, nodeVars
    <2> QED BY <1>3, <1>4, <1>9, <2>1 DEF Prefetch, Workers
  <1>10. CASE FetchThread \/ ExecThread
    <2>1. ASSUME NEW n \in Node, Fetch(n) PROVE InPlace(m)'
      BY <1>0, <2>1, FetchInPlace
    <2> QED BY <1>5, <1>10, <2>1 DEF FetchThread, ExecThread
  <1>11. CASE OutputThread
    <2>1. ASSUME NEW n \in Node, OutputRelease(n) PROVE InPlace(m)'
      BY <1>0, <2>1, ReleaseInPlace
    <2>2. ASSUME NEW n \in Node, OutputEvictFails(n) PROVE InPlace(m)'
      BY <1>1, <2>2 DEF OutputEvictFails, taskVars, nodeVars
    <2> QED BY <1>6, <1>11, <2>1, <2>2 DEF OutputThread
  <1>12. ASSUME NEW A, StartLayer(A) \/ WaitReturn(A) PROVE InPlace(m)'
    BY <1>1, <1>12 DEF StartLayer, WaitReturn, taskVars, nodeVars
  <1>13. CASE UNCHANGED vars
    BY <1>1, <1>13 DEF vars, taskVars, nodeVars
  <1> QED BY <1>8, <1>9, <1>10, <1>11, <1>12, <1>13 DEF Next

\* The pointers of a task stay good from submission until fetch: its node owns
\* the dock, the slots and the place of its tensors, whatever the other threads
\* evict, register or discard.
THEOREM InFlightRegionsOwned == Spec => []InFlightOwnsRegions
  <1>1. RequestInv /\ RegionInv => InFlightOwnsRegions
    <2> SUFFICES ASSUME RequestInv, RegionInv, NEW n \in Node,
                        place[n] \in {"scheduled", "ready"}, ~onGpu[n]
                 PROVE  /\ task[n].exp = dockOf[n] /\ dockOf[n] # Null
                        /\ task[n].sm = IF smSlotOf[n] = Null THEN dockOf[n] ELSE smSlotOf[n]
                        /\ task[n].tensor = IF gpuSlotOf[n] = Null THEN dockOf[n] ELSE gpuSlotOf[n]
      BY DEF InFlightOwnsRegions
    <2>1. Loading(n)
      BY DEF RegionInv, InPlace, Cached
    <2>2. task[n].state \in TaskState
      BY DEF RequestInv, QueueInv, TypeInv, TypeOK, TaskType, Task
    <2> QED BY <2>1, <2>2 DEF Loading, TaskState
  <1> QED BY <1>1, InitRegionInv, StepRegionInv, InitRequestInv, StepRequestInv,
             RegionsExclusive, PTL DEF Spec

\* What the pools say of a node nobody works on is true of the node.
THEOREM IdleNodesCoherent == Spec => []IdleCoherent
  <1>1. RequestInv /\ RegionInv => IdleCoherent
    BY DEF RequestInv, QueueInv, LockInv, RegionInv, InPlace, Settled, Active, IdleCoherent
  <1> QED BY <1>1, InitRegionInv, StepRegionInv, InitRequestInv, StepRequestInv,
             RegionsExclusive, PTL DEF Spec

-----------------------------------------------------------------------------
(* The operation count of a task.                                          *)

Waiting(n) == place[n] \in {"new", "typeI", "typeII"}

OpsFollow(n) ==
  /\ Waiting(n) => pend[n] = NumOps(n)
  /\ IF place[n] = "scheduled" THEN ops[n] # {} /\ pend[n] = Cardinality(ops[n])
     ELSE ops[n] = {}

OpsInv == \A n \in Node : OpsFollow(n)

\* What ToWorkers submits is what EnqueueExpert counts.
LEMMA SubmittedIsCounted ==
  ASSUME NEW n \in Node
  PROVE  LET S == ExpOps \cup (IF smPtr[n] = Null THEN SmOps ELSE {})
         IN  S # {} /\ NumOps(n) = Cardinality(S)
  <1>1. /\ IsFiniteSet(ExpOps) /\ IsFiniteSet(SmOps)
        /\ ExpOps # {} /\ ExpOps \cap SmOps = {}
    BY PipelineAssumption DEF PipelineAssumption
  <1>2. Cardinality(ExpOps) \in Nat /\ Cardinality(SmOps) \in Nat
    BY <1>1, FS_CardinalityType
  <1>3. Cardinality(ExpOps \cup SmOps) = Cardinality(ExpOps) + Cardinality(SmOps)
    <2>1. Cardinality(ExpOps \cap SmOps) = 0
      BY <1>1, FS_EmptySet
    <2>2. Cardinality(ExpOps \cup SmOps)
            = Cardinality(ExpOps) + Cardinality(SmOps) - Cardinality(ExpOps \cap SmOps)
      BY <1>1, FS_Union
    <2> QED BY <1>2, <2>1, <2>2
  <1>4. CASE smPtr[n] = Null
    BY <1>1, <1>3, <1>4 DEF NumOps
  <1>5. CASE smPtr[n] # Null
    <2>1. ExpOps \cup {} = ExpOps
      OBVIOUS
    <2>2. NumOps(n) = Cardinality(ExpOps)
      BY <1>2, <1>5 DEF NumOps
    <2> QED BY <1>1, <1>5, <2>1, <2>2
  <1> QED BY <1>4, <1>5

\* ToWorkers submits the operations that the task waits for.
LEMMA ToWorkersOps ==
  ASSUME QueueInv, OneOwner, OpsInv, NEW n \in Node, NEW t,
         ToWorkers(n, t, NumOps(n)), NEW m \in Node
  PROVE  OpsFollow(m)'
  <1>0. TypeInv /\ TaskType /\ LockInv
    BY DEF QueueInv, TypeInv, TypeOK
  <1> DEFINE S == ExpOps \cup (IF smPtr[n] = Null THEN SmOps ELSE {})
  <1>1. /\ place' = [place EXCEPT ![n] = "scheduled"]
        /\ pend' = [pend EXCEPT ![n] = NumOps(n)] /\ ops' = [ops EXCEPT ![n] = S]
    BY DEF ToWorkers
  <1>2. S # {} /\ NumOps(n) = Cardinality(S)
    BY SubmittedIsCounted
  <1> HIDE DEF S
  <1>3. CASE m = n
    <2>1. place'[n] = "scheduled" /\ pend'[n] = NumOps(n) /\ ops'[n] = S
      BY <1>0, <1>1 DEF TaskType
    <2> QED BY <1>2, <1>3, <2>1 DEF OpsFollow, Waiting
  <1>4. CASE m # n
    <2>1. place'[m] = place[m] /\ pend'[m] = pend[m] /\ ops'[m] = ops[m]
      BY <1>0, <1>1, <1>4 DEF TaskType
    <2>2. Waiting(m) => smPtr'[m] = smPtr[m]
      <3>1. Waiting(m) => m \in locked
        BY <1>0 DEF Waiting, LockInv, Active
      <3> QED BY <1>0, <1>4, <3>1, ToWorkersOthers DEF Still
    <2> QED BY <2>1, <2>2 DEF OpsInv, OpsFollow, Waiting, NumOps
  <1> QED BY <1>3, <1>4

\* An operation ends: the count goes down with the set.
LEMMA OpDoneOps ==
  ASSUME TaskType, OpsInv, NEW n \in Node, NEW o \in Ops, OpDone(n, o), NEW m \in Node
  PROVE  OpsFollow(m)'
  <1>1. /\ o \in ops[n] /\ smPtr' = smPtr
        /\ ops' = [ops EXCEPT ![n] = @ \ {o}] /\ pend' = [pend EXCEPT ![n] = @ - 1]
        /\ place' = IF pend[n] = 1 /\ place[n] = "scheduled"
                    THEN [place EXCEPT ![n] = "ready"] ELSE place
    BY DEF OpDone, nodeVars
  <1>2. place[n] = "scheduled" /\ pend[n] = Cardinality(ops[n])
    BY <1>1 DEF OpsInv, OpsFollow
  <1>3. CASE m = n
    <2>1. IsFiniteSet(ops[n]) /\ ops[n] \subseteq Ops
      <3>1. IsFiniteSet(Ops)
        BY PipelineAssumption, FS_Union DEF PipelineAssumption, Ops
      <3> QED BY <3>1, FS_Subset DEF TaskType
    <2>2. /\ Cardinality(ops[n] \ {o}) = Cardinality(ops[n]) - 1
          /\ IsFiniteSet(ops[n] \ {o})
      BY <1>1, <2>1, FS_RemoveElement
    <2>3. /\ Cardinality(ops[n] \ {o}) = 0 <=> ops[n] \ {o} = {}
          /\ Cardinality(ops[n]) \in Nat /\ Cardinality(ops[n] \ {o}) \in Nat
      BY <2>1, <2>2, FS_EmptySet, FS_CardinalityType
    <2>4. /\ ops'[n] = ops[n] \ {o} /\ pend'[n] = pend[n] - 1
          /\ place'[n] = IF pend[n] = 1 THEN "ready" ELSE "scheduled"
      BY <1>1, <1>2 DEF TaskType
    <2>5. CASE pend[n] = 1
      BY <1>2, <1>3, <2>2, <2>3, <2>4, <2>5 DEF OpsFollow, Waiting
    <2>6. CASE pend[n] # 1
      BY <1>2, <1>3, <2>2, <2>3, <2>4, <2>6 DEF OpsFollow, Waiting
    <2> QED BY <2>5, <2>6
  <1>4. CASE m # n
    <2>1. place'[m] = place[m] /\ pend'[m] = pend[m] /\ ops'[m] = ops[m]
      BY <1>1, <1>4 DEF TaskType
    <2> QED BY <1>1, <2>1 DEF OpsInv, OpsFollow, Waiting, NumOps
  <1> QED BY <1>3, <1>4

LEMMA InitOpsInv == Init => OpsInv
  BY DEF Init, OpsInv, OpsFollow, Waiting

\* Every step keeps the counts in step with the operations.
LEMMA StepOpsInv == QueueInv /\ OneOwner /\ OpsInv /\ [Next]_vars => OpsInv'
  <1> SUFFICES ASSUME QueueInv, OneOwner, OpsInv, [Next]_vars, NEW m \in Node
               PROVE  OpsFollow(m)'
    BY DEF OpsInv
  <1>0. TaskType /\ MainType /\ NodeType /\ ReadyInv /\ LockInv
    BY DEF QueueInv, TypeInv, TypeOK
  <1>1. ASSUME UNCHANGED <<place, ops, pend, smPtr>> PROVE OpsFollow(m)'
    BY <1>1 DEF OpsInv, OpsFollow, Waiting, NumOps
  \* A task that is not waiting for the scheduler moves, without operations.
  <1>2. ASSUME NEW n \in Node, NEW v, place' = [place EXCEPT ![n] = v], ops' = ops,
               place[n] # "scheduled", v \notin {"new", "typeI", "typeII", "scheduled"},
               \A k \in Node \ {n} : pend'[k] = pend[k] /\ smPtr'[k] = smPtr[k]
        PROVE  OpsFollow(m)'
    <2>1. \/ place'[m] = place[m] /\ m # n
          \/ place'[m] = v /\ m = n
      BY <1>0, <1>2 DEF TaskType
    <2> QED BY <1>2, <2>1 DEF OpsInv, OpsFollow, Waiting, NumOps
  <1>3. ASSUME NEW e \in Experts, EnqueueNew(e) PROVE OpsFollow(m)'
    <2>1. PICK n \in Node : n = <<layer, e>>
      BY <1>0 DEF Node, MainType
    <2>2. /\ place' = [place EXCEPT ![n] = IF onGpu[n] THEN "ready" ELSE "new"]
          /\ pend' = [pend EXCEPT ![n] = NumOps(n)] /\ ops' = ops /\ smPtr' = smPtr
          /\ place[n] # "scheduled"
      BY <1>3, <2>1 DEF EnqueueNew
    <2>3. /\ m # n => place'[m] = place[m] /\ pend'[m] = pend[m]
          /\ m = n => place'[m] \in {"ready", "new"} /\ pend'[m] = NumOps(n)
      BY <1>0, <2>2 DEF TaskType
    <2> QED BY <2>2, <2>3 DEF OpsInv, OpsFollow, Waiting, NumOps
  <1>4. ASSUME NEW S, OpsSchedule(S) PROVE OpsFollow(m)'
    <2>1. /\ smPtr' = smPtr
          /\ m \in Stale => place'[m] = "none" /\ ops'[m] = {}
          /\ m \notin Stale => /\ ops'[m] = ops[m] /\ pend'[m] = pend[m]
                               /\ \/ place'[m] = place[m]
                                  \/ place[m] = "new" /\ place'[m] \in {"typeI", "typeII"}
      BY <1>4 DEF OpsSchedule, Discarded
    <2> QED BY <2>1 DEF OpsInv, OpsFollow, Waiting, NumOps
  <1>5. ASSUME NEW n \in Node, NEW b, Submit(n, b) PROVE OpsFollow(m)'
    <2>1. place[n] \in {"typeI", "typeII"} /\ ToWorkers(n, task[n], pend[n])
      BY <1>5 DEF Submit, Eligible, InType
    <2>2. pend[n] = NumOps(n)
      BY <2>1 DEF OpsInv, OpsFollow, Waiting
    <2> QED BY <2>1, <2>2, ToWorkersOps
  <1>6. ASSUME NEW e \in Experts,
               SubmitPrefetchReady(e) \/ SubmitPrefetchFetch(e) \/ SubmitPrefetchFails(e)
        PROVE  OpsFollow(m)'
    <2>1. PICK n \in Node : n = <<NextLayer, e>>
      BY <1>0, NextLayerType DEF Node
    <2>2. CASE SubmitPrefetchFetch(e)
      <3>1. ToWorkers(n, PrefetchTask, NumOps(n))
        BY <2>1, <2>2 DEF SubmitPrefetchFetch
      <3> QED BY <3>1, ToWorkersOps
    <2>3. CASE SubmitPrefetchReady(e)
      <3>1. /\ place' = [place EXCEPT ![n] = "ready"] /\ ops' = ops /\ smPtr' = smPtr
            /\ pend' = [pend EXCEPT ![n] = NumOps(n)] /\ n \notin locked
        BY <2>1, <2>3 DEF SubmitPrefetchReady, Prefetches
      <3>2. place[n] # "scheduled" /\ \A k \in Node \ {n} : pend'[k] = pend[k]
        BY <1>0, <3>1 DEF LockInv, Active, TaskType
      <3> QED BY <1>2, <3>1, <3>2
    <2>4. CASE SubmitPrefetchFails(e)
      BY <1>1, <2>4 DEF SubmitPrefetchFails, taskVars
    <2> QED BY <1>6, <2>2, <2>3, <2>4
  <1>7. ASSUME NEW n \in Node, Fetch(n) PROVE OpsFollow(m)'
    <2>1. place[n] = "ready"
      BY <1>0, <1>7, HeadIsReady DEF Fetch
    <2>2. /\ place' = [place EXCEPT ![n] = IF task[n].state = "PREFETCH" THEN "none" ELSE "exec"]
          /\ ops' = ops /\ pend' = pend /\ \A k \in Node \ {n} : smPtr'[k] = smPtr[k]
      BY <1>0, <1>7 DEF Fetch, NodeType
    <2> QED BY <1>2, <2>1, <2>2
  <1>8. ASSUME NEW n \in Node, Exec(n) \/ OutputRelease(n) \/ OutputPush(n) \/ OutputSignal(n)
        PROVE  OpsFollow(m)'
    <2>1. /\ place[n] \in {"exec", "output", "released", "pushed"}
          /\ \E v \in {"output", "released", "pushed", "none"} :
               place' = [place EXCEPT ![n] = v]
          /\ UNCHANGED <<ops, pend, smPtr>>
      BY <1>8 DEF Exec, OutputRelease, OutputPush, OutputSignal, nodeVars
    <2> QED BY <1>2, <2>1
  <1>9. CASE Main
    <2>1. ASSUME NEW n \in Node, SubmitFails(n) PROVE OpsFollow(m)'
      BY <1>1, <2>1 DEF SubmitFails, taskVars, nodeVars
    <2>2. ASSUME NEW c, EnqueueDecide(c) \/ EnqueueHit(c) \/ SubmitDone PROVE OpsFollow(m)'
      BY <1>1, <2>2 DEF EnqueueDecide, EnqueueHit, SubmitDone, taskVars, nodeVars
    <2> QED BY <1>3, <1>4, <1>5, <1>9, <2>1, <2>2 DEF Main, BlockEnds
  <1>10. CASE Prefetch \/ Workers
    <2>1. ASSUME NEW w, StrayDone(w) PROVE OpsFollow(m)'
      BY <1>1, <2>1 DEF StrayDone, nodeVars
    <2> QED BY <1>0, <1>6, <1>10, <2>1, OpDoneOps DEF Prefetch, Workers
  <1>11. CASE FetchThread \/ ExecThread \/ OutputThread
    <2>1. ASSUME NEW n \in Node, OutputEvictFails(n) PROVE OpsFollow(m)'
      BY <1>1, <2>1 DEF OutputEvictFails, taskVars, nodeVars
    <2> QED BY <1>7, <1>8, <1>11, <2>1 DEF FetchThread, ExecThread, OutputThread
  <1>12. ASSUME NEW A, StartLayer(A) \/ WaitReturn(A) PROVE OpsFollow(m)'
    BY <1>1, <1>12 DEF StartLayer, WaitReturn, taskVars, nodeVars
  <1>13. CASE UNCHANGED vars
    BY <1>1, <1>13 DEF vars, taskVars, nodeVars
  <1> QED BY <1>9, <1>10, <1>11, <1>12, <1>13 DEF Next

\* The count that EnqueueExpert fixes is the number of operations the scheduler
\* submits, so that a scheduled task becomes ready when its last one ends, and
\* not before.
THEOREM CountsMatchOperations == Spec => []CountMatchesOps
  <1>1. OpsInv => CountMatchesOps
    BY DEF OpsInv, OpsFollow, CountMatchesOps
  <1> QED BY <1>1, InitOpsInv, StepOpsInv, InitQueueInv, StepQueueInv,
             RegionsExclusive, PTL DEF Spec

-----------------------------------------------------------------------------
(***************************************************************************)
(* The pipeline without prefetch: it never aborts when both pools have     *)
(* room for a layer, and every expert runs on its own weights.             *)
(***************************************************************************)

(* Without prefetch the pipeline holds requests of the current layer only. *)

DemandInv ==
  /\ pc = "idle" => todo = {}
  /\ \A n \in Node : place[n] \in Active => task[n].hit
  /\ \A n \in Node : n \in locked => place[n] \in Active
  /\ stray = {}

\* Whoever holds its mutex is a request of the current layer, and nobody is stale.
LEMMA HeldIsAsked ==
  ASSUME RequestInv, DemandInv
  PROVE  /\ Stale = {}
         /\ \A n \in Node : place[n] \in Active => n[1] = layer /\ task[n].state # "PREFETCH"
         /\ \A n \in Node : n \in locked => n[1] = layer
  <1>1. Stale = {}
    BY DEF DemandInv, Stale, Active
  <1>2. \A n \in Node : place[n] \in Active => Asked(n) /\ task[n].state # "PREFETCH"
    BY DEF RequestInv, AskedInv, DemandInv, Asked, Active
  <1> QED BY <1>1, <1>2 DEF RequestInv, AskedInv, DemandInv

LEMMA InitDemandInv == Init => DemandInv
  BY DEF Init, DemandInv, Active

LEMMA StepDemandInv ==
  ASSUME PrefetchTopK = 0, RequestInv, DemandInv, [Next]_vars
  PROVE  DemandInv'
  <1>0. TypeInv /\ TaskType /\ MainType /\ NodeType /\ ReadyInv
    BY DEF RequestInv, QueueInv, TypeInv, TypeOK
  <1>1. ASSUME UNCHANGED <<place, task, locked, stray>>, pc' = "idle" => todo' = {}
        PROVE  DemandInv'
    BY <1>1 DEF DemandInv
  <1>2. ASSUME NEW n \in Node, stray' = stray, pc' = "idle" => todo' = {},
               \A m \in Node \ {n} : /\ place'[m] = place[m] /\ task'[m] = task[m]
                                     /\ m \in locked' <=> m \in locked,
               place'[n] \in Active => task'[n].hit,
               n \in locked' => place'[n] \in Active
        PROVE  DemandInv'
    BY <1>2 DEF DemandInv
  <1>3. ASSUME NEW n \in Node, Submit(n, TRUE) \/ Submit(n, FALSE) PROVE DemandInv'
    <2>1. /\ place[n] \in {"typeI", "typeII"} /\ task[n] \in Task /\ pc = "submit"
          /\ ToWorkers(n, task[n], pend[n]) /\ UNCHANGED <<pc, locked>>
      BY <1>0, <1>3 DEF Submit, Eligible, InType, TaskType
    <2>2. /\ place' = [place EXCEPT ![n] = "scheduled"] /\ task'[n].hit = task[n].hit
          /\ \A m \in Node \ {n} : task'[m] = task[m]
          /\ stray' = stray
      BY <1>0, <2>1, ToWorkersTask DEF ToWorkers
    <2>3. /\ place'[n] = "scheduled" /\ task[n].hit
          /\ \A m \in Node \ {n} : place'[m] = place[m]
      BY <1>0, <2>1, <2>2 DEF TaskType, DemandInv, Active
    <2> QED BY <1>2, <2>1, <2>2, <2>3 DEF Active
  <1>4. ASSUME NEW e \in Experts, EnqueueNew(e) PROVE DemandInv'
    <2>1. PICK n \in Node : n = <<layer, e>>
      BY <1>0 DEF Node, MainType
    <2>2. /\ place' = [place EXCEPT ![n] = IF onGpu[n] THEN "ready" ELSE "new"]
          /\ task' = [task EXCEPT ![n] = [NoTask EXCEPT !.hit = TRUE,
                        !.state = IF onGpu[n] THEN "NORMAL" ELSE decision]]
          /\ locked' = locked \cup {n} /\ stray' = stray /\ pc' # "idle"
      BY <1>4, <2>1 DEF EnqueueNew, Enqueued
    <2>3. /\ place'[n] \in Active /\ task'[n].hit
          /\ \A m \in Node \ {n} : place'[m] = place[m] /\ task'[m] = task[m]
      BY <1>0, <2>2 DEF TaskType, NoTask, Active
    <2> QED BY <1>2, <2>2, <2>3
  <1>5. ASSUME NEW e \in Experts, EnqueueHit(e) PROVE DemandInv'
    <2>1. PICK n \in Node : n = <<layer, e>>
      BY <1>0 DEF Node, MainType
    <2>2. /\ task' = [task EXCEPT ![n].state = "NORMAL", ![n].hit = TRUE]
          /\ UNCHANGED <<place, locked, stray>> /\ pc' # "idle"
          /\ place[n] \in {"scheduled", "ready"}
      BY <1>5, <2>1 DEF EnqueueHit, Enqueued, nodeVars
    <2>3. task'[n].hit /\ \A m \in Node \ {n} : task'[m] = task[m]
      BY <1>0, <2>2 DEF TaskType, Task
    <2> QED BY <1>2, <2>2, <2>3 DEF Active
  <1>6. ASSUME NEW S, OpsSchedule(S) PROVE DemandInv'
    <2>1. Stale = {}
      BY HeldIsAsked
    <2>2. /\ S \subseteq stray \cup UNION {Running(n) : n \in Stale}
          /\ stray' = S /\ locked' = locked \ Stale /\ pc' # "idle"
          /\ \A n \in Node : /\ n \notin Stale => task'[n] = task[n]
                             /\ \/ n \in Stale
                                \/ place'[n] = place[n]
                                \/ place[n] = "new" /\ place'[n] \in {"typeI", "typeII"}
      BY <1>6 DEF OpsSchedule, Discarded
    <2>3. stray' = {}
      BY <2>1, <2>2 DEF DemandInv
    <2> QED BY <2>1, <2>2, <2>3 DEF DemandInv, Active
  <1>7. ASSUME NEW n \in Node, NEW o \in Ops, OpDone(n, o) PROVE DemandInv'
    <2>1. /\ UNCHANGED <<task, locked, stray, pc, todo>>
          /\ \/ place' = place
             \/ place[n] = "scheduled" /\ place' = [place EXCEPT ![n] = "ready"]
      BY <1>7 DEF OpDone, mainVars, nodeVars
    <2>2. \A m \in Node : \/ place'[m] = place[m]
                          \/ place[m] = "scheduled" /\ place'[m] = "ready"
      BY <1>0, <2>1 DEF TaskType
    <2> QED BY <2>1, <2>2 DEF DemandInv, Active
  <1>8. ASSUME NEW n \in Node, Fetch(n) PROVE DemandInv'
    <2>1. place[n] = "ready" /\ task[n].state # "PREFETCH" /\ task[n].hit
      BY <1>0, <1>8, HeadIsReady, HeldIsAsked DEF Fetch, Active, DemandInv
    <2>2. /\ place' = [place EXCEPT ![n] = "exec"]
          /\ UNCHANGED <<task, locked, stray, pc, todo>>
      BY <1>8, <2>1 DEF Fetch, mainVars
    <2>3. /\ place'[n] = "exec" /\ \A m \in Node \ {n} : place'[m] = place[m]
      BY <1>0, <2>2 DEF TaskType
    <2>4. pc' = "idle" => todo' = {}
      BY <2>2 DEF DemandInv
    <2> QED BY <1>2, <2>1, <2>2, <2>3, <2>4 DEF Active
  <1>9. ASSUME NEW n \in Node, Exec(n) \/ OutputRelease(n) \/ OutputPush(n) \/ OutputSignal(n)
        PROVE  DemandInv'
    <2>1. /\ UNCHANGED <<stray, pc, todo>>
          /\ \/ /\ place[n] = "exec" /\ place' = [place EXCEPT ![n] = "output"]
                /\ UNCHANGED <<task, locked>>
             \/ /\ place' = [place EXCEPT ![n] = "released"]
                /\ task' = [task EXCEPT ![n] = NoTask] /\ locked' = locked \ {n}
             \/ /\ place[n] \in {"released", "pushed"}
                /\ place' = [place EXCEPT ![n] = "pushed"] \/ place' = [place EXCEPT ![n] = "none"]
                /\ UNCHANGED <<task, locked>>
      BY <1>9 DEF Exec, OutputRelease, OutputPush, OutputSignal, mainVars, nodeVars
    <2>2. /\ \A m \in Node \ {n} : place'[m] = place[m] /\ task'[m] = task[m]
          /\ \A m \in Node \ {n} : m \in locked' <=> m \in locked
          /\ \/ place[n] = "exec" /\ place'[n] = "output" /\ task'[n] = task[n]
             \/ place'[n] = "released" /\ n \notin locked'
             \/ /\ place[n] \in {"released", "pushed"} /\ place'[n] \in {"pushed", "none"}
                /\ locked' = locked
      BY <1>0, <2>1 DEF TaskType
    <2>3. pc' = "idle" => todo' = {}
      BY <2>1 DEF DemandInv
    <2>4. /\ place'[n] \in Active => task'[n].hit
          /\ n \in locked' => place'[n] \in Active
      BY <2>2 DEF DemandInv, Active
    <2> QED BY <1>2, <2>1, <2>2, <2>3, <2>4
  <1>10. CASE Main
    <2>1. ASSUME NEW n \in Node, SubmitFails(n) PROVE DemandInv'
      BY <1>1, <2>1 DEF SubmitFails, mainVars, taskVars, nodeVars, DemandInv
    <2>2. ASSUME NEW c, EnqueueDecide(c) \/ SubmitDone PROVE DemandInv'
      BY <1>1, <2>2 DEF EnqueueDecide, SubmitDone, taskVars, nodeVars
    <2> QED BY <1>3, <1>4, <1>5, <1>6, <1>10, <2>1, <2>2 DEF Main, BlockEnds
  <1>11. CASE Prefetch \/ Workers
    <2>1. ~Prefetch
      BY DEF DemandInv, Prefetch, SubmitPrefetchReady, SubmitPrefetchFetch,
             SubmitPrefetchFails, Prefetches
    <2>2. \A w \in stray : ~StrayDone(w)
      BY DEF DemandInv
    <2> QED BY <1>7, <1>11, <2>1, <2>2 DEF Workers
  <1>12. CASE FetchThread \/ ExecThread \/ OutputThread
    <2>1. ASSUME NEW n \in Node, OutputEvictFails(n) PROVE DemandInv'
      BY <1>1, <2>1 DEF OutputEvictFails, mainVars, taskVars, nodeVars, DemandInv
    <2> QED BY <1>8, <1>9, <1>12, <2>1 DEF FetchThread, ExecThread, OutputThread
  <1>13. ASSUME NEW A, StartLayer(A) PROVE DemandInv'
    BY <1>1, <1>13 DEF StartLayer, taskVars, nodeVars
  <1>14. ASSUME NEW P \in SUBSET Experts, WaitReturn(P) PROVE DemandInv'
    <2>1. /\ Cardinality(P) <= 0 /\ todo' = P
          /\ UNCHANGED <<place, task, locked, stray>>
      BY <1>14 DEF WaitReturn, taskVars, nodeVars
    <2>2. P = {}
      BY <2>1, ExpertsFinite, FS_EmptySet
    <2> QED BY <1>1, <2>1, <2>2
  <1>15. CASE UNCHANGED vars
    BY <1>1, <1>15 DEF vars, mainVars, taskVars, nodeVars, DemandInv
  <1> QED BY <1>10, <1>11, <1>12, <1>13, <1>14, <1>15 DEF Next

-----------------------------------------------------------------------------
(* Nothing is ever missing: there is a dock, a victim, and a slot to give  *)
(* back.                                                                   *)

\* A pool with room for a layer cannot be owned by the other nodes of the layer.
LEMMA RoomForLayer ==
  ASSUME MainType, NEW S, IsFiniteSet(S), NumExperts <= Cardinality(S),
         NEW owner, NEW n \in Node, n[1] = layer,
         \A s \in S : \E m \in Node \ {n} : owner[m] = s /\ m[1] = layer
  PROVE  FALSE
  <1>1. NumExperts \in Nat \ {0} /\ IsFiniteSet(Experts)
    BY PipelineAssumption, ExpertsFinite DEF PipelineAssumption
  <1>2. Cardinality(Experts) = NumExperts
    <2>1. NumExperts - 1 \in Int /\ 0 \in Int /\ ~(0 > NumExperts - 1)
      BY <1>1
    <2>2. Cardinality(0 .. NumExperts - 1) = NumExperts - 1 - 0 + 1
      BY <2>1, FS_Interval
    <2> QED BY <1>1, <2>2 DEF Experts
  <1> DEFINE T == Experts \ {n[2]}
             f == [s \in S |-> CHOOSE e \in T : owner[<<layer, e>>] = s]
  <1>3. IsFiniteSet(T) /\ Cardinality(T) = NumExperts - 1
    BY <1>1, <1>2, NodeParts, FS_RemoveElement
  <1>4. ASSUME NEW s \in S PROVE f[s] \in T /\ owner[<<layer, f[s]>>] = s
    <2>1. PICK m \in Node \ {n} : owner[m] = s /\ m[1] = layer
      OBVIOUS
    <2>2. m = <<layer, m[2]>> /\ n = <<layer, n[2]>> /\ m[2] \in Experts
      BY <2>1, NodeParts
    <2>3. m[2] \in T /\ owner[<<layer, m[2]>>] = s
      BY <2>1, <2>2
    <2>4. \E e \in T : owner[<<layer, e>>] = s
      BY <2>3
    <2> QED BY <2>4
  <1> HIDE DEF f, T
  <1>5. f \in Injection(S, T)
    <2>1. f \in [S -> T]
      BY <1>4 DEF f
    <2>2. \A s, t \in S : f[s] = f[t] => s = t
      BY <1>4
    <2> QED BY <2>1, <2>2 DEF Injection, IsInjective
  <1>6. Cardinality(S) <= Cardinality(T)
    BY <1>3, <1>5, FS_Injection
  <1>7. Cardinality(S) \in Nat
    BY FS_CardinalityType
  <1> QED BY <1>1, <1>3, <1>6, <1>7

\* ToWorkers finds what it needs for a task of the current layer.
LEMMA ToWorkersNeverFails ==
  ASSUME NumExperts <= Cardinality(GpuSlots), NumExperts <= Cardinality(SmSlots),
         RequestInv, RegionInv, DemandInv,
         NEW n \in Node, place[n] \in {"typeI", "typeII"}, NEW st
  PROVE  ~ToWorkersFails(n, st)
  <1>0. MainType /\ OwnerType
    BY DEF RequestInv, QueueInv, TypeInv, TypeOK
  <1>1. /\ IsFiniteSet(Docks) /\ Cardinality(Docks) = NumExperts /\ NumExperts \in Nat
        /\ IsFiniteSet(GpuSlots) /\ IsFiniteSet(SmSlots)
        /\ Null \notin GpuSlots \cup SmSlots \cup Docks
    BY PipelineAssumption DEF PipelineAssumption
  <1>2. /\ n[1] = layer /\ dockOf[n] = Null
        /\ \A m \in Node : m \in locked => m[1] = layer
        /\ \A m \in Node : dockOf[m] # Null => m[1] = layer
    <2>1. \A m \in Node : dockOf[m] # Null => place[m] \in Active
      BY DEF RegionInv, InPlace, Settled, Active
    <2> QED BY <2>1, HeldIsAsked DEF RegionInv, InPlace, Settled, Active
  <1>3. FreeDocks # {}
    <2> SUFFICES ASSUME FreeDocks = {} PROVE FALSE
      OBVIOUS
    <2>1. \A d \in Docks : \E m \in Node \ {n} : dockOf[m] = d /\ m[1] = layer
      <3> SUFFICES ASSUME NEW d \in Docks
                   PROVE  \E m \in Node \ {n} : dockOf[m] = d /\ m[1] = layer
        OBVIOUS
      <3>1. PICK m \in Node : dockOf[m] = d
        BY DEF FreeDocks, Owned
      <3> QED BY <1>1, <1>2, <3>1
    <2>2. NumExperts <= Cardinality(Docks)
      BY <1>1
    <2> QED BY <1>0, <1>1, <1>2, <2>1, <2>2, RoomForLayer
  <1>4. GpuSlotFor(n) # {}
    <2> SUFFICES ASSUME GpuSlotFor(n) = {} PROVE FALSE
      OBVIOUS
    <2>1. /\ gpuSlotOf[n] = Null /\ FreeGpu = {} /\ Unprotected(gpuSlotOf, n) = {}
      BY DEF GpuSlotFor
    <2>2. \A s \in GpuSlots : \E m \in Node \ {n} : gpuSlotOf[m] = s /\ m[1] = layer
      <3> SUFFICES ASSUME NEW s \in GpuSlots
                   PROVE  \E m \in Node \ {n} : gpuSlotOf[m] = s /\ m[1] = layer
        OBVIOUS
      <3>1. PICK m \in Node : gpuSlotOf[m] = s
        BY <2>1 DEF FreeGpu, Owned
      <3>2. m # n /\ m \in locked
        BY <1>1, <2>1, <3>1 DEF Unprotected
      <3> QED BY <1>2, <3>1, <3>2
    <2> QED BY <1>0, <1>1, <1>2, <2>2, RoomForLayer
  <1>5. SmSlotFor(n) # {}
    <2> SUFFICES ASSUME SmSlotFor(n) = {} PROVE FALSE
      OBVIOUS
    <2>1. /\ smSlotOf[n] = Null /\ FreeSm = {} /\ Unprotected(smSlotOf, n) = {}
      BY DEF SmSlotFor
    <2>2. \A s \in SmSlots : \E m \in Node \ {n} : smSlotOf[m] = s /\ m[1] = layer
      <3> SUFFICES ASSUME NEW s \in SmSlots
                   PROVE  \E m \in Node \ {n} : smSlotOf[m] = s /\ m[1] = layer
        OBVIOUS
      <3>1. PICK m \in Node : smSlotOf[m] = s
        BY <2>1 DEF FreeSm, Owned
      <3>2. m # n /\ m \in locked
        BY <1>1, <2>1, <3>1 DEF Unprotected
      <3> QED BY <1>2, <3>1, <3>2
    <2> QED BY <1>0, <1>1, <1>2, <2>2, RoomForLayer
  <1>6. DockFor(n) # {}
    BY <1>2, <1>3 DEF DockFor
  <1> QED BY <1>4, <1>5, <1>6 DEF ToWorkersFails

\* The fetch thread gives back a sign-mantissa slot only if the node has one.
LEMMA FetchNeverFails ==
  ASSUME RequestInv, RegionInv, NEW n \in Node, Fetch(n)
  PROVE  fault' = fault
  <1>1. place[n] = "ready"
    BY HeadIsReady DEF Fetch, RequestInv, QueueInv, TypeInv, TypeOK
  <1>2. task[n].state \in {"NORMAL", "PREFETCH"} => smPtr[n] = smSlotOf[n]
    BY <1>1 DEF RegionInv, InPlace, Loading, Cached, Settled
  <1> QED BY <1>2 DEF Fetch

\* Serving never aborts and never throws when both pools have room for a layer:
\* RegisterDockForNode finds a dock, the policies a victim whose mutex is free,
\* and OutputFunc and the fetch thread never evict a slot that is not there.
THEOREM NoFaults ==
  ASSUME PrefetchTopK = 0,
         NumExperts <= Cardinality(GpuSlots), NumExperts <= Cardinality(SmSlots)
  PROVE  Spec => []NeverFaults
  <1>1. Init => NeverFaults
    BY DEF Init, NeverFaults
  <1>2. RequestInv /\ RegionInv /\ DemandInv /\ NeverEvicts /\ NeverFaults /\ [Next]_vars
          => NeverFaults'
    <2> SUFFICES ASSUME RequestInv, RegionInv, DemandInv, NeverEvicts, NeverFaults, [Next]_vars
                 PROVE  NeverFaults'
      OBVIOUS
    <2>1. CASE fault' = fault
      BY <2>1 DEF NeverFaults
    <2>2. \A n \in Node : ~SubmitFails(n)
      BY ToWorkersNeverFails DEF SubmitFails, Eligible, InType
    <2>3. \A n \in Node : ~OutputEvictFails(n)
      BY DEF OutputEvictFails, NeverEvicts
    <2>4. ~Prefetch
      BY DEF DemandInv, Prefetch, SubmitPrefetchReady, SubmitPrefetchFetch,
             SubmitPrefetchFails, Prefetches
    <2>5. Main => fault' = fault
      BY <2>2 DEF Main, EnqueueHit, EnqueueNew, EnqueueDecide, OpsSchedule, Submit,
                  SubmitDone, ToWorkers
    <2>6. Workers \/ FetchThread \/ ExecThread \/ OutputThread => fault' = fault
      BY <2>3, FetchNeverFails
         DEF Workers, FetchThread, ExecThread, OutputThread, OpDone, StrayDone, Exec,
             OutputRelease, OutputPush, OutputSignal
    <2>7. \A A : StartLayer(A) \/ WaitReturn(A) => fault' = fault
      BY DEF StartLayer, WaitReturn
    <2>8. UNCHANGED vars => fault' = fault
      BY DEF vars
    <2> QED BY <2>1, <2>4, <2>5, <2>6, <2>7, <2>8 DEF Next
  <1>3. RequestInv /\ DemandInv /\ [Next]_vars => DemandInv'
    BY StepDemandInv
  <1>4. Spec => []NeverEvicts
    BY NoEvictions
  <1> QED BY <1>1, <1>2, <1>3, <1>4, InitDemandInv, InitRegionInv, StepRegionInv,
             InitRequestInv, StepRequestInv, RegionsExclusive, PTL DEF Spec

-----------------------------------------------------------------------------
(* What the regions hold.                                                  *)

\* The sign-mantissa planes of node n: in its slot, or in its dock.
SmPlane(n, o) == IF smSlotOf[n] = Null THEN dockIn[dockOf[n]][o] ELSE smIn[smSlotOf[n]][o]

\* The operations of n that have ended left its bytes in its own regions.
Loaded(n) ==
  /\ \A o \in ExpOps : o \notin ops[n] => dockIn[dockOf[n]][o] = n
  /\ \A o \in SmOps : o \notin ops[n] => SmPlane(n, o) = n

Own(n) ==
  /\ smPtr[n] # Null => smPtr[n] = smSlotOf[n] /\ \A o \in SmOps : smIn[smPtr[n]][o] = n
  /\ onGpu[n] => /\ memPtr[n] # Null /\ memPtr[n] \in {gpuSlotOf[n], dockOf[n]}
                 /\ tensor[memPtr[n]] = n
  /\ place[n] \in {"scheduled", "ready"} /\ ~onGpu[n] => Loaded(n)

WeightInv == \A n \in Node : Own(n)

LEMMA InitWeightInv == Init => WeightInv
  BY DEF Init, WeightInv, Own

\* A step that leaves the regions of n alone, and what is in them.
Untouched(n) ==
  /\ onGpu'[n] = onGpu[n] /\ memPtr'[n] = memPtr[n] /\ smPtr'[n] = smPtr[n]
  /\ dockOf'[n] = dockOf[n] /\ gpuSlotOf'[n] = gpuSlotOf[n] /\ smSlotOf'[n] = smSlotOf[n]
  /\ ops'[n] = ops[n]
  /\ place'[n] \in {"scheduled", "ready"} /\ ~onGpu[n] => place[n] \in {"scheduled", "ready"}
  /\ dockOf[n] # Null => dockIn'[dockOf[n]] = dockIn[dockOf[n]]
  /\ smSlotOf[n] # Null => smIn'[smSlotOf[n]] = smIn[smSlotOf[n]]
  /\ onGpu[n] => tensor'[memPtr[n]] = tensor[memPtr[n]]

LEMMA UntouchedOwn ==
  ASSUME RegionInv, NEW n \in Node, Own(n), Untouched(n)
  PROVE  Own(n)'
  <1>1. place[n] \in {"scheduled", "ready"} /\ ~onGpu[n] => dockOf[n] # Null
    BY DEF RegionInv, InPlace, Loading, Cached
  <1> QED BY <1>1 DEF Own, Loaded, SmPlane, Untouched

\* Another node's regions are other regions.
LEMMA OtherRegions ==
  ASSUME OneOwner, OwnerType, NEW n \in Node, NEW m \in Node \ {n}
  PROVE  /\ dockOf[n] # Null => dockOf[m] # dockOf[n] /\ gpuSlotOf[m] # dockOf[n]
         /\ smSlotOf[n] # Null => smSlotOf[m] # smSlotOf[n]
         /\ gpuSlotOf[n] # Null => gpuSlotOf[m] # gpuSlotOf[n] /\ dockOf[m] # gpuSlotOf[n]
  <1>1. GpuSlots \cap Docks = {} /\ Null \notin GpuSlots \cup Docks
    BY PipelineAssumption DEF PipelineAssumption
  <1> QED BY <1>1 DEF OneOwner, Exclusive, OwnerType

\* An operation writes into the regions of its own node.
LEMMA OpDoneOwn ==
  ASSUME TypeInv, OneOwner, RegionInv, OpsInv, WeightInv,
         NEW n \in Node, NEW o \in Ops, OpDone(n, o), NEW m \in Node
  PROVE  Own(m)'
  <1>0. TaskType /\ OwnerType /\ DataType
    BY DEF TypeInv, TypeOK
  <1>1. o \in ops[n] /\ place[n] = "scheduled" /\ Loading(n) /\ ~onGpu[n] /\ Loaded(n)
    BY DEF OpDone, OpsInv, OpsFollow, RegionInv, InPlace, Loading, WeightInv, Own
  <1> DEFINE d == dockOf[n]
             s == smSlotOf[n]
  <1>2. /\ task[n].exp = d /\ d \in Docks /\ d # Null
        /\ task[n].sm = IF s = Null THEN d ELSE s
        /\ d \in Owned(dockOf)
        /\ GpuSlots \cap Docks = {} /\ SmSlots \cap Docks = {} /\ ExpOps \cap SmOps = {}
    BY <1>0, <1>1, PipelineAssumption
       DEF PipelineAssumption, Loading, OwnerType, Owned
  <1>3. /\ UNCHANGED <<onGpu, memPtr, smPtr, dockOf, gpuSlotOf, smSlotOf, tensor>>
        /\ ops' = [ops EXCEPT ![n] = @ \ {o}]
        /\ place' = place \/ place' = [place EXCEPT ![n] = "ready"]
    BY DEF OpDone, nodeVars, ownerVars
  <1>4. \/ /\ o \in ExpOps \/ s = Null
           /\ dockIn' = [dockIn EXCEPT ![d][o] = n] /\ smIn' = smIn
        \/ /\ o \in SmOps /\ s # Null
           /\ smIn' = [smIn EXCEPT ![s][o] = n] /\ dockIn' = dockIn
    <2>1. s # Null => s \in SmSlots /\ s \notin Docks
      BY <1>0, <1>2 DEF OwnerType
    <2>2. CASE o \in ExpOps
      BY <1>2, <2>2 DEF OpDone, LandInDock
    <2>3. CASE o \in SmOps /\ s = Null
      BY <1>2, <2>3 DEF OpDone, LandInDock
    <2>4. CASE o \in SmOps /\ s # Null
      BY <1>2, <2>1, <2>4 DEF OpDone
    <2> QED BY <2>2, <2>3, <2>4 DEF Ops
  <1>5. CASE m # n
    <2>1. ops'[m] = ops[m] /\ place'[m] = place[m]
      BY <1>0, <1>3, <1>5 DEF TaskType
    <2>2. dockOf[m] # Null => dockIn'[dockOf[m]] = dockIn[dockOf[m]]
      BY <1>0, <1>2, <1>4, <1>5, OtherRegions DEF DataType, OwnerType
    <2>3. smSlotOf[m] # Null => smIn'[smSlotOf[m]] = smIn[smSlotOf[m]]
      BY <1>0, <1>4, <1>5, OtherRegions DEF DataType, OwnerType
    <2>4. Untouched(m)
      BY <1>3, <2>1, <2>2, <2>3 DEF Untouched
    <2> QED BY <2>4, UntouchedOwn DEF WeightInv
  <1>6. CASE m = n
    <2>1. ops'[n] = ops[n] \ {o} /\ dockOf'[n] = d /\ smSlotOf'[n] = s
      BY <1>0, <1>3 DEF TaskType
    <2>2. \A p \in Ops : dockIn'[d][p] = IF (o \in ExpOps \/ s = Null) /\ p = o THEN n ELSE dockIn[d][p]
      BY <1>0, <1>2, <1>4 DEF DataType
    <2>3. s # Null => \A p \in SmOps : smIn'[s][p] = IF p = o THEN n ELSE smIn[s][p]
      <3>1. s # Null => s \in SmSlots
        BY <1>0 DEF OwnerType
      <3> QED BY <1>0, <1>2, <1>4, <3>1 DEF DataType
    <2>4. Loaded(n)'
      BY <1>1, <1>2, <2>1, <2>2, <2>3 DEF Loaded, SmPlane, Ops
    <2>5. smPtr'[n] # Null => smPtr'[n] = s /\ \A p \in SmOps : smIn'[s][p] = n
      BY <1>3, <2>3 DEF WeightInv, Own
    <2> QED BY <1>1, <1>3, <1>6, <2>1, <2>4, <2>5 DEF Own
  <1> QED BY <1>5, <1>6

\* ToWorkers empties the regions it takes, and tells whom it takes them from.
LEMMA ToWorkersOwn ==
  ASSUME QueueInv, OneOwner, RegionInv, WeightInv,
         NEW n \in Node, NEW t \in Task, NEW p, ToWorkers(n, t, p),
         Settled(n), ~onGpu[n], NEW m \in Node
  PROVE  Own(m)'
  <1>0. TypeInv /\ TaskType /\ NodeType /\ OwnerType /\ DataType /\ LockInv
    BY DEF QueueInv, TypeInv, TypeOK
  <1>1. PICK d \in DockFor(n) :
          /\ dockOf' = [dockOf EXCEPT ![n] = d]
          /\ TakeGpuSlot(n, t, d) \/ TakeSmSlot(n, t, d) \/ TakeNoSlot(n, t, d)
    BY DEF ToWorkers
  <1>2. /\ place' = [place EXCEPT ![n] = "scheduled"] /\ dockIn' = dockIn
        /\ ops' = [ops EXCEPT ![n] = ExpOps \cup (IF smPtr[n] = Null THEN SmOps ELSE {})]
        /\ GpuSlots \cap Docks = {} /\ Null \notin GpuSlots /\ Null \notin SmSlots
    BY PipelineAssumption DEF ToWorkers, PipelineAssumption
  <1>3. CASE m = n
    <2>1. Loading(n)' /\ place'[n] = "scheduled"
      BY <1>0, ToWorkersLoads
    <2>2. /\ smPtr'[n] = smPtr[n]
          /\ smPtr[n] # Null => smSlotOf'[n] = smPtr[n] /\ smIn'[smPtr[n]] = smIn[smPtr[n]]
      <3>1. smPtr[n] = smSlotOf[n]
        BY DEF Settled
      <3>2. CASE TakeGpuSlot(n, t, d) \/ TakeNoSlot(n, t, d)
        BY <3>1, <3>2 DEF TakeGpuSlot, TakeNoSlot
      <3>3. CASE TakeSmSlot(n, t, d)
        <4>1. PICK s \in SmSlots :
                /\ s \in SmSlotFor(n)
                /\ smSlotOf' = Grant(smSlotOf, n, s)
                /\ smPtr' = [k \in Node |->
                               IF Victim(smSlotOf, n, s, k) THEN Null ELSE smPtr[k]]
                /\ smIn' = [smIn EXCEPT ![s] = IF smSlotOf[n] = s THEN @ ELSE EmptySm]
          BY <1>0, <3>3, SlotsInPool DEF TakeSmSlot
        <4>2. smPtr[n] # Null => smSlotOf[n] = s
          BY <3>1, <4>1 DEF SmSlotFor
        <4> QED BY <1>0, <3>1, <4>1, <4>2 DEF Grant, Victim, DataType
      <3> QED BY <1>1, <3>2, <3>3
    <2>3. ops'[n] = ExpOps \cup (IF smPtr[n] = Null THEN SmOps ELSE {})
      BY <1>0, <1>2 DEF TaskType
    <2>4. smPtr[n] # Null => \A o \in SmOps : smIn'[smPtr[n]][o] = n
      BY <2>2 DEF WeightInv, Own
    <2>5. Loaded(n)'
      BY <2>2, <2>3, <2>4 DEF Loaded, SmPlane
    <2>6. ~onGpu'[n]
      BY <2>1 DEF Loading
    <2> QED BY <1>3, <2>2, <2>4, <2>5, <2>6 DEF Own
  <1>4. CASE m # n
    <2>1. /\ place'[m] = place[m] /\ ops'[m] = ops[m] /\ dockOf'[m] = dockOf[m]
      BY <1>0, <1>1, <1>2, <1>4 DEF TaskType, OwnerType
    <2>2. Own(m)
      BY DEF WeightInv
    <2>3. CASE TakeGpuSlot(n, t, d)
      <3>1. PICK s \in GpuSlots :
              /\ gpuSlotOf' = Grant(gpuSlotOf, n, s)
              /\ onGpu' = [k \in Node |-> ~Victim(gpuSlotOf, n, s, k) /\ onGpu[k]]
              /\ memPtr' = [k \in Node |->
                              IF Victim(gpuSlotOf, n, s, k) THEN Null ELSE memPtr[k]]
              /\ tensor' = [tensor EXCEPT ![s] = IF gpuSlotOf[n] = s THEN @ ELSE Null]
        BY <1>0, <2>3, SlotsInPool DEF TakeGpuSlot
      <3>2. UNCHANGED <<smSlotOf, smPtr, smIn>>
        BY <2>3 DEF TakeGpuSlot
      <3>3. CASE gpuSlotOf[m] = s
        <4>1. ~onGpu'[m] /\ m \notin locked
          <5>1. gpuSlotOf'[m] # gpuSlotOf[m] /\ ~onGpu'[m] /\ gpuSlotOf[m] # Null
            BY <1>2, <1>4, <3>1, <3>3 DEF Grant, Victim
          <5> QED BY <1>0, <5>1, ToWorkersSparesHeld
        <4>2. place[m] \notin {"scheduled", "ready"}
          BY <1>0, <4>1 DEF LockInv, Active
        <4> QED BY <2>1, <2>2, <3>2, <4>1, <4>2 DEF Own
      <3>4. CASE gpuSlotOf[m] # s
        <4>1. /\ gpuSlotOf'[m] = gpuSlotOf[m] /\ onGpu'[m] = onGpu[m] /\ memPtr'[m] = memPtr[m]
          BY <1>0, <1>4, <3>1, <3>4 DEF Grant, Victim, NodeType
        <4>2. onGpu[m] => /\ memPtr[m] # s /\ memPtr[m] \in GpuSlots \cup Docks
                          /\ tensor'[memPtr[m]] = tensor[memPtr[m]]
          <5>1. onGpu[m] => memPtr[m] # s /\ memPtr[m] \in GpuSlots \cup Docks
            BY <1>0, <1>2, <2>2, <3>4 DEF Own, OwnerType
          <5>2. ASSUME NEW r \in GpuSlots \cup Docks, r # s PROVE tensor'[r] = tensor[r]
            BY <1>0, <3>1, <5>2 DEF DataType
          <5> QED BY <5>1, <5>2
        <4> QED BY <1>2, <2>1, <2>2, <3>2, <4>1, <4>2 DEF Own, Loaded, SmPlane
      <3> QED BY <3>3, <3>4
    <2>4. CASE TakeSmSlot(n, t, d)
      <3>1. PICK s \in SmSlots :
              /\ smSlotOf' = Grant(smSlotOf, n, s)
              /\ smPtr' = [k \in Node |->
                             IF Victim(smSlotOf, n, s, k) THEN Null ELSE smPtr[k]]
              /\ smIn' = [smIn EXCEPT ![s] = IF smSlotOf[n] = s THEN @ ELSE EmptySm]
        BY <1>0, <2>4, SlotsInPool DEF TakeSmSlot
      <3>2. UNCHANGED <<gpuSlotOf, onGpu, memPtr, tensor>>
        BY <2>4 DEF TakeSmSlot
      <3>3. CASE smSlotOf[m] = s
        <4>1. smPtr'[m] = Null /\ m \notin locked
          <5>1. smSlotOf'[m] # smSlotOf[m] /\ smPtr'[m] = Null /\ smSlotOf[m] # Null
            BY <1>2, <1>4, <3>1, <3>3 DEF Grant, Victim
          <5> QED BY <1>0, <5>1, ToWorkersSparesHeld
        <4>2. place[m] \notin {"scheduled", "ready"}
          BY <1>0, <4>1 DEF LockInv, Active
        <4> QED BY <2>1, <2>2, <3>2, <4>1, <4>2 DEF Own
      <3>4. CASE smSlotOf[m] # s
        <4>1. smSlotOf'[m] = smSlotOf[m] /\ smPtr'[m] = smPtr[m]
          BY <1>4, <3>1, <3>4 DEF Grant, Victim
        <4>2. smSlotOf[m] # Null => smIn'[smSlotOf[m]] = smIn[smSlotOf[m]]
          BY <1>0, <3>1, <3>4 DEF OwnerType, DataType
        <4> QED BY <1>2, <2>1, <2>2, <3>2, <4>1, <4>2 DEF Own, Loaded, SmPlane
      <3> QED BY <3>3, <3>4
    <2>5. CASE TakeNoSlot(n, t, d)
      BY <1>2, <2>1, <2>2, <2>5 DEF TakeNoSlot, Own, Loaded, SmPlane
    <2> QED BY <1>1, <2>3, <2>4, <2>5
  <1> QED BY <1>3, <1>4

\* The fetch thread recovers a node from its own planes.
LEMMA FetchOwn ==
  ASSUME RequestInv, OneOwner, RegionInv, DemandInv, OpsInv, WeightInv,
         NEW n \in Node, Fetch(n), NEW m \in Node
  PROVE  Own(m)'
  <1>0. TaskType /\ NodeType /\ OwnerType /\ DataType /\ ReadyInv
    BY DEF RequestInv, QueueInv, TypeInv, TypeOK
  <1> DEFINE t  == task[n]
             sm == IF t.state = "SMCACHE" THEN t.sm ELSE smPtr[n]
             dropsSm == sm # Null /\ t.state \in {"NORMAL", "PREFETCH"}
  <1>1. /\ place[n] = "ready" /\ t.state # "PREFETCH" /\ t.state \in TaskState
        /\ ops[n] = {} /\ Own(n)
        /\ Loading(n) \/ Cached(n)
    <2>1. place[n] = "ready"
      BY <1>0, HeadIsReady DEF Fetch
    <2> QED BY <1>0, <2>1, HeldIsAsked
            DEF Active, TaskType, Task, OpsInv, OpsFollow, RegionInv, InPlace, WeightInv
  <1>2. /\ onGpu' = [onGpu EXCEPT ![n] = TRUE]
        /\ memPtr' = IF Recovers(n) THEN [memPtr EXCEPT ![n] = t.tensor] ELSE memPtr
        /\ tensor' = IF Recovers(n) THEN [tensor EXCEPT ![t.tensor] = Recovered(n)] ELSE tensor
        /\ smPtr' = [smPtr EXCEPT ![n] = IF dropsSm THEN Null ELSE sm]
        /\ smSlotOf' = IF dropsSm THEN [smSlotOf EXCEPT ![n] = Null] ELSE smSlotOf
        /\ smIn' = IF dropsSm /\ smSlotOf[n] # Null
                   THEN [smIn EXCEPT ![smSlotOf[n]] = EmptySm] ELSE smIn
        /\ place' = [place EXCEPT ![n] = "exec"]
        /\ UNCHANGED <<dockOf, dockIn, gpuSlotOf, ops>>
    BY <1>1 DEF Fetch
  <1>3. /\ GpuSlots \cap Docks = {} /\ SmSlots \cap Docks = {}
        /\ Null \notin GpuSlots \cup SmSlots \cup Docks
    BY PipelineAssumption DEF PipelineAssumption
  <1>4. ASSUME Loading(n)
        PROVE  /\ Recovers(n) /\ Recovered(n) = n
               /\ t.tensor \in {gpuSlotOf[n], dockOf[n]} /\ t.tensor # Null
    <2>1. /\ ~onGpu[n] /\ memPtr[n] = Null /\ t.exp = dockOf[n] /\ dockOf[n] \in Docks
          /\ t.sm = IF smSlotOf[n] = Null THEN dockOf[n] ELSE smSlotOf[n]
          /\ t.tensor \in {gpuSlotOf[n], dockOf[n]} /\ t.tensor # Null
      BY <1>0, <1>1, <1>4 DEF Loading, OwnerType, TaskState
    <2>2. smSlotOf[n] # Null => smSlotOf[n] \notin Docks
      BY <1>0, <1>3 DEF OwnerType
    <2>3. Loaded(n)
      BY <1>1, <2>1 DEF Own
    <2>4. /\ \A o \in ExpOps : dockIn[t.exp][o] = n
          /\ \A o \in SmOps : SmPlane(n, o) = n
      BY <1>1, <2>1, <2>3 DEF Loaded
    <2>5. Recovered(n) = n
      <3>1. CASE smSlotOf[n] = Null
        BY <2>1, <2>4, <3>1 DEF Recovered, SmPlane
      <3>2. CASE smSlotOf[n] # Null
        BY <2>1, <2>2, <2>4, <3>2 DEF Recovered, SmPlane
      <3> QED BY <3>1, <3>2
    <2> QED BY <2>1, <2>5 DEF Recovers
  <1>5. Cached(n) => ~Recovers(n)
    BY DEF Cached, Recovers
  <1>6. CASE m # n
    <2>1. /\ onGpu'[m] = onGpu[m] /\ memPtr'[m] = memPtr[m] /\ smPtr'[m] = smPtr[m]
          /\ dockOf'[m] = dockOf[m] /\ gpuSlotOf'[m] = gpuSlotOf[m]
          /\ smSlotOf'[m] = smSlotOf[m] /\ ops'[m] = ops[m] /\ place'[m] = place[m]
      BY <1>0, <1>2, <1>6 DEF TaskType, NodeType, OwnerType
    <2>2. smSlotOf[m] # Null => smIn'[smSlotOf[m]] = smIn[smSlotOf[m]]
      BY <1>0, <1>2, <1>6, OtherRegions DEF OwnerType, DataType
    <2>3. onGpu[m] => tensor'[memPtr[m]] = tensor[memPtr[m]]
      <3>1. onGpu[m] => /\ memPtr[m] # Null /\ memPtr[m] \in {gpuSlotOf[m], dockOf[m]}
                        /\ memPtr[m] \in GpuSlots \cup Docks
        BY <1>0 DEF WeightInv, Own, OwnerType
      <3>2. Recovers(n) /\ onGpu[m] => memPtr[m] # t.tensor
        BY <1>0, <1>1, <1>4, <1>5, <1>6, <3>1, OtherRegions
      <3>3. ASSUME NEW r \in GpuSlots \cup Docks, Recovers(n) => r # t.tensor
            PROVE  tensor'[r] = tensor[r]
        BY <1>0, <1>2, <3>3 DEF DataType
      <3> QED BY <3>1, <3>2, <3>3
    <2>4. Untouched(m)
      BY <1>2, <2>1, <2>2, <2>3 DEF Untouched
    <2> QED BY <2>4, UntouchedOwn DEF WeightInv
  <1>7. CASE m = n
    <2>1. /\ onGpu'[n] = TRUE /\ gpuSlotOf'[n] = gpuSlotOf[n] /\ dockOf'[n] = dockOf[n]
          /\ memPtr'[n] = IF Recovers(n) THEN t.tensor ELSE memPtr[n]
          /\ smPtr'[n] = IF dropsSm THEN Null ELSE sm
          /\ smSlotOf'[n] = IF dropsSm THEN Null ELSE smSlotOf[n]
          /\ ~dropsSm => smIn' = smIn
          /\ place'[n] = "exec"
      BY <1>0, <1>2 DEF TaskType, NodeType, OwnerType
    <2>2. /\ memPtr'[n] # Null /\ memPtr'[n] \in {gpuSlotOf[n], dockOf[n]}
          /\ tensor'[memPtr'[n]] = n
      <3>1. CASE Loading(n)
        <4>1. t.tensor \in GpuSlots \cup Docks
          BY <1>0, <1>4, <3>1 DEF OwnerType
        <4>2. tensor'[t.tensor] = n
          BY <1>0, <1>2, <1>4, <3>1, <4>1 DEF DataType
        <4> QED BY <1>4, <2>1, <3>1, <4>2
      <3>2. CASE Cached(n)
        BY <1>1, <1>2, <1>5, <2>1, <3>2 DEF Own, Cached
      <3> QED BY <1>1, <3>1, <3>2
    <2>3. smPtr'[n] # Null => /\ smPtr'[n] = smSlotOf'[n]
                              /\ \A o \in SmOps : smIn'[smPtr'[n]][o] = n
      <3>1. CASE t.state = "SMCACHE"
        <4>1. Loading(n) /\ t.sm = smSlotOf[n] /\ smSlotOf[n] # Null
          BY <1>1, <3>1 DEF Cached, Loading
        <4>2. ~onGpu[n] /\ Loaded(n)
          BY <1>1, <4>1 DEF Own, Loading
        <4>3. \A o \in SmOps : smIn[smSlotOf[n]][o] = n
          BY <1>1, <4>1, <4>2 DEF Loaded, SmPlane
        <4> QED BY <2>1, <3>1, <4>1, <4>3
      <3>2. CASE t.state # "SMCACHE"
        BY <1>1, <2>1, <3>2 DEF Own
      <3> QED BY <3>1, <3>2
    <2> QED BY <1>7, <2>1, <2>2, <2>3 DEF Own
  <1> QED BY <1>6, <1>7

\* The dock that OutputFunc empties is the node's own, and no longer in use.
LEMMA ReleaseOwn ==
  ASSUME RequestInv, OneOwner, RegionInv, WeightInv,
         NEW n \in Node, OutputRelease(n), NEW m \in Node
  PROVE  Own(m)'
  <1>0. TaskType /\ NodeType /\ OwnerType /\ DataType /\ AskedInv
    BY DEF RequestInv, QueueInv, TypeInv, TypeOK
  <1> DEFINE d == dockOf[n]
  <1>1. /\ place[n] = "output" /\ task[n].state # "EVICT"
        /\ place' = [place EXCEPT ![n] = "released"]
        /\ onGpu' = [onGpu EXCEPT ![n] = @ /\ task[n].state # "SMCACHE"]
        /\ memPtr' = [memPtr EXCEPT ![n] = IF task[n].state = "SMCACHE" THEN Null ELSE @]
        /\ dockOf' = [dockOf EXCEPT ![n] = Null]
        /\ dockIn' = IF d = Null THEN dockIn ELSE [dockIn EXCEPT ![d] = EmptyDock]
        /\ tensor' = IF d = Null THEN tensor ELSE [tensor EXCEPT ![d] = Null]
        /\ UNCHANGED <<smPtr, gpuSlotOf, smSlotOf, smIn, ops>>
    BY DEF OutputRelease, DockReleased
  <1>2. GpuSlots \cap Docks = {} /\ Null \notin GpuSlots \cup Docks
    BY PipelineAssumption DEF PipelineAssumption
  <1>3. ASSUME NEW r \in GpuSlots \cup Docks, r # d PROVE tensor'[r] = tensor[r]
    BY <1>0, <1>1, <1>3 DEF DataType
  <1>4. CASE m # n
    <2>1. /\ onGpu'[m] = onGpu[m] /\ memPtr'[m] = memPtr[m] /\ smPtr'[m] = smPtr[m]
          /\ dockOf'[m] = dockOf[m] /\ gpuSlotOf'[m] = gpuSlotOf[m]
          /\ smSlotOf'[m] = smSlotOf[m] /\ ops'[m] = ops[m] /\ place'[m] = place[m]
      BY <1>0, <1>1, <1>4 DEF TaskType, NodeType, OwnerType
    <2>2. d # Null => dockOf[m] # d /\ gpuSlotOf[m] # d
      BY <1>0, <1>4, OtherRegions
    <2>3. dockOf[m] # Null => dockIn'[dockOf[m]] = dockIn[dockOf[m]]
      BY <1>0, <1>1, <2>2 DEF OwnerType, DataType
    <2>4. onGpu[m] => tensor'[memPtr[m]] = tensor[memPtr[m]]
      <3>1. onGpu[m] => memPtr[m] \in GpuSlots \cup Docks /\ memPtr[m] # d
        BY <1>0, <2>2 DEF WeightInv, Own, OwnerType
      <3> QED BY <1>3, <3>1
    <2>5. Untouched(m)
      BY <1>1, <2>1, <2>3, <2>4 DEF Untouched
    <2> QED BY <2>5, UntouchedOwn DEF WeightInv
  <1>5. CASE m = n
    <2>1. /\ onGpu'[n] = (onGpu[n] /\ task[n].state # "SMCACHE")
          /\ memPtr'[n] = IF task[n].state = "SMCACHE" THEN Null ELSE memPtr[n]
          /\ place'[n] = "released" /\ dockOf'[n] = Null
      BY <1>0, <1>1 DEF TaskType, NodeType, OwnerType
    <2>2. task[n].state \in {"NORMAL", "SMCACHE"}
      <3>1. task[n].hit /\ task[n].state # "PREFETCH" /\ task[n] \in Task
        BY <1>0, <1>1 DEF AskedInv, Active, TaskType
      <3> QED BY <1>1, <3>1 DEF Task, TaskState
    <2>3. onGpu'[n] => /\ memPtr'[n] = gpuSlotOf[n] /\ gpuSlotOf[n] # Null
                       /\ tensor'[memPtr'[n]] = n
      <3> SUFFICES ASSUME onGpu'[n]
                   PROVE  /\ memPtr'[n] = gpuSlotOf[n] /\ gpuSlotOf[n] # Null
                          /\ tensor'[memPtr'[n]] = n
        OBVIOUS
      <3>1. /\ onGpu[n] /\ task[n].state = "NORMAL" /\ memPtr'[n] = memPtr[n]
        BY <2>1, <2>2
      <3>2. memPtr[n] = gpuSlotOf[n] /\ gpuSlotOf[n] # Null /\ tensor[memPtr[n]] = n
        BY <1>1, <3>1 DEF RegionInv, InPlace, InUse, WeightInv, Own
      <3>3. gpuSlotOf[n] \in GpuSlots /\ gpuSlotOf[n] # d
        BY <1>0, <1>2, <3>2 DEF OwnerType
      <3> QED BY <1>3, <3>1, <3>2, <3>3
    <2> QED BY <1>1, <1>5, <2>1, <2>3 DEF WeightInv, Own
  <1> QED BY <1>4, <1>5

\* Every step leaves the bytes of a node in the regions of the node.
LEMMA StepWeightInv ==
  ASSUME RequestInv, OneOwner, RegionInv, DemandInv, OpsInv, WeightInv, [Next]_vars
  PROVE  WeightInv'
  <1> SUFFICES ASSUME NEW m \in Node PROVE Own(m)'
    BY DEF WeightInv
  <1>0. /\ QueueInv /\ TypeInv /\ TaskType /\ MainType /\ NodeType /\ OwnerType /\ DataType
        /\ LockInv /\ Own(m)
    BY DEF RequestInv, QueueInv, TypeInv, TypeOK, WeightInv
  \* Steps that move tasks and leave the memory alone.
  <1>1. ASSUME UNCHANGED <<ops, onGpu, memPtr, smPtr, ownerVars, dataVars>>,
               place'[m] \in {"scheduled", "ready"} /\ ~onGpu[m] =>
                 place[m] \in {"scheduled", "ready"}
        PROVE  Own(m)'
    BY <1>0, <1>1, UntouchedOwn DEF Untouched, ownerVars, dataVars
  <1>2. ASSUME NEW e \in Experts, EnqueueHit(e) \/ EnqueueNew(e) PROVE Own(m)'
    <2>1. PICK n \in Node : n = <<layer, e>>
      BY <1>0 DEF Node, MainType
    <2>2. /\ UNCHANGED <<ops, onGpu, memPtr, smPtr, ownerVars, dataVars>>
          /\ \/ place' = place
             \/ place' = [place EXCEPT ![n] = IF onGpu[n] THEN "ready" ELSE "new"]
      BY <1>2, <2>1 DEF EnqueueHit, EnqueueNew, nodeVars
    <2>3. place'[m] = place[m] \/ onGpu[m] \/ place'[m] = "new"
      BY <1>0, <2>2 DEF TaskType
    <2> QED BY <1>1, <2>2, <2>3
  <1>3. ASSUME NEW S, OpsSchedule(S) PROVE Own(m)'
    <2>1. Stale = {}
      BY HeldIsAsked
    <2>2. /\ UNCHANGED <<smPtr, smSlotOf, smIn, tensor>>
          /\ ops'[m] = ops[m] /\ dockOf'[m] = dockOf[m] /\ gpuSlotOf'[m] = gpuSlotOf[m]
          /\ onGpu'[m] = onGpu[m] /\ memPtr'[m] = memPtr[m]
          /\ dockIn' = [d \in Docks |-> dockIn[d]]
          /\ place'[m] \in {"scheduled", "ready"} => place[m] \in {"scheduled", "ready"}
      BY <1>3, <2>1 DEF OpsSchedule, Discarded
    <2>3. dockIn' = dockIn
      BY <1>0, <2>2 DEF DataType
    <2> QED BY <1>0, <2>2, <2>3, UntouchedOwn DEF Untouched
  <1>4. ASSUME NEW n \in Node, NEW b, Submit(n, b) PROVE Own(m)'
    <2>1. place[n] \in {"typeI", "typeII"} /\ task[n] \in Task /\ ToWorkers(n, task[n], pend[n])
      BY <1>0, <1>4 DEF Submit, Eligible, InType, TaskType
    <2>2. Settled(n) /\ ~onGpu[n]
      BY <2>1 DEF RegionInv, InPlace
    <2> QED BY <1>0, <2>1, <2>2, ToWorkersOwn
  <1>5. ASSUME NEW n \in Node, Exec(n) \/ OutputPush(n) \/ OutputSignal(n) PROVE Own(m)'
    <2>1. /\ UNCHANGED <<ops, onGpu, memPtr, smPtr, ownerVars, dataVars>>
          /\ \E v \in {"output", "pushed", "none"} : place' = [place EXCEPT ![n] = v]
      BY <1>5 DEF Exec, OutputPush, OutputSignal, nodeVars
    <2>2. place'[m] = place[m] \/ place'[m] \notin {"scheduled", "ready"}
      BY <1>0, <2>1 DEF TaskType
    <2> QED BY <1>1, <2>1, <2>2
  <1>6. CASE Main
    <2>1. ASSUME NEW n \in Node, SubmitFails(n) PROVE Own(m)'
      BY <1>1, <2>1 DEF SubmitFails, taskVars, nodeVars
    <2>2. ASSUME NEW c, EnqueueDecide(c) \/ SubmitDone PROVE Own(m)'
      BY <1>1, <2>2 DEF EnqueueDecide, SubmitDone, taskVars, nodeVars
    <2> QED BY <1>2, <1>3, <1>4, <1>6, <2>1, <2>2 DEF Main, BlockEnds
  <1>7. CASE Prefetch \/ Workers
    <2>1. ~Prefetch
      BY DEF DemandInv, Prefetch, SubmitPrefetchReady, SubmitPrefetchFetch,
             SubmitPrefetchFails, Prefetches
    <2>2. \A w \in stray : ~StrayDone(w)
      BY DEF DemandInv
    <2> QED BY <1>0, <1>7, <2>1, <2>2, OpDoneOwn DEF Workers
  <1>8. CASE FetchThread \/ ExecThread \/ OutputThread
    <2>1. ASSUME NEW n \in Node, OutputEvictFails(n) PROVE Own(m)'
      BY <1>1, <2>1 DEF OutputEvictFails, taskVars, nodeVars
    <2> QED BY <1>5, <1>8, <2>1, FetchOwn, ReleaseOwn DEF FetchThread, ExecThread, OutputThread
  <1>9. ASSUME NEW A, StartLayer(A) \/ WaitReturn(A) PROVE Own(m)'
    BY <1>1, <1>9 DEF StartLayer, WaitReturn, taskVars, nodeVars
  <1>10. CASE UNCHANGED vars
    BY <1>1, <1>10 DEF vars, taskVars, nodeVars
  <1> QED BY <1>6, <1>7, <1>8, <1>9, <1>10 DEF Next

\* Without prefetch every expert runs on its own weights: the tensor of a node
\* on the GPU was recovered from its own bytes, and its sign-mantissa slot holds
\* its own planes, whatever is evicted in between and however operations end.
THEOREM OwnWeights ==
  ASSUME PrefetchTopK = 0
  PROVE  Spec => []CachedWeightsAreOwn
  <1>1. WeightInv => CachedWeightsAreOwn
    BY DEF WeightInv, Own, CachedWeightsAreOwn
  <1>2. RequestInv /\ OneOwner /\ RegionInv /\ DemandInv /\ OpsInv /\ WeightInv /\ [Next]_vars
          => WeightInv'
    BY StepWeightInv
  <1>3. RequestInv /\ DemandInv /\ [Next]_vars => DemandInv'
    BY StepDemandInv
  <1>4. RequestInv => QueueInv
    BY DEF RequestInv
  <1> QED BY <1>1, <1>2, <1>3, <1>4, InitWeightInv, InitDemandInv, InitOpsInv, StepOpsInv,
             InitRegionInv, StepRegionInv, InitRequestInv, StepRequestInv,
             RegionsExclusive, PTL DEF Spec

=============================================================================
