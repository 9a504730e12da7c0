------------------------ MODULE ExpertPipelineProofs ------------------------
(***************************************************************************)
(* Theorems about ExpertPipeline, for any number of layers, experts, slots *)
(* and operations: its types and pools, then what becomes of a request.    *)
(***************************************************************************)
EXTENDS ExpertPipeline, FiniteSetTheorems, SequenceTheorems, TLAPS

-----------------------------------------------------------------------------
(* Type correctness.  TypeOK alone is not inductive: the fetch thread keeps *)
(* the sign-mantissa pointer of an SMCACHE task, which must be a slot, and  *)
(* an operation that outlives its task goes on writing to the task's dock.  *)

TaskPointers ==
  \A n \in Node :
     /\ task[n].state = "SMCACHE" => task[n].sm \in SmSlots \cup {Null}
     /\ place[n] = "scheduled" => task[n].exp \in Docks

TypeInv == TypeOK /\ TaskPointers

NodeTypeButLocks ==
  /\ onGpu \in [Node -> BOOLEAN]
  /\ memPtr \in [Node -> Docks \cup GpuSlots \cup {Null}]
  /\ smPtr \in [Node -> SmSlots \cup {Null}]

\* A slot that ToWorkers may take is a slot of the pool.
LEMMA SlotsInPool ==
  ASSUME OwnerType, NEW n \in Node
  PROVE  /\ GpuSlotFor(n) \subseteq GpuSlots
         /\ SmSlotFor(n) \subseteq SmSlots
         /\ DockFor(n) \subseteq Docks
  <1>1. ASSUME NEW S, NEW owner \in [Node -> S \cup {Null}]
        PROVE  Unprotected(owner, n) \subseteq S
    BY DEF Unprotected
  <1> QED BY <1>1 DEF OwnerType, GpuSlotFor, SmSlotFor, DockFor, FreeGpu, FreeSm, FreeDocks

\* Granting a slot keeps the type of the owner table.
LEMMA GrantType ==
  ASSUME NEW S, NEW owner \in [Node -> S \cup {Null}], NEW n \in Node, NEW s \in S
  PROVE  Grant(owner, n, s) \in [Node -> S \cup {Null}]
  BY DEF Grant

\* The two tasks a node starts from are tasks.
LEMMA NoTaskType == NoTask \in Task /\ PrefetchTask \in Task
  BY DEF NoTask, Task, PrefetchTask, TaskState

\* The pipeline starts well typed.
LEMMA InitTypeInv == Init => TypeInv
  <1> SUFFICES ASSUME Init PROVE TypeInv
    OBVIOUS
  <1>1. MainType
    <2>1. NumLayers \in Nat \ {0}
      BY PipelineAssumption DEF PipelineAssumption
    <2>2. NumLayers - 1 \in Layers
      BY <2>1 DEF Layers
    <2>3. layer \in Layers /\ pending \in Int
      BY <2>2 DEF Init
    <2>4. /\ pc = "idle" /\ todo = {} /\ wanted = {} /\ decision = "NORMAL"
          /\ blockOpen = FALSE /\ outputs = {} /\ fault = "none"
      BY DEF Init
    <2>5. planning \in BOOLEAN
      BY PipelineAssumption DEF Init, PipelineAssumption
    <2> QED BY <2>3, <2>4, <2>5 DEF MainType, TaskState
  <1>2. TaskType
    BY NoTaskType DEF Init, TaskType, Place
  <1>3. NodeType /\ OwnerType
    BY DEF Init, NodeType, OwnerType
  <1>4. DataType
    BY DEF Init, DataType, EmptyDock, EmptySm
  <1>5. TaskPointers
    BY DEF Init, TaskPointers, NoTask
  <1> QED BY <1>1, <1>2, <1>3, <1>4, <1>5 DEF TypeInv, TypeOK

\* What ToWorkers leaves well typed, whoever calls it.
LEMMA ToWorkersTypeInv ==
  ASSUME TypeInv, NEW n \in Node, NEW t \in Task, NEW p \in Int, ToWorkers(n, t, p)
  PROVE  TaskType' /\ OwnerType' /\ DataType' /\ TaskPointers' /\ NodeTypeButLocks'
  <1> USE DEF TypeInv, TypeOK
  <1>1. place' \in [Node -> Place] /\ pend' \in [Node -> Int] /\ readyQ' \in Seq(Node)
    BY DEF ToWorkers, TaskType, Place
  <1>2. ops' \in [Node -> SUBSET Ops] /\ stray' = stray
    BY DEF ToWorkers, TaskType, Ops
  <1>3. PICK d \in DockFor(n) :
          /\ dockOf' = [dockOf EXCEPT ![n] = d]
          /\ TakeGpuSlot(n, t, d) \/ TakeSmSlot(n, t, d) \/ TakeNoSlot(n, t, d)
    BY DEF ToWorkers
  <1>4. d \in Docks /\ dockOf' \in [Node -> Docks \cup {Null}]
    BY <1>3, SlotsInPool DEF OwnerType
  <1>5. dockIn' = dockIn /\ place' = [place EXCEPT ![n] = "scheduled"]
    BY DEF ToWorkers
  <1>6. ASSUME TakeGpuSlot(n, t, d)
        PROVE  /\ task' \in [Node -> Task] /\ TaskPointers' /\ DataType'
               /\ NodeTypeButLocks' /\ OwnerType'
    <2>1. PICK s \in GpuSlots :
            /\ gpuSlotOf' = Grant(gpuSlotOf, n, s)
            /\ onGpu' = [m \in Node |-> ~Victim(gpuSlotOf, n, s, m) /\ onGpu[m]]
            /\ memPtr' = [m \in Node |->
                            IF Victim(gpuSlotOf, n, s, m) THEN Null ELSE memPtr[m]]
            /\ tensor' = [tensor EXCEPT ![s] = IF gpuSlotOf[n] = s THEN @ ELSE Null]
            /\ task' = [task EXCEPT ![n] =
                 [t EXCEPT !.exp = d, !.tensor = s,
                           !.sm = IF smPtr[n] = Null THEN d ELSE smPtr[n]]]
      BY <1>6, SlotsInPool DEF TakeGpuSlot
    <2>2. t.state # "SMCACHE" /\ UNCHANGED <<smSlotOf, smPtr, smIn>>
      BY <1>6 DEF TakeGpuSlot
    <2>3. OwnerType'
      BY <1>4, <2>1, <2>2, GrantType DEF OwnerType
    <2>4. task' \in [Node -> Task] /\ TaskPointers'
      BY <1>4, <1>5, <2>1, <2>2 DEF TaskType, NodeType, Task, TaskPointers
    <2>5. DataType'
      BY <1>5, <2>1, <2>2 DEF DataType
    <2> QED BY <2>1, <2>2, <2>3, <2>4, <2>5 DEF NodeType, NodeTypeButLocks
  <1>7. ASSUME TakeSmSlot(n, t, d)
        PROVE  /\ task' \in [Node -> Task] /\ TaskPointers' /\ DataType'
               /\ NodeTypeButLocks' /\ OwnerType'
    <2>1. PICK s \in SmSlots :
            /\ smSlotOf' = Grant(smSlotOf, n, s)
            /\ smPtr' = [m \in Node |->
                           IF Victim(smSlotOf, n, s, m) THEN Null ELSE smPtr[m]]
            /\ smIn' = [smIn EXCEPT ![s] = IF smSlotOf[n] = s THEN @ ELSE EmptySm]
            /\ task' = [task EXCEPT ![n] =
                 [t EXCEPT !.exp = d, !.tensor = d, !.sm = s]]
      BY <1>7, SlotsInPool DEF TakeSmSlot
    <2>2. UNCHANGED <<gpuSlotOf, onGpu, memPtr, tensor>>
      BY <1>7 DEF TakeSmSlot
    <2>3. OwnerType'
      BY <1>4, <2>1, <2>2, GrantType DEF OwnerType
    <2>4. task' \in [Node -> Task] /\ TaskPointers'
      BY <1>4, <1>5, <2>1, <2>2 DEF TaskType, NodeType, Task, TaskPointers
    <2>5. DataType'
      BY <1>5, <2>1, <2>2 DEF DataType, EmptySm
    <2> QED BY <2>1, <2>2, <2>3, <2>4, <2>5 DEF NodeType, NodeTypeButLocks
  <1>8. ASSUME TakeNoSlot(n, t, d)
        PROVE  /\ task' \in [Node -> Task] /\ TaskPointers' /\ DataType'
               /\ NodeTypeButLocks' /\ OwnerType'
    <2>1. task' \in [Node -> Task] /\ TaskPointers'
      BY <1>4, <1>5, <1>8 DEF TakeNoSlot, TaskType, NodeType, Task, TaskPointers
    <2> QED BY <1>4, <1>5, <1>8, <2>1
            DEF TakeNoSlot, NodeType, NodeTypeButLocks, OwnerType, DataType
  <1> QED BY <1>1, <1>2, <1>3, <1>6, <1>7, <1>8 DEF TaskType

\* The caching decision of EnqueueExpert is a state.
LEMMA ProactiveDecisionType ==
  ASSUME NEW c \in 0 .. NumExperts - 1
  PROVE  ProactiveDecision(c) \in TaskState
  BY DEF ProactiveDecision, TaskState

\* The count of operations of a task is a number.
LEMMA NumOpsType == \A n \in Node : NumOps(n) \in Int
  <1>1. Cardinality(ExpOps) \in Nat /\ Cardinality(SmOps) \in Nat
    BY PipelineAssumption, FS_CardinalityType DEF PipelineAssumption
  <1> QED BY <1>1 DEF NumOps

\* After the last sparse layer comes the first one.
LEMMA NextLayerType ==
  ASSUME MainType
  PROVE  NextLayer \in Layers
  <1>1. NumLayers \in Nat \ {0} /\ layer \in 0 .. NumLayers - 1
    BY PipelineAssumption DEF PipelineAssumption, MainType, Layers
  <1> QED BY <1>1 DEF NextLayer, Layers

\* Every step of every thread keeps the types.
LEMMA StepTypeInv == TypeInv /\ [Next]_vars => TypeInv'
  <1> SUFFICES ASSUME TypeInv, [Next]_vars PROVE TypeInv'
    OBVIOUS
  <1> USE DEF TypeInv, TypeOK
  <1>1. ASSUME NEW A \in (SUBSET Experts) \ {{}}, StartLayer(A) PROVE TypeInv'
    <2>1. Cardinality(A) \in Int
      <3>1. IsFiniteSet(A)
        <4>1. NumExperts \in Nat
          BY PipelineAssumption DEF PipelineAssumption
        <4>2. IsFiniteSet(Experts)
          BY <4>1, FS_Interval DEF Experts
        <4> QED BY <4>2, FS_Subset
      <3> QED BY <3>1, FS_CardinalityType
    <2>3. MainType'
      BY <1>1, <2>1, NextLayerType DEF StartLayer, MainType
    <2> QED BY <1>1, <2>3 DEF StartLayer, TaskType, NodeType, OwnerType, DataType,
               TaskPointers, taskVars, nodeVars, ownerVars, dataVars
  <1>2. ASSUME NEW P \in SUBSET Experts, WaitReturn(P) PROVE TypeInv'
    BY <1>2 DEF WaitReturn, MainType, TaskType, NodeType, OwnerType, DataType,
                TaskPointers, taskVars, nodeVars, ownerVars, dataVars
  <1>3. ASSUME NEW e \in Experts, EnqueueHit(e) PROVE TypeInv'
    <2> DEFINE n == <<layer, e>>
    <2>1. n \in Node
      BY DEF Node, MainType
    <2>2. task' \in [Node -> Task] /\ TaskPointers'
      <3>1. task' = [task EXCEPT ![n].state = "NORMAL", ![n].hit = TRUE]
        BY <1>3 DEF EnqueueHit
      <3>2. [task[n] EXCEPT !.state = "NORMAL", !.hit = TRUE] \in Task
        BY <2>1 DEF TaskType, Task, TaskState
      <3>3. task' = [task EXCEPT ![n] = [task[n] EXCEPT !.state = "NORMAL", !.hit = TRUE]]
        BY <3>1
      <3> HIDE DEF n
      <3>4. task' \in [Node -> Task]
        BY <2>1, <3>2, <3>3 DEF TaskType
      <3>5. /\ task'[n].state = "NORMAL" /\ task'[n].exp = task[n].exp
            /\ \A m \in Node \ {n} : task'[m] = task[m]
            /\ place' = place
        <4>1. place' = place
          BY <1>3 DEF EnqueueHit
        <4>2. task[n] \in Task /\ task \in [Node -> Task]
          BY <2>1 DEF TaskType
        <4> QED BY <2>1, <3>3, <4>1, <4>2 DEF Task
      <3> QED BY <2>1, <3>3, <3>4, <3>5 DEF TaskType, TaskPointers
    <2>3. MainType'
      BY <1>3 DEF EnqueueHit, Enqueued, MainType, TaskState, doneVars
    <2> QED BY <1>3, <2>2, <2>3 DEF EnqueueHit, TaskType, NodeType, OwnerType,
               DataType, nodeVars, ownerVars, dataVars
  <1>4. ASSUME NEW e \in Experts, EnqueueNew(e) PROVE TypeInv'
    <2> DEFINE n == <<layer, e>>
    <2>1. n \in Node
      BY DEF Node, MainType
    <2>2. task' \in [Node -> Task] /\ TaskPointers'
      BY <1>4, <2>1, NoTaskType
         DEF EnqueueNew, MainType, TaskType, Task, TaskState, TaskPointers, NoTask
    <2>3. MainType'
      BY <1>4 DEF EnqueueNew, Enqueued, MainType, TaskState, doneVars
    <2>4. pend' \in [Node -> Int]
      BY <1>4, <2>1, NumOpsType DEF EnqueueNew, TaskType
    <2>5. place' \in [Node -> Place] /\ readyQ' \in Seq(Node)
      BY <1>4, <2>1 DEF EnqueueNew, TaskType, Place
    <2>6. locked' \subseteq Node
      BY <1>4, <2>1 DEF EnqueueNew, NodeType
    <2> QED BY <1>4, <2>2, <2>3, <2>4, <2>5, <2>6 DEF EnqueueNew, TaskType, NodeType,
               OwnerType, DataType, ownerVars, dataVars
  <1>5. ASSUME NEW c \in 0 .. NumExperts - 1, EnqueueDecide(c) PROVE TypeInv'
    BY <1>5, ProactiveDecisionType
       DEF EnqueueDecide, MainType, TaskType, NodeType, OwnerType, DataType,
           TaskPointers, taskVars, nodeVars, ownerVars, dataVars, doneVars
  <1>6. ASSUME NEW S \in SUBSET (stray \cup UNION {Running(n) : n \in Stale}),
               OpsSchedule(S)
        PROVE TypeInv'
    <2>1. MainType'
      BY <1>6 DEF OpsSchedule, Discarded, MainType, doneVars
    <2>2. stray' \subseteq [node : Node, dock : Docks, op : Ops]
      <3>1. S \subseteq stray \cup UNION {Running(n) : n \in Stale} /\ stray' = S
        BY <1>6 DEF OpsSchedule, Discarded
      <3>2. ASSUME NEW n \in Stale PROVE Running(n) \subseteq [node : Node, dock : Docks, op : Ops]
        <4>1. n \in Node /\ task[n].exp \in Docks /\ ops[n] \subseteq Ops
          BY DEF Stale, TaskType, TaskPointers
        <4> QED BY <4>1 DEF Running
      <3> QED BY <3>1, <3>2 DEF TaskType
    <2>3. /\ place' \in [Node -> Place] /\ readyQ' \in Seq(Node)
          /\ ops' \in [Node -> SUBSET Ops] /\ pend' \in [Node -> Int]
      BY <1>6 DEF OpsSchedule, Discarded, TaskType, Place
    <2>4. task' \in [Node -> Task] /\ TaskPointers'
      BY <1>6, NoTaskType DEF OpsSchedule, Discarded, TaskType, TaskPointers, NoTask
    <2>5. NodeType' /\ OwnerType'
      BY <1>6 DEF OpsSchedule, Discarded, NodeType, OwnerType
    <2>6. DataType'
      BY <1>6 DEF OpsSchedule, Discarded, DataType, EmptyDock
    <2> QED BY <2>1, <2>2, <2>3, <2>4, <2>5, <2>6 DEF TaskType
  <1>7. ASSUME NEW n \in Node, SubmitFails(n) PROVE TypeInv'
    BY <1>7 DEF SubmitFails, ToWorkersFails, MainType, TaskType, NodeType, OwnerType,
                DataType, TaskPointers, mainVars, taskVars, nodeVars, ownerVars,
                dataVars, doneVars
  <1>8. ASSUME NEW n \in Node, NEW b \in BOOLEAN, Submit(n, b) PROVE TypeInv'
    <2>1. task[n] \in Task /\ pend[n] \in Int
      BY DEF TaskType
    <2>2. ToWorkers(n, task[n], pend[n])
      BY <1>8 DEF Submit
    <2>3. MainType' /\ locked' \subseteq Node
      BY <1>8, <2>2 DEF Submit, ToWorkers, MainType, NodeType, doneVars
    <2> QED BY <2>1, <2>2, <2>3, ToWorkersTypeInv DEF NodeType, NodeTypeButLocks
  <1>9. ASSUME SubmitDone PROVE TypeInv'
    BY <1>9 DEF SubmitDone, MainType, TaskType, NodeType, OwnerType, DataType,
                TaskPointers, taskVars, nodeVars, ownerVars, dataVars, doneVars
  <1>10. ASSUME NEW e \in Experts, SubmitPrefetchReady(e) PROVE TypeInv'
    <2> DEFINE n == <<NextLayer, e>>
    <2>1. n \in Node
      BY NextLayerType DEF Node
    <2>2. task' \in [Node -> Task] /\ TaskPointers'
      BY <1>10, <2>1, NoTaskType
         DEF SubmitPrefetchReady, TaskType, TaskPointers, PrefetchTask, NoTask
    <2>3. MainType' /\ locked' \subseteq Node
      BY <1>10, <2>1 DEF SubmitPrefetchReady, Prefetches, MainType, NodeType, doneVars
    <2>4. pend' \in [Node -> Int]
      BY <1>10, <2>1, NumOpsType DEF SubmitPrefetchReady, TaskType
    <2>5. place' \in [Node -> Place] /\ readyQ' \in Seq(Node)
      BY <1>10, <2>1 DEF SubmitPrefetchReady, TaskType, Place
    <2> QED BY <1>10, <2>2, <2>3, <2>4, <2>5 DEF SubmitPrefetchReady, TaskType,
               NodeType, OwnerType, DataType, ownerVars, dataVars
  <1>11. ASSUME NEW e \in Experts, SubmitPrefetchFetch(e) PROVE TypeInv'
    <2> DEFINE n == <<NextLayer, e>>
    <2>1. n \in Node
      BY NextLayerType DEF Node
    <2>2. ToWorkers(n, PrefetchTask, NumOps(n))
      BY <1>11 DEF SubmitPrefetchFetch
    <2>3. MainType' /\ locked' \subseteq Node
      BY <1>11, <2>1, <2>2
         DEF SubmitPrefetchFetch, Prefetches, ToWorkers, MainType, NodeType, doneVars
    <2>4. PrefetchTask \in Task /\ NumOps(n) \in Int
      BY <2>1, NoTaskType, NumOpsType
    <2> QED BY <2>1, <2>2, <2>3, <2>4, ToWorkersTypeInv DEF NodeType, NodeTypeButLocks
  <1>12. ASSUME NEW e \in Experts, SubmitPrefetchFails(e) PROVE TypeInv'
    <2>1. <<NextLayer, e>> \in Node
      BY NextLayerType DEF Node
    <2> QED BY <1>12, <2>1 DEF SubmitPrefetchFails, ToWorkersFails, Prefetches, MainType,
               TaskType, NodeType, OwnerType, DataType, TaskPointers, taskVars,
               ownerVars, dataVars, doneVars
  <1>13. ASSUME NEW n \in Node, NEW o \in Ops, OpDone(n, o) PROVE TypeInv'
    <2>1. MainType' /\ NodeType' /\ OwnerType' /\ task' = task /\ stray' = stray
      BY <1>13 DEF OpDone, MainType, NodeType, OwnerType, mainVars, nodeVars,
                   ownerVars, doneVars
    <2>5. TaskPointers'
      <3>1. \A m \in Node : place'[m] = "scheduled" => place[m] = "scheduled"
        BY <1>13 DEF OpDone, TaskType
      <3> QED BY <2>1, <3>1 DEF TaskPointers
    <2>2. pend' \in [Node -> Int]
      BY <1>13 DEF OpDone, TaskType
    <2>3. /\ place' \in [Node -> Place] /\ readyQ' \in Seq(Node)
          /\ ops' \in [Node -> SUBSET Ops]
      BY <1>13 DEF OpDone, TaskType, Place
    <2>4. DataType'
      <3> DEFINE region == IF o \in ExpOps THEN task[n].exp ELSE task[n].sm
      <3>1. CASE region \in Docks
        <4>1. dockIn' = LandInDock(region, o, n) /\ smIn' = smIn /\ tensor' = tensor
          BY <1>13, <3>1 DEF OpDone
        <4> QED BY <3>1, <4>1 DEF LandInDock, DataType
      <3>2. CASE region \notin Docks
        <4>1. smIn' = [smIn EXCEPT ![region][o] = n] /\ dockIn' = dockIn /\ tensor' = tensor
          BY <1>13, <3>2 DEF OpDone
        <4>2. CASE region \in SmSlots
          <5>1. o \in SmOps
            BY <3>2, <4>2, PipelineAssumption DEF PipelineAssumption, TaskType, Task, Ops
          <5> QED BY <4>1, <4>2, <5>1 DEF DataType
        <4>3. CASE region \notin SmSlots
          BY <4>1, <4>3 DEF DataType
        <4> QED BY <4>2, <4>3
      <3> QED BY <3>1, <3>2
    <2> QED BY <2>1, <2>2, <2>3, <2>4, <2>5 DEF TaskType
  <1>14. ASSUME NEW w \in stray, StrayDone(w) PROVE TypeInv'
    <2>1. w.node \in Node /\ w.dock \in Docks /\ w.op \in Ops
      BY DEF TaskType
    <2>2. DataType'
      BY <1>14, <2>1 DEF StrayDone, LandInDock, DataType
    <2> QED BY <1>14, <2>2 DEF StrayDone, MainType, TaskType, NodeType, OwnerType,
               TaskPointers, mainVars, nodeVars, ownerVars, doneVars
  <1>15. ASSUME NEW n \in Node, Fetch(n) PROVE TypeInv'
    <2>1. MainType' /\ OwnerType'
      BY <1>15 DEF Fetch, MainType, OwnerType, mainVars, doneVars
    <2>2. TaskType' /\ TaskPointers'
      <3>1. place' \in [Node -> Place]
        BY <1>15 DEF Fetch, TaskType, Place
      <3>2. readyQ' \in Seq(Node)
        <4>1. readyQ # <<>> /\ readyQ' = Tail(readyQ)
          BY <1>15 DEF Fetch
        <4> QED BY <4>1, HeadTailProperties DEF TaskType
      <3>3. task' \in [Node -> Task] /\ TaskPointers'
        <4>1. task' = task \/ task' = [task EXCEPT ![n] = NoTask]
          BY <1>15 DEF Fetch
        <4>4. \A m \in Node : place'[m] = "scheduled" => m # n /\ place[m] = "scheduled"
          BY <1>15 DEF Fetch, TaskType
        <4>2. CASE task' = task
          BY <4>2, <4>4 DEF TaskType, TaskPointers
        <4>3. CASE task' = [task EXCEPT ![n] = NoTask]
          <5>1. NoTask \in Task /\ NoTask.state # "SMCACHE"
            BY NoTaskType DEF NoTask
          <5> HIDE DEF NoTask
          <5> QED BY <4>3, <4>4, <5>1 DEF TaskType, TaskPointers
        <4> QED BY <4>1, <4>2, <4>3
      <3> QED BY <1>15, <3>1, <3>2, <3>3 DEF Fetch, TaskType
    <2>3. NodeType'
      BY <1>15 DEF Fetch, TaskType, Task, NodeType, TaskPointers
    <2>4. DataType'
      <3>1. smIn' \in [SmSlots -> [SmOps -> Node \cup {Null}]]
        BY <1>15 DEF Fetch, DataType, EmptySm
      <3>2. dockIn' \in [Docks -> [Ops -> Node \cup {Null}]]
        <4>1. dockIn' = dockIn \/ \E d \in Docks : dockIn' = [dockIn EXCEPT ![d] = EmptyDock]
          BY <1>15 DEF Fetch, OwnerType
        <4> QED BY <4>1 DEF DataType, EmptyDock
      <3>3. Recovered(n) \in Node \cup {Null, Garbled}
        BY DEF Recovered
      <3>4. tensor' \in [GpuSlots \cup Docks -> Node \cup {Null, Garbled}]
        BY <1>15, <3>3 DEF Fetch, DataType
      <3> QED BY <3>1, <3>2, <3>4 DEF DataType
    <2> QED BY <2>1, <2>2, <2>3, <2>4
  <1>16. ASSUME NEW n \in Node, Exec(n) PROVE TypeInv'
    BY <1>16 DEF Exec, Place, MainType, TaskType, NodeType, OwnerType, DataType,
                 TaskPointers, mainVars, nodeVars, ownerVars, dataVars, doneVars
  <1>17. ASSUME NEW n \in Node, OutputRelease(n) PROVE TypeInv'
    <2>1. MainType' /\ OwnerType'
      BY <1>17 DEF OutputRelease, DockReleased, MainType, OwnerType, mainVars, doneVars
    <2>2. TaskType' /\ TaskPointers'
      BY <1>17, NoTaskType DEF OutputRelease, DockReleased, TaskType, Place, TaskPointers, NoTask
    <2>3. NodeType'
      BY <1>17 DEF OutputRelease, DockReleased, NodeType
    <2>4. DataType'
      BY <1>17 DEF OutputRelease, DockReleased, DataType, EmptyDock
    <2> QED BY <2>1, <2>2, <2>3, <2>4
  <1>18. ASSUME NEW n \in Node, OutputEvictFails(n) PROVE TypeInv'
    BY <1>18 DEF OutputEvictFails, MainType, TaskType, NodeType, OwnerType, DataType,
                 TaskPointers, mainVars, taskVars, nodeVars, ownerVars, dataVars, doneVars
  <1>19. ASSUME NEW n \in Node, OutputPush(n) PROVE TypeInv'
    BY <1>19 DEF OutputPush, Place, MainType, TaskType, NodeType, OwnerType, DataType,
                 TaskPointers, mainVars, nodeVars, ownerVars, dataVars
  <1>20. ASSUME NEW n \in Node, OutputSignal(n) PROVE TypeInv'
    <2>1. MainType'
      <3>1. pending \in Int /\ pending' = pending - 1
        BY <1>20 DEF OutputSignal, MainType
      <3>2. pending' \in Int
        BY <3>1
      <3>3. UNCHANGED <<planning, pc, layer, todo, wanted, decision, blockOpen, outputs,
                        fault>>
        BY <1>20 DEF OutputSignal, mainVars
      <3> QED BY <3>2, <3>3 DEF MainType
    <2> QED BY <1>20, <2>1 DEF OutputSignal, Place, TaskType, NodeType, OwnerType,
               DataType, TaskPointers, nodeVars, ownerVars, dataVars
  <1>21. ASSUME UNCHANGED vars PROVE TypeInv'
    BY <1>21 DEF vars, MainType, TaskType, NodeType, OwnerType, DataType,
                 TaskPointers, mainVars, taskVars, nodeVars, ownerVars, dataVars, doneVars
  <1> QED
    BY <1>1, <1>2, <1>3, <1>4, <1>5, <1>6, <1>7, <1>8, <1>9, <1>10, <1>11, <1>12,
       <1>13, <1>14, <1>15, <1>16, <1>17, <1>18, <1>19, <1>20, <1>21
       DEF Next, Main, BlockEnds, Prefetch, Workers, FetchThread, ExecThread, OutputThread

\* Every variable of the pipeline keeps its type, whatever the sizes of the
\* model, of the pools and of the thread pool.
THEOREM TypeCorrect == Spec => []TypeOK
  <1>1. TypeInv => TypeOK
    BY DEF TypeInv
  <1> QED BY <1>1, InitTypeInv, StepTypeInv, PTL DEF Spec

-----------------------------------------------------------------------------
(* The cold branch of ProactiveDecision is dead code in a pool that has a  *)
(* slot for every expert of a layer, as the cache planner demands.         *)

\* countUp is smaller than the number of experts, so no expert is cold.
LEMMA NeverCold ==
  ASSUME TypeInv, NumExperts <= Cardinality(GpuSlots), NEW c \in 0 .. NumExperts - 1
  PROVE  ProactiveDecision(c) # "EVICT"
  <1>1. NumExperts \in Nat /\ Margin \in Nat /\ IsFiniteSet(GpuSlots)
    BY PipelineAssumption DEF PipelineAssumption
  <1>2. Cardinality(GpuSlots) \in Nat
    BY <1>1, FS_CardinalityType
  <1>3. ~(c >= ThresholdNormal)
    BY <1>1, <1>2 DEF ThresholdNormal
  <1>4. planning \in BOOLEAN
    BY DEF TypeInv, TypeOK, MainType
  <1> QED BY <1>3, <1>4 DEF ProactiveDecision

EvictInv == decision # "EVICT" /\ NeverEvicts

\* ToWorkers does not change the state of the task it is given.
LEMMA ToWorkersState ==
  ASSUME TypeInv, NEW n \in Node, NEW t \in Task, NEW p, ToWorkers(n, t, p),
         t.state # "EVICT", NeverEvicts
  PROVE  NeverEvicts'
  <1> USE DEF TypeInv, TypeOK
  <1>1. PICK d \in DockFor(n) :
          TakeGpuSlot(n, t, d) \/ TakeSmSlot(n, t, d) \/ TakeNoSlot(n, t, d)
    BY DEF ToWorkers
  <1> DEFINE Keeps == task'[n].state = t.state /\ \A k \in Node \ {n} : task'[k] = task[k]
  <1>2. Keeps
    <2>1. CASE TakeGpuSlot(n, t, d)
      BY <2>1 DEF TakeGpuSlot, TaskType, Task
    <2>2. CASE TakeSmSlot(n, t, d)
      BY <2>2 DEF TakeSmSlot, TaskType, Task
    <2>3. CASE TakeNoSlot(n, t, d)
      BY <2>3 DEF TakeNoSlot, TaskType, Task
    <2> QED BY <1>1, <2>1, <2>2, <2>3
  <1> QED BY <1>2 DEF NeverEvicts

\* An expert is never given the state EVICT, for which OutputFunc would abort.
THEOREM NoEvictions ==
  ASSUME NumExperts <= Cardinality(GpuSlots)
  PROVE  Spec => []NeverEvicts
  <1>1. Init => EvictInv
    BY DEF Init, EvictInv, NeverEvicts, NoTask
  <1>2. TypeInv /\ EvictInv /\ [Next]_vars => EvictInv'
    <2> SUFFICES ASSUME TypeInv, EvictInv, [Next]_vars PROVE EvictInv'
      OBVIOUS
    <2> USE DEF EvictInv
    <2>1. CASE UNCHANGED <<task, decision>>
      BY <2>1 DEF NeverEvicts
    <2>2. ASSUME NEW e \in Experts, EnqueueHit(e) PROVE EvictInv'
      BY <2>2 DEF EnqueueHit, Enqueued, NeverEvicts, TypeInv, TypeOK, TaskType, Task
    <2>3. ASSUME NEW e \in Experts, EnqueueNew(e) PROVE EvictInv'
      BY <2>3 DEF EnqueueNew, Enqueued, NeverEvicts, NoTask, TypeInv, TypeOK, TaskType
    <2>4. ASSUME NEW c \in 0 .. NumExperts - 1, EnqueueDecide(c) PROVE EvictInv'
      BY <2>4, NeverCold DEF EnqueueDecide, NeverEvicts, taskVars
    <2>5. ASSUME NEW S, OpsSchedule(S) PROVE EvictInv'
      BY <2>5 DEF OpsSchedule, Discarded, NeverEvicts, NoTask
    <2>6. ASSUME NEW n \in Node, NEW b, Submit(n, b) PROVE EvictInv'
      <3>1. task[n] \in Task /\ task[n].state # "EVICT"
        BY DEF NeverEvicts, TypeInv, TypeOK, TaskType
      <3>2. ToWorkers(n, task[n], pend[n]) /\ decision' = decision
        BY <2>6 DEF Submit
      <3> QED BY <3>1, <3>2, ToWorkersState
    <2>7. ASSUME NEW e \in Experts, SubmitPrefetchReady(e) PROVE EvictInv'
      BY <2>7 DEF SubmitPrefetchReady, Prefetches, PrefetchTask, NeverEvicts, NoTask,
                  TypeInv, TypeOK, TaskType
    <2>8. ASSUME NEW e \in Experts, SubmitPrefetchFetch(e) PROVE EvictInv'
      <3> DEFINE n == <<NextLayer, e>>
      <3>1. n \in Node
        BY NextLayerType DEF Node, TypeInv, TypeOK
      <3>2. PrefetchTask.state # "EVICT"
        BY DEF PrefetchTask, NoTask
      <3>3. ToWorkers(n, PrefetchTask, NumOps(n)) /\ decision' = decision
        BY <2>8 DEF SubmitPrefetchFetch, Prefetches
      <3> QED BY <3>1, <3>2, <3>3, NoTaskType, ToWorkersState
    <2>9. ASSUME NEW n \in Node, Fetch(n) PROVE EvictInv'
      <3>1. task' = task \/ task' = [task EXCEPT ![n] = NoTask]
        BY <2>9 DEF Fetch
      <3>2. decision' = decision
        BY <2>9 DEF Fetch, mainVars
      <3>3. NoTask.state # "EVICT" /\ task \in [Node -> Task]
        BY DEF NoTask, TypeInv, TypeOK, TaskType
      <3>4. CASE task' = [task EXCEPT ![n] = NoTask]
        BY <3>2, <3>3, <3>4 DEF NeverEvicts
      <3> QED BY <3>1, <3>2, <3>4 DEF NeverEvicts
    <2>10. ASSUME NEW n \in Node, OutputRelease(n) PROVE EvictInv'
      BY <2>10 DEF OutputRelease, DockReleased, mainVars, NeverEvicts, NoTask, TypeInv, TypeOK, TaskType
    <2> QED
      BY <2>1, <2>2, <2>3, <2>4, <2>5, <2>6, <2>7, <2>8, <2>9, <2>10
         DEF Next, Main, BlockEnds, Prefetch, Workers, FetchThread, ExecThread, OutputThread,
             StartLayer, WaitReturn, SubmitFails, SubmitDone, SubmitPrefetchFails, Prefetches,
             OpDone, StrayDone, Exec, OutputEvictFails, OutputPush, OutputSignal,
             vars, mainVars, taskVars
  <1>3. EvictInv => NeverEvicts
    BY DEF EvictInv
  <1> QED BY <1>1, <1>2, <1>3, InitTypeInv, StepTypeInv, PTL DEF Spec

-----------------------------------------------------------------------------
(* Exclusive ownership of docks and slots.                                 *)

\* A slot granted to n is taken from everybody else.
LEMMA GrantExclusive ==
  ASSUME NEW S, NEW owner \in [Node -> S], Exclusive(owner), NEW n \in Node, NEW s
  PROVE  Exclusive(Grant(owner, n, s))
  BY DEF Exclusive, Grant

\* Giving a region back leaves the others where they are.
LEMMA ReleaseExclusive ==
  ASSUME NEW S, NEW owner \in [Node -> S], Exclusive(owner), NEW n \in Node
  PROVE  Exclusive([owner EXCEPT ![n] = Null])
  BY DEF Exclusive

\* A dock is registered for a node that has it, or if nobody has it.
LEMMA DockExclusive ==
  ASSUME OwnerType, Exclusive(dockOf), NEW n \in Node, NEW d \in DockFor(n)
  PROVE  Exclusive([dockOf EXCEPT ![n] = d])
  BY DEF Exclusive, OwnerType, DockFor, FreeDocks, Owned

\* ToWorkers keeps all three owner tables exclusive.
LEMMA ToWorkersExclusive ==
  ASSUME OwnerType, OneOwner, NEW n \in Node, NEW t, NEW p, ToWorkers(n, t, p)
  PROVE  OneOwner'
  <1>1. PICK d \in DockFor(n) :
          /\ dockOf' = [dockOf EXCEPT ![n] = d]
          /\ TakeGpuSlot(n, t, d) \/ TakeSmSlot(n, t, d) \/ TakeNoSlot(n, t, d)
    BY DEF ToWorkers
  <1>2. Exclusive(dockOf)'
    BY <1>1, DockExclusive DEF OneOwner, Exclusive
  <1>3. gpuSlotOf' = gpuSlotOf \/ \E s : gpuSlotOf' = Grant(gpuSlotOf, n, s)
    BY <1>1 DEF TakeGpuSlot, TakeSmSlot, TakeNoSlot
  <1>4. smSlotOf' = smSlotOf \/ \E s : smSlotOf' = Grant(smSlotOf, n, s)
    BY <1>1 DEF TakeGpuSlot, TakeSmSlot, TakeNoSlot
  <1>5. Exclusive(gpuSlotOf)'
    <2>1. ASSUME NEW s PROVE Exclusive(Grant(gpuSlotOf, n, s))
      BY GrantExclusive DEF OneOwner, OwnerType
    <2> QED BY <1>3, <2>1 DEF OneOwner, Exclusive
  <1>6. Exclusive(smSlotOf)'
    <2>1. ASSUME NEW s PROVE Exclusive(Grant(smSlotOf, n, s))
      BY GrantExclusive DEF OneOwner, OwnerType
    <2> QED BY <1>4, <2>1 DEF OneOwner, Exclusive
  <1> QED BY <1>2, <1>5, <1>6 DEF OneOwner

\* No dock, GPU slot or SM slot ever has two owners.
THEOREM RegionsExclusive == Spec => []OneOwner
  <1>1. Init => OneOwner
    BY DEF Init, OneOwner, Exclusive
  <1>2. TypeInv /\ OneOwner /\ [Next]_vars => OneOwner'
    <2> SUFFICES ASSUME TypeInv, OneOwner, [Next]_vars PROVE OneOwner'
      OBVIOUS
    <2> USE DEF TypeInv, TypeOK
    <2>1. CASE UNCHANGED <<dockOf, gpuSlotOf, smSlotOf>>
      BY <2>1 DEF OneOwner, Exclusive
    <2>2. ASSUME NEW S, OpsSchedule(S) PROVE OneOwner'
      BY <2>2 DEF OpsSchedule, Discarded, OneOwner, Exclusive
    <2>3. ASSUME NEW n \in Node, NEW b, Submit(n, b) PROVE OneOwner'
      BY <2>3, ToWorkersExclusive DEF Submit
    <2>4. ASSUME NEW e \in Experts, SubmitPrefetchFetch(e) PROVE OneOwner'
      <3>1. <<NextLayer, e>> \in Node
        BY NextLayerType DEF Node
      <3> QED BY <2>4, <3>1, ToWorkersExclusive DEF SubmitPrefetchFetch
    <2>5. ASSUME NEW n \in Node, Fetch(n) PROVE OneOwner'
      <3>1. /\ dockOf' \in {dockOf, [dockOf EXCEPT ![n] = Null]}
            /\ smSlotOf' \in {smSlotOf, [smSlotOf EXCEPT ![n] = Null]}
            /\ gpuSlotOf' = gpuSlotOf
        BY <2>5 DEF Fetch
      <3> QED BY <3>1, ReleaseExclusive DEF OneOwner, OwnerType, Exclusive
    <2>6. ASSUME NEW n \in Node, OutputRelease(n) PROVE OneOwner'
      <3>1. dockOf' = [dockOf EXCEPT ![n] = Null] /\ UNCHANGED <<gpuSlotOf, smSlotOf>>
        BY <2>6 DEF OutputRelease, DockReleased
      <3> QED BY <3>1, ReleaseExclusive DEF OneOwner, OwnerType, Exclusive
    <2> QED
      BY <2>1, <2>2, <2>3, <2>4, <2>5, <2>6
         DEF Next, Main, BlockEnds, Prefetch, Workers, FetchThread, ExecThread, OutputThread,
             StartLayer, WaitReturn, EnqueueHit, EnqueueNew, EnqueueDecide, SubmitFails,
             SubmitDone, SubmitPrefetchReady, SubmitPrefetchFails,
             OpDone, StrayDone, Exec, OutputEvictFails, OutputPush, OutputSignal,
             vars, ownerVars
  <1> QED BY <1>1, <1>2, InitTypeInv, StepTypeInv, PTL DEF Spec

-----------------------------------------------------------------------------
(* The node mutex protects the slots of a node.  The proof needs to know   *)
(* which tasks hold the mutex and that the ready queue holds ready tasks,  *)
(* each once.                                                              *)

Active == {"new", "typeI", "typeII", "scheduled", "ready", "exec", "output"}

LockInv == \A n \in Node : place[n] \in Active => n \in locked

ReadyInv ==
  /\ \A i \in 1 .. Len(readyQ) : place[readyQ[i]] = "ready"
  /\ \A i, j \in 1 .. Len(readyQ) : readyQ[i] = readyQ[j] => i = j

QueueInv == TypeInv /\ LockInv /\ ReadyInv

\* A node enters the ready queue when its task becomes ready.
LEMMA ReadyAppend ==
  ASSUME TaskType, ReadyInv, NEW n \in Node, place[n] # "ready",
         place' = [place EXCEPT ![n] = "ready"], readyQ' = Append(readyQ, n)
  PROVE  ReadyInv'
  <1>1. /\ Len(readyQ') = Len(readyQ) + 1 /\ Len(readyQ) \in Nat
        /\ \A i \in 1 .. Len(readyQ) : readyQ'[i] = readyQ[i] /\ readyQ[i] \in Node
        /\ readyQ'[Len(readyQ) + 1] = n
    BY AppendProperties, LenProperties DEF TaskType
  <1>2. \A i \in 1 .. Len(readyQ) : readyQ[i] # n /\ place'[readyQ[i]] = "ready"
    BY <1>1 DEF ReadyInv, TaskType
  <1>3. place'[n] = "ready"
    BY DEF TaskType
  <1>4. 1 .. Len(readyQ') = 1 .. Len(readyQ) \cup {Len(readyQ) + 1}
    BY <1>1
  <1>5. \A i \in 1 .. Len(readyQ') : place'[readyQ'[i]] = "ready"
    BY <1>1, <1>2, <1>3, <1>4
  <1>6. \A i, j \in 1 .. Len(readyQ') : readyQ'[i] = readyQ'[j] => i = j
    BY <1>1, <1>2, <1>4 DEF ReadyInv
  <1> QED BY <1>5, <1>6 DEF ReadyInv

\* The other tasks may move as they like as long as no ready task does.
LEMMA ReadyFrame ==
  ASSUME TaskType, ReadyInv, readyQ' = readyQ,
         \A n \in Node : place[n] = "ready" => place'[n] = "ready"
  PROVE  ReadyInv'
  <1>1. \A i \in 1 .. Len(readyQ) : readyQ[i] \in Node /\ place[readyQ[i]] = "ready"
    BY ElementOfSeq DEF ReadyInv, TaskType
  <1> QED BY <1>1 DEF ReadyInv

\* The head of the queue leaves it.
LEMMA ReadyTail ==
  ASSUME TaskType, ReadyInv, readyQ # <<>>, readyQ' = Tail(readyQ), NEW v,
         place' = [place EXCEPT ![Head(readyQ)] = v]
  PROVE  ReadyInv'
  <1>1. /\ Len(readyQ) \in Nat \ {0} /\ Len(readyQ') = Len(readyQ) - 1
        /\ \A i \in 1 .. Len(readyQ') : readyQ'[i] = readyQ[i + 1]
        /\ \A i \in 1 .. Len(readyQ) : readyQ[i] \in Node
        /\ Head(readyQ) = readyQ[1]
    BY HeadTailProperties, LenProperties, EmptySeq DEF TaskType
  <1>2. \A i \in 1 .. Len(readyQ') : i + 1 \in 1 .. Len(readyQ) /\ i + 1 # 1
    BY <1>1
  <1>3. \A i \in 1 .. Len(readyQ') : readyQ'[i] # Head(readyQ)
    BY <1>1, <1>2 DEF ReadyInv
  <1>4. \A i \in 1 .. Len(readyQ') : place'[readyQ'[i]] = "ready"
    BY <1>1, <1>2, <1>3 DEF ReadyInv, TaskType
  <1>5. \A i, j \in 1 .. Len(readyQ') : readyQ'[i] = readyQ'[j] => i = j
    BY <1>1, <1>2 DEF ReadyInv
  <1> QED BY <1>4, <1>5 DEF ReadyInv

\* The head of the queue is a ready task.
LEMMA HeadIsReady ==
  ASSUME TaskType, ReadyInv, readyQ # <<>>
  PROVE  Head(readyQ) \in Node /\ place[Head(readyQ)] = "ready"
  <1>1. Len(readyQ) \in Nat \ {0} /\ Head(readyQ) = readyQ[1] /\ Head(readyQ) \in Node
    BY HeadTailProperties, LenProperties, EmptySeq DEF TaskType
  <1> QED BY <1>1 DEF ReadyInv

\* ToWorkers moves a task that is not ready to the scheduled queue.
LEMMA ToWorkersQueueInv ==
  ASSUME QueueInv, NEW n \in Node, NEW t, NEW p, ToWorkers(n, t, p),
         place[n] # "ready", n \in locked', locked \subseteq locked'
  PROVE  LockInv' /\ ReadyInv'
  <1>1. place' = [place EXCEPT ![n] = "scheduled"] /\ readyQ' = readyQ
    BY DEF ToWorkers
  <1>2. TaskType
    BY DEF QueueInv, TypeInv, TypeOK
  <1>3. LockInv'
    BY <1>1, <1>2 DEF LockInv, QueueInv, TaskType
  <1>4. \A m \in Node : place[m] = "ready" => place'[m] = "ready"
    BY <1>1, <1>2 DEF TaskType
  <1>5. ReadyInv'
    BY <1>1, <1>2, <1>4, ReadyFrame DEF QueueInv
  <1> QED BY <1>3, <1>5

\* Every step keeps the mutexes with the tasks and the ready queue in step.
LEMMA StepQueueInv == QueueInv /\ [Next]_vars => QueueInv'
  <1> SUFFICES ASSUME QueueInv, [Next]_vars PROVE LockInv' /\ ReadyInv'
    BY StepTypeInv DEF QueueInv
  <1>0. TaskType /\ MainType /\ LockInv /\ ReadyInv
    BY DEF QueueInv, TypeInv, TypeOK
  <1>1. CASE UNCHANGED <<place, readyQ, locked>>
    BY <1>0, <1>1 DEF LockInv, ReadyInv
  <1>2. ASSUME NEW e \in Experts, EnqueueNew(e) PROVE LockInv' /\ ReadyInv'
    <2> DEFINE n == <<layer, e>>
    <2>1. n \in Node /\ place[n] # "ready"
      BY <1>0, <1>2 DEF Node, MainType, EnqueueNew
    <2>2. /\ locked' = locked \cup {n}
          /\ place' = [place EXCEPT ![n] = IF onGpu[n] THEN "ready" ELSE "new"]
          /\ readyQ' = IF onGpu[n] THEN Append(readyQ, n) ELSE readyQ
      BY <1>2 DEF EnqueueNew
    <2> HIDE DEF n
    <2>3. LockInv'
      BY <1>0, <2>1, <2>2 DEF LockInv, TaskType
    <2>4. CASE onGpu[n]
      BY <1>0, <2>1, <2>2, <2>3, <2>4, ReadyAppend
    <2>5. CASE ~onGpu[n]
      <3>1. \A m \in Node : place[m] = "ready" => place'[m] = "ready"
        BY <1>0, <2>1, <2>2, <2>5 DEF TaskType
      <3> QED BY <1>0, <2>2, <2>3, <2>5, <3>1, ReadyFrame
    <2> QED BY <2>4, <2>5
  <1>3. ASSUME NEW S, OpsSchedule(S) PROVE LockInv' /\ ReadyInv'
    <2>1. LockInv'
      BY <1>0, <1>3 DEF OpsSchedule, Discarded, LockInv, TaskType, Active
    <2>2. readyQ' = readyQ /\ \A n \in Node : place[n] = "ready" => place'[n] = "ready"
      BY <1>3 DEF OpsSchedule, Discarded, Stale
    <2> QED BY <1>0, <2>1, <2>2, ReadyFrame
  <1>4. ASSUME NEW n \in Node, NEW b, Submit(n, b) PROVE LockInv' /\ ReadyInv'
    <2>1. place[n] \in {"typeI", "typeII"}
      BY <1>4 DEF Submit, Eligible, InType
    <2>2. ToWorkers(n, task[n], pend[n]) /\ locked' = locked
      BY <1>4 DEF Submit
    <2>3. n \in locked
      BY <1>0, <2>1 DEF LockInv, Active
    <2> QED BY <2>1, <2>2, <2>3, ToWorkersQueueInv
  <1>5. ASSUME NEW e \in Experts, SubmitPrefetchReady(e) PROVE LockInv' /\ ReadyInv'
    <2> DEFINE n == <<NextLayer, e>>
    <2>1. n \in Node
      BY <1>0, NextLayerType DEF Node
    <2>2. /\ n \notin locked /\ locked' = locked \cup {n}
          /\ place' = [place EXCEPT ![n] = "ready"] /\ readyQ' = Append(readyQ, n)
      BY <1>5 DEF SubmitPrefetchReady, Prefetches
    <2> HIDE DEF n
    <2>3. place[n] # "ready"
      BY <1>0, <2>1, <2>2 DEF LockInv, Active
    <2>4. LockInv'
      BY <1>0, <2>1, <2>2 DEF LockInv, TaskType
    <2> QED BY <1>0, <2>1, <2>2, <2>3, <2>4, ReadyAppend
  <1>6. ASSUME NEW e \in Experts, SubmitPrefetchFetch(e) PROVE LockInv' /\ ReadyInv'
    <2> DEFINE n == <<NextLayer, e>>
    <2>1. n \in Node
      BY <1>0, NextLayerType DEF Node
    <2>2. n \notin locked /\ locked' = locked \cup {n} /\ ToWorkers(n, PrefetchTask, NumOps(n))
      BY <1>6 DEF SubmitPrefetchFetch, Prefetches
    <2> HIDE DEF n
    <2>3. place[n] # "ready"
      BY <1>0, <2>1, <2>2 DEF LockInv, Active
    <2> QED BY <2>1, <2>2, <2>3, ToWorkersQueueInv
  <1>7. ASSUME NEW e \in Experts, SubmitPrefetchFails(e) PROVE LockInv' /\ ReadyInv'
    BY <1>0, <1>7 DEF SubmitPrefetchFails, Prefetches, taskVars, LockInv, ReadyInv
  <1>8. ASSUME NEW n \in Node, NEW o \in Ops, OpDone(n, o) PROVE LockInv' /\ ReadyInv'
    <2>1. locked' = locked
      BY <1>8 DEF OpDone, nodeVars
    <2>2. CASE pend[n] = 1 /\ place[n] = "scheduled"
      <3>1. place' = [place EXCEPT ![n] = "ready"] /\ readyQ' = Append(readyQ, n)
        BY <1>8, <2>2 DEF OpDone
      <3>2. LockInv'
        BY <1>0, <2>1, <2>2, <3>1 DEF LockInv, TaskType, Active
      <3> QED BY <1>0, <2>2, <3>1, <3>2, ReadyAppend
    <2>3. CASE ~(pend[n] = 1 /\ place[n] = "scheduled")
      <3>1. place' = place /\ readyQ' = readyQ
        BY <1>8, <2>3 DEF OpDone
      <3> QED BY <1>0, <2>1, <3>1 DEF LockInv, ReadyInv
    <2> QED BY <2>2, <2>3
  <1>9. ASSUME NEW n \in Node, Fetch(n) PROVE LockInv' /\ ReadyInv'
    <2>1. /\ readyQ # <<>> /\ n = Head(readyQ) /\ readyQ' = Tail(readyQ)
          /\ \/ place' = [place EXCEPT ![n] = "none"] /\ locked' = locked \ {n}
             \/ place' = [place EXCEPT ![n] = "exec"] /\ locked' = locked
      BY <1>9 DEF Fetch
    <2>2. ReadyInv'
      BY <1>0, <2>1, ReadyTail
    <2>3. n \in locked
      BY <1>0, <2>1, HeadIsReady DEF LockInv, Active
    <2>4. LockInv'
      BY <1>0, <2>1, <2>3 DEF LockInv, TaskType, Active
    <2> QED BY <2>2, <2>4
  <1>10. ASSUME NEW n \in Node, Exec(n) PROVE LockInv' /\ ReadyInv'
    <2>1. /\ place[n] = "exec" /\ place' = [place EXCEPT ![n] = "output"]
          /\ readyQ' = readyQ /\ locked' = locked
      BY <1>10 DEF Exec, nodeVars
    <2>2. LockInv' /\ \A m \in Node : place[m] = "ready" => place'[m] = "ready"
      BY <1>0, <2>1 DEF LockInv, TaskType, Active
    <2> QED BY <1>0, <2>1, <2>2, ReadyFrame
  <1>11. ASSUME NEW n \in Node, OutputRelease(n) PROVE LockInv' /\ ReadyInv'
    <2>1. /\ place[n] = "output" /\ place' = [place EXCEPT ![n] = "released"]
          /\ readyQ' = readyQ /\ locked' = locked \ {n}
      BY <1>11 DEF OutputRelease, DockReleased
    <2>2. LockInv' /\ \A m \in Node : place[m] = "ready" => place'[m] = "ready"
      BY <1>0, <2>1 DEF LockInv, TaskType, Active
    <2> QED BY <1>0, <2>1, <2>2, ReadyFrame
  <1>12. ASSUME NEW n \in Node, OutputPush(n) \/ OutputSignal(n)
         PROVE  LockInv' /\ ReadyInv'
    <2>1. /\ place[n] \in {"released", "pushed"}
          /\ \E v \in {"pushed", "none"} : place' = [place EXCEPT ![n] = v]
          /\ readyQ' = readyQ /\ locked' = locked
      BY <1>12 DEF OutputPush, OutputSignal, nodeVars
    <2>2. LockInv' /\ \A m \in Node : place[m] = "ready" => place'[m] = "ready"
      BY <1>0, <2>1 DEF LockInv, TaskType, Active
    <2> QED BY <1>0, <2>1, <2>2, ReadyFrame
  <1> QED
    BY <1>1, <1>2, <1>3, <1>4, <1>5, <1>6, <1>7, <1>8, <1>9, <1>10, <1>11, <1>12
       DEF Next, Main, BlockEnds, Prefetch, Workers, FetchThread, ExecThread, OutputThread,
           StartLayer, WaitReturn, EnqueueHit, EnqueueDecide, SubmitFails, SubmitDone,
           StrayDone, OutputEvictFails, vars, taskVars, nodeVars

\* At the start no mutex is held and no task is ready.
LEMMA InitQueueInv == Init => QueueInv
  <1> SUFFICES ASSUME Init PROVE LockInv /\ ReadyInv
    BY InitTypeInv DEF QueueInv
  <1>1. LockInv
    BY DEF Init, LockInv, Active
  <1>2. Len(readyQ) = 0
    BY DEF Init
  <1>3. ReadyInv
    BY <1>2 DEF ReadyInv
  <1> QED BY <1>1, <1>3

\* A slot taken for n never is one of a node m whose mutex is held.
LEMMA GrantSparesHeld ==
  ASSUME NEW S, NEW owner \in [Node -> S \cup {Null}], Exclusive(owner),
         NEW n \in Node, NEW m \in locked \cap Node, owner[m] # Null,
         NEW s, s \notin Owned(owner) \/ s \in Unprotected(owner, n) \/ s = owner[n]
  PROVE  m = n \/ Grant(owner, n, s)[m] = owner[m]
  BY DEF Exclusive, Owned, Unprotected, Grant

\* ToWorkers takes no slot from a node whose mutex is held.
LEMMA ToWorkersSparesHeld ==
  ASSUME TypeInv, OneOwner, NEW n \in Node, NEW t, NEW p, ToWorkers(n, t, p),
         NEW m \in locked \cap Node
  PROVE  /\ gpuSlotOf[m] # Null => gpuSlotOf'[m] = gpuSlotOf[m]
         /\ smSlotOf[m] # Null => smSlotOf'[m] = smSlotOf[m]
  <1> USE DEF TypeInv, TypeOK, OwnerType, OneOwner
  <1>1. PICK d \in DockFor(n) :
          TakeGpuSlot(n, t, d) \/ TakeSmSlot(n, t, d) \/ TakeNoSlot(n, t, d)
    BY DEF ToWorkers
  <1>2. ASSUME NEW s \in GpuSlotFor(n), gpuSlotOf[m] # Null
        PROVE  Grant(gpuSlotOf, n, s)[m] = gpuSlotOf[m]
    <2>1. s \notin Owned(gpuSlotOf) \/ s \in Unprotected(gpuSlotOf, n) \/ s = gpuSlotOf[n]
      BY <1>2 DEF GpuSlotFor, FreeGpu
    <2>2. gpuSlotOf[n] # Null => s = gpuSlotOf[n]
      BY <1>2 DEF GpuSlotFor
    <2>3. m = n \/ Grant(gpuSlotOf, n, s)[m] = gpuSlotOf[m]
      BY <1>2, <2>1, GrantSparesHeld
    <2> QED BY <1>2, <2>2, <2>3 DEF Grant
  <1>3. ASSUME NEW s \in SmSlotFor(n), smSlotOf[m] # Null
        PROVE  Grant(smSlotOf, n, s)[m] = smSlotOf[m]
    <2>1. s \notin Owned(smSlotOf) \/ s \in Unprotected(smSlotOf, n) \/ s = smSlotOf[n]
      BY <1>3 DEF SmSlotFor, FreeSm
    <2>2. smSlotOf[n] # Null => s = smSlotOf[n]
      BY <1>3 DEF SmSlotFor
    <2>3. m = n \/ Grant(smSlotOf, n, s)[m] = smSlotOf[m]
      BY <1>3, <2>1, GrantSparesHeld
    <2> QED BY <1>3, <2>2, <2>3 DEF Grant
  <1>4. CASE TakeGpuSlot(n, t, d)
    BY <1>2, <1>4 DEF TakeGpuSlot
  <1>5. CASE TakeSmSlot(n, t, d)
    BY <1>3, <1>5 DEF TakeSmSlot
  <1> QED BY <1>1, <1>4, <1>5 DEF TakeNoSlot

\* While a thread holds the mutex of a node, no thread takes away its slots.
THEOREM HeldNodesKeepSlots == Spec => HeldNodeKeepsSlots
  <1>1. QueueInv /\ OneOwner /\ [Next]_vars => [KeepsSlots]_vars
    <2> SUFFICES ASSUME QueueInv, OneOwner, [Next]_vars PROVE KeepsSlots \/ UNCHANGED vars
      OBVIOUS
    <2>0. TypeInv /\ TaskType /\ MainType /\ NodeType /\ ReadyInv /\ locked \subseteq Node
      BY DEF QueueInv, TypeInv, TypeOK, NodeType
    <2>1. CASE UNCHANGED <<gpuSlotOf, smSlotOf>>
      BY <2>1 DEF KeepsSlots
    <2>2. ASSUME NEW S, OpsSchedule(S) PROVE KeepsSlots
      BY <2>0, <2>2 DEF OpsSchedule, Discarded, KeepsSlots
    <2>3. ASSUME NEW n \in Node, NEW b, Submit(n, b) PROVE KeepsSlots
      BY <2>0, <2>3, ToWorkersSparesHeld DEF Submit, KeepsSlots
    <2>4. ASSUME NEW e \in Experts, SubmitPrefetchFetch(e) PROVE KeepsSlots
      <3>1. <<NextLayer, e>> \in Node
        BY <2>0, NextLayerType DEF Node
      <3> QED BY <2>0, <2>4, <3>1, ToWorkersSparesHeld DEF SubmitPrefetchFetch, KeepsSlots
    <2>5. ASSUME NEW n \in Node, Fetch(n) PROVE KeepsSlots
      <3>1. place[n] = "ready"
        BY <2>0, <2>5, HeadIsReady DEF Fetch
      <3>2. /\ gpuSlotOf' = gpuSlotOf /\ onGpu' = [onGpu EXCEPT ![n] = TRUE]
            /\ smSlotOf' = smSlotOf \/ smSlotOf' = [smSlotOf EXCEPT ![n] = Null]
        BY <2>5 DEF Fetch
      <3> QED BY <2>0, <3>1, <3>2 DEF KeepsSlots, NodeType, TypeInv, TypeOK, OwnerType
    <2>6. ASSUME NEW n \in Node, OutputRelease(n) PROVE KeepsSlots
      BY <2>6 DEF OutputRelease, DockReleased, KeepsSlots
    <2> QED
      BY <2>1, <2>2, <2>3, <2>4, <2>5, <2>6
         DEF Next, Main, BlockEnds, Prefetch, Workers, FetchThread, ExecThread, OutputThread,
             StartLayer, WaitReturn, EnqueueHit, EnqueueNew, EnqueueDecide, SubmitFails,
             SubmitDone, SubmitPrefetchReady, SubmitPrefetchFails,
             OpDone, StrayDone, Exec, OutputEvictFails, OutputPush, OutputSignal,
             vars, ownerVars
  <1> QED
    BY <1>1, InitQueueInv, StepQueueInv, RegionsExclusive, PTL
       DEF Spec, HeldNodeKeepsSlots

-----------------------------------------------------------------------------
(***************************************************************************)
(* What becomes of a request: which tasks belong to the current call, that *)
(* pending_ counts those without an answer, and that the pipeline          *)
(* implements ExpertService.                                               *)
(***************************************************************************)

\* The task of n belongs to a request that is not counted yet.
Asked(n) == \/ place[n] \in {"released", "pushed"}
            \/ place[n] # "none" /\ task[n].hit

\* Requests are of the current call and have left todo; what is in the pipeline
\* is a request or a prefetch, and by its state one can tell; the output thread
\* sees requests only.
AskedInv ==
  /\ \A n \in Node : Asked(n) => n[1] = layer /\ n[2] \in wanted \ todo /\ pc # "idle"
  /\ \A n \in Node : place[n] \in Active => (task[n].hit <=> task[n].state # "PREFETCH")
  /\ \A n \in Node : place[n] \in {"new", "typeI", "typeII", "exec", "output"} => task[n].hit
  /\ pc # "idle" => todo \subseteq wanted
  /\ pc = "idle" => wanted = {} /\ outputs = {}
  /\ decision # "PREFETCH"

\* Each requested expert is still to be enqueued, in the pipeline, or answered.
ServedInv ==
  /\ \A n \in outputs : n[1] = layer /\ n[2] \in wanted \ todo
  /\ \A n \in Node : Asked(n) => (n \in outputs <=> place[n] = "pushed")
  /\ pc # "idle" => \A n \in Node : n[1] = layer /\ n[2] \in wanted =>
                                     n[2] \in todo \/ Asked(n) \/ n \in outputs

CountInv == pc # "idle" => pending = Cardinality(Unanswered)

RequestInv == QueueInv /\ AskedInv /\ ServedInv /\ CountInv

\* The current layer's nodes and their parts.
LEMMA LayerNode ==
  ASSUME MainType, NEW e \in Experts
  PROVE  <<layer, e>> \in Node /\ <<layer, e>>[1] = layer /\ <<layer, e>>[2] = e
  BY DEF MainType, Node

LEMMA NodeParts ==
  ASSUME NEW n \in Node
  PROVE  n = <<n[1], n[2]>> /\ n[1] \in Layers /\ n[2] \in Experts
  BY DEF Node

\* The requests without an answer, by Asked; they are finitely many.
AskedNodes == {n \in Node : n[1] = layer /\ Asked(n)}

LEMMA UnansweredIs ==
  /\ MainType => Unanswered = todo \cup {n[2] : n \in AskedNodes}
  /\ MainType' => Unanswered' = todo' \cup {n[2] : n \in AskedNodes'}
  <1>1. ASSUME NEW L \in Layers, NEW A
        PROVE  {e \in Experts : <<L, e>> \in A} = {n[2] : n \in {m \in Node : m[1] = L /\ m \in A}}
    <2>1. ASSUME NEW e \in Experts, <<L, e>> \in A
          PROVE  \E n \in {m \in Node : m[1] = L /\ m \in A} : n[2] = e
      <3>1. <<L, e>> \in Node /\ <<L, e>>[1] = L /\ <<L, e>>[2] = e
        BY DEF Node
      <3> QED BY <2>1, <3>1
    <2>2. ASSUME NEW n \in Node, n[1] = L, n \in A
          PROVE  n[2] \in Experts /\ <<L, n[2]>> \in A
      BY <2>2, NodeParts
    <2> QED BY <2>1, <2>2
  <1>2. ASSUME MainType PROVE Unanswered = todo \cup {n[2] : n \in AskedNodes}
    <2> DEFINE A == {n \in Node : Asked(n)}
    <2>1. layer \in Layers /\ \A e \in Experts : <<layer, e>> \in Node
      BY <1>2 DEF MainType, Node
    <2>2. Unanswered = todo \cup {e \in Experts : <<layer, e>> \in A}
      BY <2>1 DEF Unanswered, Asked
    <2>3. AskedNodes = {m \in Node : m[1] = layer /\ m \in A}
      BY DEF AskedNodes
    <2> HIDE DEF A
    <2> QED BY <1>1, <2>1, <2>2, <2>3
  <1>3. ASSUME MainType' PROVE Unanswered' = todo' \cup {n[2] : n \in AskedNodes'}
    <2> DEFINE A == {n \in Node : Asked(n)'}
    <2>1. layer' \in Layers /\ \A e \in Experts : <<layer', e>> \in Node
      BY <1>3 DEF MainType, Node
    <2>2. Unanswered' = todo' \cup {e \in Experts : <<layer', e>> \in A}
      BY <2>1 DEF Unanswered, Asked
    <2>3. AskedNodes' = {m \in Node : m[1] = layer' /\ m \in A}
      BY DEF AskedNodes
    <2> HIDE DEF A
    <2> QED BY <1>1, <2>1, <2>2, <2>3
  <1> QED BY <1>2, <1>3

LEMMA ExpertsFinite ==
  /\ IsFiniteSet(Experts)
  /\ \A S \in SUBSET Experts : IsFiniteSet(S) /\ Cardinality(S) \in Nat
  <1>1. IsFiniteSet(Experts)
    BY PipelineAssumption, FS_Interval DEF PipelineAssumption, Experts
  <1> QED BY <1>1, FS_Subset, FS_CardinalityType

LEMMA InitRequestInv == Init => RequestInv
  BY InitQueueInv DEF Init, RequestInv, AskedInv, ServedInv, CountInv, Asked, Active

\* A task that ToWorkers takes on goes to the scheduled queue as it was.
LEMMA ToWorkersTask ==
  ASSUME TypeInv, NEW n \in Node, NEW t \in Task, NEW p, ToWorkers(n, t, p)
  PROVE  /\ place' = [place EXCEPT ![n] = "scheduled"]
         /\ task'[n].state = t.state /\ task'[n].hit = t.hit
         /\ \A m \in Node \ {n} : task'[m] = task[m]
         /\ UNCHANGED <<pending, outputs>>
  <1> USE DEF TypeInv, TypeOK
  <1>1. PICK d \in DockFor(n) :
          TakeGpuSlot(n, t, d) \/ TakeSmSlot(n, t, d) \/ TakeNoSlot(n, t, d)
    BY DEF ToWorkers
  <1>2. /\ task'[n].state = t.state /\ task'[n].hit = t.hit
        /\ \A m \in Node \ {n} : task'[m] = task[m]
    <2>1. CASE TakeGpuSlot(n, t, d)
      BY <2>1 DEF TakeGpuSlot, TaskType, Task
    <2>2. CASE TakeSmSlot(n, t, d)
      BY <2>2 DEF TakeSmSlot, TaskType, Task
    <2>3. CASE TakeNoSlot(n, t, d)
      BY <2>3 DEF TakeNoSlot, TaskType, Task
    <2> QED BY <1>1, <2>1, <2>2, <2>3
  <1> QED BY <1>2 DEF ToWorkers, doneVars

\* Steps in which no request moves on: the requests are the same, and what the
\* pipeline holds is as AskedInv says.
LEMMA SameRequests ==
  ASSUME RequestInv, QueueInv',
         UNCHANGED <<layer, wanted, pending, outputs>>, decision' # "PREFETCH",
         pc' = "idle" <=> pc = "idle", pc # "idle" => todo' = todo,
         \A m \in Node : /\ Asked(m)' <=> Asked(m)
                         /\ place'[m] = "pushed" <=> place[m] = "pushed"
                         /\ place'[m] \in Active =>
                              (task'[m].hit <=> task'[m].state # "PREFETCH")
                         /\ place'[m] \in {"new", "typeI", "typeII", "exec", "output"} =>
                              task'[m].hit
  PROVE  RequestInv'
  <1>0. MainType /\ MainType'
    BY DEF RequestInv, QueueInv, TypeInv, TypeOK
  <1>1. AskedInv'
    BY DEF RequestInv, AskedInv
  <1>3. ServedInv'
    BY DEF RequestInv, AskedInv, ServedInv
  <1>4. pc # "idle" => Unanswered' = Unanswered
    <2>1. AskedNodes' = AskedNodes
      BY DEF AskedNodes
    <2> QED BY <1>0, <2>1, UnansweredIs
  <1> QED BY <1>1, <1>3, <1>4 DEF RequestInv, CountInv

-----------------------------------------------------------------------------

\* A new call: every expert it asks for is to be enqueued.
LEMMA StartLayerRequests ==
  ASSUME RequestInv, QueueInv', NEW A \in (SUBSET Experts) \ {{}}, StartLayer(A)
  PROVE  RequestInv'
  <1>0. MainType /\ MainType' /\ TaskType
    BY DEF RequestInv, QueueInv, TypeInv, TypeOK
  <1>1. /\ pc = "idle" /\ pc' = "decide" /\ todo' = A /\ wanted' = A
        /\ pending' = Cardinality(A) /\ UNCHANGED <<outputs, place, task>>
    BY DEF StartLayer, taskVars
  <1>a. decision' = decision
    BY DEF StartLayer
  <1>2. \A n \in Node : ~Asked(n) /\ ~Asked(n)'
    BY <1>1 DEF RequestInv, AskedInv, Asked
  <1>3. outputs' = {}
    BY <1>1 DEF RequestInv, AskedInv
  <1>4. AskedInv' /\ ServedInv'
    BY <1>1, <1>2, <1>3, <1>a DEF RequestInv, AskedInv, ServedInv
  <1>5. AskedNodes' = {}
    BY <1>2 DEF AskedNodes
  <1>6. Unanswered' = A
    BY <1>0, <1>1, <1>5, UnansweredIs
  <1> QED BY <1>1, <1>4, <1>6 DEF RequestInv, CountInv

\* An expert leaves todo as its task appears, or as a prefetch becomes its task.
LEMMA EnqueueRequests ==
  ASSUME RequestInv, QueueInv', NEW e \in Experts, EnqueueHit(e) \/ EnqueueNew(e)
  PROVE  RequestInv'
  <1>0. MainType /\ MainType' /\ TaskType /\ LockInv
    BY DEF RequestInv, QueueInv, TypeInv, TypeOK
  <1>1. PICK n \in Node : n = <<layer, e>> /\ n[1] = layer /\ n[2] = e
    BY <1>0, LayerNode
  <1>2. /\ pc = "enqueue" /\ pc' \in {"schedule", "decide"}
        /\ e \in todo /\ todo' = todo \ {e}
        /\ UNCHANGED <<layer, wanted, pending, outputs>>
    BY DEF EnqueueHit, EnqueueNew, Enqueued, Current, doneVars
  <1>3. ~Asked(n)
    BY <1>1, <1>2 DEF RequestInv, AskedInv
  <1>4. /\ task'[n].hit = TRUE /\ task'[n].state # "PREFETCH"
        /\ \A m \in Node \ {n} : task'[m] = task[m] /\ place'[m] = place[m]
        /\ place'[n] \in {"new", "scheduled", "ready"}
    <2>1. CASE EnqueueHit(e)
      BY <1>0, <1>1, <2>1 DEF EnqueueHit, TaskType, Task
    <2>2. CASE EnqueueNew(e)
      <3>1. task'[n] = [NoTask EXCEPT !.hit = TRUE,
                          !.state = IF onGpu[n] THEN "NORMAL" ELSE decision]
        BY <1>0, <1>1, <2>2 DEF EnqueueNew, TaskType
      <3>2. decision # "PREFETCH"
        BY DEF RequestInv, AskedInv
      <3> QED BY <1>0, <1>1, <2>2, <3>1, <3>2 DEF EnqueueNew, NoTask, TaskType
    <2> QED BY <2>1, <2>2
  <1>5. Asked(n)' /\ place'[n] # "pushed" /\ decision' # "PREFETCH"
    BY <1>4 DEF Asked, EnqueueHit, EnqueueNew, Enqueued
  <1>6. \A m \in Node \ {n} : Asked(m)' <=> Asked(m)
    BY <1>4 DEF Asked
  <1>7. e \in wanted /\ n \notin outputs
    BY <1>1, <1>2 DEF RequestInv, AskedInv, ServedInv
  <1>8. \A m \in Node \ {n} : m[1] = layer => m[2] # e
    BY <1>1, NodeParts
  <1>9. AskedInv'
    <2>1. \A m \in Node : Asked(m)' => m[1] = layer' /\ m[2] \in wanted' \ todo' /\ pc' # "idle"
      BY <1>1, <1>2, <1>6, <1>7, <1>8 DEF RequestInv, AskedInv
    <2>2. \A m \in Node : /\ place'[m] \in Active => (task'[m].hit <=> task'[m].state # "PREFETCH")
                          /\ place'[m] \in {"new", "typeI", "typeII", "exec", "output"} => task'[m].hit
      BY <1>4 DEF RequestInv, AskedInv
    <2> QED BY <1>2, <1>5, <2>1, <2>2 DEF RequestInv, AskedInv
  <1>10. ServedInv'
    <2>1. \A m \in outputs' : m[1] = layer' /\ m[2] \in wanted' \ todo'
      BY <1>2 DEF RequestInv, ServedInv
    <2>2. \A m \in Node : Asked(m)' => (m \in outputs' <=> place'[m] = "pushed")
      BY <1>2, <1>4, <1>5, <1>6, <1>7 DEF RequestInv, ServedInv
    <2>3. \A m \in Node : m[1] = layer' /\ m[2] \in wanted' =>
                           m[2] \in todo' \/ Asked(m)' \/ m \in outputs'
      <3> SUFFICES ASSUME NEW m \in Node, m[1] = layer, m[2] \in wanted, m # n
                   PROVE  m[2] \in todo' \/ Asked(m)' \/ m \in outputs'
        BY <1>2, <1>5
      <3>1. m[2] # e
        BY <1>8
      <3>2. m[2] \in todo \/ Asked(m) \/ m \in outputs
        BY <1>2 DEF RequestInv, ServedInv
      <3> QED BY <1>2, <1>6, <3>1, <3>2
    <2> QED BY <2>1, <2>2, <2>3 DEF ServedInv
  <1>11. Unanswered' = Unanswered
    <2>1. AskedNodes' = AskedNodes \cup {n} /\ e \in todo
      BY <1>1, <1>2, <1>5, <1>6 DEF AskedNodes
    <2>2. {m[2] : m \in AskedNodes \cup {n}} = {m[2] : m \in AskedNodes} \cup {e}
      BY <1>1
    <2> QED BY <1>0, <1>2, <2>1, <2>2, UnansweredIs
  <1> QED BY <1>2, <1>9, <1>10, <1>11 DEF RequestInv, CountInv

\* A result is appended: its request is answered, but not yet counted.
LEMMA PushRequests ==
  ASSUME RequestInv, QueueInv', NEW n \in Node, OutputPush(n)
  PROVE  RequestInv'
  <1>0. MainType /\ MainType' /\ TaskType
    BY DEF RequestInv, QueueInv, TypeInv, TypeOK
  <1>1. /\ place[n] = "released" /\ place' = [place EXCEPT ![n] = "pushed"]
        /\ outputs' = outputs \cup {n}
        /\ UNCHANGED <<pc, layer, todo, wanted, decision, task, pending>>
    BY DEF OutputPush, mainVars
  <1>2. \A m \in Node : /\ Asked(m)' <=> Asked(m)
                        /\ m # n => place'[m] = place[m]
    BY <1>0, <1>1 DEF Asked, TaskType
  <1>3. Asked(n) /\ place'[n] = "pushed"
    BY <1>0, <1>1 DEF Asked, TaskType
  <1>4. n[1] = layer /\ n[2] \in wanted \ todo /\ pc # "idle"
    BY <1>3 DEF RequestInv, AskedInv
  <1>5. AskedInv'
    BY <1>1, <1>2, <1>3, <1>4 DEF RequestInv, AskedInv, Active
  <1>6. ServedInv'
    BY <1>1, <1>2, <1>3, <1>4 DEF RequestInv, ServedInv
  <1>7. AskedNodes' = AskedNodes
    BY <1>1, <1>2 DEF AskedNodes
  <1>8. Unanswered' = Unanswered
    BY <1>0, <1>1, <1>7, UnansweredIs
  <1> QED BY <1>1, <1>5, <1>6, <1>8 DEF RequestInv, CountInv

\* A result is counted: its task is gone.
LEMMA SignalRequests ==
  ASSUME RequestInv, QueueInv', NEW n \in Node, OutputSignal(n)
  PROVE  RequestInv' /\ n \in outputs /\ pc # "idle" /\ n[2] \in Unanswered
  <1>0. MainType /\ MainType' /\ TaskType
    BY DEF RequestInv, QueueInv, TypeInv, TypeOK
  <1>1. /\ place[n] = "pushed" /\ place' = [place EXCEPT ![n] = "none"]
        /\ pending' = pending - 1
        /\ UNCHANGED <<pc, layer, todo, wanted, decision, task, outputs>>
    BY DEF OutputSignal, mainVars
  <1>2. Asked(n) /\ ~Asked(n)' /\ place'[n] = "none"
    BY <1>0, <1>1 DEF Asked, TaskType
  <1>3. \A m \in Node \ {n} : (Asked(m)' <=> Asked(m)) /\ place'[m] = place[m]
    BY <1>0, <1>1 DEF Asked, TaskType
  <1>4. n[1] = layer /\ n[2] \in wanted \ todo /\ pc # "idle" /\ n \in outputs
    BY <1>1, <1>2 DEF RequestInv, AskedInv, ServedInv
  <1>5. AskedInv'
    BY <1>1, <1>2, <1>3, <1>4 DEF RequestInv, AskedInv, Active
  <1>6. ServedInv'
    BY <1>1, <1>2, <1>3, <1>4 DEF RequestInv, ServedInv
  <1>7. AskedNodes' = AskedNodes \ {n} /\ n \in AskedNodes
    BY <1>1, <1>2, <1>3, <1>4 DEF AskedNodes
  <1>8. \A m \in AskedNodes : m # n => m[2] # n[2]
    BY <1>4, NodeParts DEF AskedNodes
  <1>9. {m[2] : m \in AskedNodes \ {n}} = {m[2] : m \in AskedNodes} \ {n[2]}
    BY <1>8
  <1>10. Unanswered' = Unanswered \ {n[2]} /\ n[2] \in Unanswered
    BY <1>0, <1>1, <1>4, <1>7, <1>9, UnansweredIs
  <1>11. Unanswered \subseteq Experts
    BY <1>0 DEF Unanswered, MainType
  <1>12. Cardinality(Unanswered') = Cardinality(Unanswered) - 1
    BY <1>10, <1>11, ExpertsFinite, FS_RemoveElement
  <1>13. CountInv'
    BY <1>1, <1>12 DEF RequestInv, CountInv
  <1> QED BY <1>4, <1>5, <1>6, <1>10, <1>13 DEF RequestInv

\* The call returns: with no request unanswered none is in the pipeline.
LEMMA ReturnRequests ==
  ASSUME RequestInv, QueueInv', NEW P, WaitReturn(P)
  PROVE  RequestInv' /\ \A n \in Node : n[1] = layer /\ n[2] \in wanted => n \in outputs
  <1>0. MainType /\ MainType' /\ TaskType
    BY DEF RequestInv, QueueInv, TypeInv, TypeOK
  <1>1. /\ pc = "wait" /\ pending = 0 /\ pc' = "idle" /\ wanted' = {} /\ outputs' = {}
        /\ UNCHANGED <<layer, decision, place, task>>
    BY DEF WaitReturn, taskVars
  <1>2. Unanswered \subseteq Experts
    BY <1>0 DEF Unanswered, MainType
  <1>3. Cardinality(Unanswered) = 0
    BY <1>1 DEF RequestInv, CountInv
  <1>4. Unanswered = {}
    BY <1>2, <1>3, ExpertsFinite, FS_EmptySet
  <1>5. todo = {} /\ AskedNodes = {}
    BY <1>0, <1>4, UnansweredIs
  <1>6. \A n \in Node : ~Asked(n) /\ ~Asked(n)'
    BY <1>1, <1>5 DEF RequestInv, AskedInv, AskedNodes, Asked
  <1>7. AskedInv' /\ ServedInv' /\ CountInv'
    BY <1>1, <1>6 DEF RequestInv, AskedInv, ServedInv, CountInv
  <1> QED BY <1>1, <1>5, <1>6, <1>7 DEF RequestInv, ServedInv

\* ToWorkers takes on a task with no request, or with one it keeps.
LEMMA ToWorkersRequests ==
  ASSUME RequestInv, QueueInv', NEW n \in Node, NEW t \in Task, NEW p, ToWorkers(n, t, p),
         t.hit <=> t.state # "PREFETCH", t.hit <=> Asked(n),
         place[n] # "pushed", UNCHANGED <<layer, wanted>>, decision' # "PREFETCH",
         pc' = "idle" <=> pc = "idle", pc # "idle" => todo' = todo
  PROVE  RequestInv'
  <1>0. TypeInv /\ TaskType
    BY DEF RequestInv, QueueInv, TypeInv, TypeOK
  <1>1. /\ place' = [place EXCEPT ![n] = "scheduled"]
        /\ task'[n].state = t.state /\ task'[n].hit = t.hit
        /\ \A m \in Node \ {n} : task'[m] = task[m]
        /\ UNCHANGED <<pending, outputs>>
    BY <1>0, ToWorkersTask
  <1>2. place'[n] = "scheduled" /\ \A m \in Node \ {n} : place'[m] = place[m]
    BY <1>0, <1>1 DEF TaskType
  <1>3. \A m \in Node : /\ Asked(m)' <=> Asked(m)
                        /\ place'[m] = "pushed" <=> place[m] = "pushed"
                        /\ place'[m] \in Active =>
                             (task'[m].hit <=> task'[m].state # "PREFETCH")
                        /\ place'[m] \in {"new", "typeI", "typeII", "exec", "output"} =>
                             task'[m].hit
    BY <1>1, <1>2 DEF Asked, RequestInv, AskedInv
  <1> QED BY <1>1, <1>3, SameRequests

\* Every step keeps what is known of the requests.
LEMMA StepRequestInv == RequestInv /\ [Next]_vars => RequestInv'
  <1> SUFFICES ASSUME RequestInv, [Next]_vars PROVE RequestInv'
    OBVIOUS
  <1>0. /\ TypeInv /\ MainType /\ TaskType /\ LockInv /\ ReadyInv
        /\ AskedInv /\ decision # "PREFETCH"
    BY DEF RequestInv, AskedInv, QueueInv, TypeInv, TypeOK
  <1>q. QueueInv'
    BY StepQueueInv DEF RequestInv
  <1> DEFINE Same == UNCHANGED <<layer, wanted, pending, outputs>>
             Quiet == /\ decision' # "PREFETCH" /\ (pc' = "idle" <=> pc = "idle")
                      /\ pc # "idle" => todo' = todo
  <1>1. ASSUME Same, Quiet, UNCHANGED <<place, task>> PROVE RequestInv'
    BY <1>0, <1>1, <1>q, SameRequests DEF AskedInv, Asked
  <1>2. ASSUME NEW c \in 0 .. NumExperts - 1, EnqueueDecide(c) PROVE RequestInv'
    <2>1. ProactiveDecision(c) # "PREFETCH"
      BY DEF ProactiveDecision
    <2> QED BY <1>1, <1>2, <2>1 DEF EnqueueDecide, taskVars, doneVars
  <1>3. ASSUME NEW S, OpsSchedule(S) PROVE RequestInv'
    <2>1. Same /\ Quiet
      BY <1>0, <1>3 DEF OpsSchedule, doneVars
    <2>2. ASSUME NEW m \in Node
          PROVE  \/ /\ place[m] = "scheduled" /\ ~task[m].hit
                    /\ place'[m] = "none" /\ task'[m] = NoTask
                 \/ /\ place[m] = "new" /\ place'[m] \in {"typeI", "typeII"} /\ task'[m] = task[m]
                 \/ place'[m] = place[m] /\ place[m] # "new" /\ task'[m] = task[m]
      BY <1>3 DEF OpsSchedule, Discarded, Stale
    <2>3. \A m \in Node : /\ Asked(m)' <=> Asked(m)
                          /\ place'[m] = "pushed" <=> place[m] = "pushed"
                          /\ place'[m] \in Active =>
                               (task'[m].hit <=> task'[m].state # "PREFETCH")
                          /\ place'[m] \in {"new", "typeI", "typeII", "exec", "output"} =>
                               task'[m].hit
      BY <1>0, <2>2 DEF AskedInv, Asked, Active
    <2> QED BY <1>q, <2>1, <2>3, SameRequests
  <1>4. ASSUME NEW n \in Node, NEW b, Submit(n, b) PROVE RequestInv'
    <2>1. place[n] \in {"typeI", "typeII"} /\ task[n] \in Task
      BY <1>0, <1>4 DEF Submit, Eligible, InType, TaskType
    <2>2. /\ ToWorkers(n, task[n], pend[n]) /\ Quiet
          /\ UNCHANGED <<layer, wanted>>
      BY <1>0, <1>4 DEF Submit
    <2>3. task[n].hit /\ task[n].state # "PREFETCH"
      BY <1>0, <2>1 DEF AskedInv, Active
    <2> QED BY <1>q, <2>1, <2>2, <2>3, ToWorkersRequests DEF Asked
  <1>5. ASSUME NEW e \in Experts,
               SubmitPrefetchReady(e) \/ SubmitPrefetchFetch(e) \/ SubmitPrefetchFails(e)
        PROVE  RequestInv'
    <2>1. PICK n \in Node : n = <<NextLayer, e>>
      BY <1>0, NextLayerType DEF Node
    <2>2. pc = "idle" /\ n \notin locked /\ UNCHANGED <<layer, wanted, pc, decision>>
      BY <1>5, <2>1 DEF SubmitPrefetchReady, SubmitPrefetchFetch, SubmitPrefetchFails, Prefetches
    <2>3. ~Asked(n) /\ place[n] \notin Active
      BY <1>0, <2>2 DEF AskedInv, LockInv
    <2>4. PrefetchTask.state = "PREFETCH" /\ PrefetchTask.hit = FALSE
      BY DEF PrefetchTask, NoTask
    <2>5. CASE SubmitPrefetchFetch(e)
      <3>1. ToWorkers(n, PrefetchTask, NumOps(n))
        BY <2>1, <2>5 DEF SubmitPrefetchFetch
      <3> QED BY <1>0, <1>q, <2>2, <2>3, <2>4, <3>1, NoTaskType, ToWorkersRequests DEF Asked
    <2>6. CASE SubmitPrefetchReady(e)
      <3>1. /\ place' = [place EXCEPT ![n] = "ready"] /\ task' = [task EXCEPT ![n] = PrefetchTask]
            /\ Same
        BY <2>1, <2>2, <2>6 DEF SubmitPrefetchReady, doneVars
      <3>2. \A m \in Node : /\ Asked(m)' <=> Asked(m)
                            /\ place'[m] = "pushed" <=> place[m] = "pushed"
                            /\ place'[m] \in Active =>
                                 (task'[m].hit <=> task'[m].state # "PREFETCH")
                            /\ place'[m] \in {"new", "typeI", "typeII", "exec", "output"} =>
                                 task'[m].hit
        <4>1. /\ place'[n] = "ready" /\ task'[n] = PrefetchTask
              /\ \A m \in Node \ {n} : place'[m] = place[m] /\ task'[m] = task[m]
          BY <1>0, <3>1 DEF TaskType
        <4> QED BY <1>0, <2>3, <2>4, <4>1 DEF AskedInv, Asked
      <3> QED BY <1>0, <1>q, <2>2, <3>1, <3>2, SameRequests
    <2>7. CASE SubmitPrefetchFails(e)
      BY <1>0, <1>1, <2>2, <2>7 DEF SubmitPrefetchFails, taskVars, doneVars
    <2> QED BY <1>5, <2>5, <2>6, <2>7
  <1>6. ASSUME NEW n \in Node, NEW o \in Ops, OpDone(n, o) PROVE RequestInv'
    <2>1. /\ Same /\ UNCHANGED <<pc, todo, decision, task>>
          /\ place' = place \/ (place[n] = "scheduled" /\ place' = [place EXCEPT ![n] = "ready"])
      BY <1>6 DEF OpDone, mainVars, doneVars
    <2>2. \A m \in Node : \/ place'[m] = place[m]
                          \/ place[m] = "scheduled" /\ place'[m] = "ready"
      BY <1>0, <2>1 DEF TaskType
    <2> QED BY <1>0, <1>q, <2>1, <2>2, SameRequests DEF AskedInv, Asked, Active
  <1>7. ASSUME NEW n \in Node, Fetch(n) PROVE RequestInv'
    <2>1. place[n] = "ready"
      BY <1>0, <1>7, HeadIsReady DEF Fetch
    <2>2. /\ Same /\ UNCHANGED <<pc, todo, decision>>
          /\ \/ /\ task[n].state = "PREFETCH"
                /\ place' = [place EXCEPT ![n] = "none"] /\ task' = [task EXCEPT ![n] = NoTask]
             \/ /\ task[n].state # "PREFETCH"
                /\ place' = [place EXCEPT ![n] = "exec"] /\ task' = task
      BY <1>7 DEF Fetch, mainVars, doneVars
    <2>3. \A m \in Node :
            \/ place'[m] = place[m] /\ task'[m] = task[m]
            \/ place[m] = "ready" /\ task[m].state = "PREFETCH" /\ place'[m] = "none"
            \/ /\ place[m] = "ready" /\ task[m].state # "PREFETCH"
               /\ place'[m] = "exec" /\ task'[m] = task[m]
      BY <1>0, <2>1, <2>2 DEF TaskType
    <2> QED BY <1>0, <1>q, <2>2, <2>3, SameRequests DEF AskedInv, Asked, Active
  <1>8. ASSUME NEW n \in Node, Exec(n) \/ OutputRelease(n) PROVE RequestInv'
    <2>1. /\ Same /\ UNCHANGED <<pc, todo, decision>> /\ place[n] \in {"exec", "output"}
          /\ \/ place' = [place EXCEPT ![n] = "output"] /\ task' = task
             \/ place' = [place EXCEPT ![n] = "released"] /\ task' = [task EXCEPT ![n] = NoTask]
      BY <1>8 DEF Exec, OutputRelease, mainVars, doneVars
    <2>2. \A m \in Node :
            \/ place'[m] = place[m] /\ task'[m] = task[m]
            \/ /\ place[m] \in {"exec", "output"}
               /\ (place'[m] = "output" /\ task'[m] = task[m]) \/ place'[m] = "released"
      BY <1>0, <2>1 DEF TaskType
    <2> QED BY <1>0, <1>q, <2>1, <2>2, SameRequests DEF AskedInv, Asked, Active
  <1> HIDE DEF Same, Quiet
  <1>9. CASE UNCHANGED vars
    BY <1>0, <1>1, <1>9 DEF vars, mainVars, taskVars, doneVars, Same, Quiet
  <1>10. ASSUME NEW n \in Node, SubmitFails(n) \/ OutputEvictFails(n) PROVE RequestInv'
    BY <1>0, <1>1, <1>10 DEF SubmitFails, OutputEvictFails, mainVars, taskVars, doneVars, Same, Quiet
  <1>11. CASE SubmitDone
    BY <1>0, <1>1, <1>11 DEF SubmitDone, taskVars, doneVars, Same, Quiet
  <1>12. ASSUME NEW w \in stray, StrayDone(w) PROVE RequestInv'
    BY <1>0, <1>1, <1>12 DEF StrayDone, mainVars, doneVars, Same, Quiet
  <1>13. CASE Main
    BY <1>q, <1>2, <1>3, <1>4, <1>10, <1>11, <1>13, EnqueueRequests DEF Main
  <1>14. CASE Prefetch \/ Workers \/ FetchThread \/ ExecThread
    BY <1>5, <1>6, <1>7, <1>8, <1>12, <1>14 DEF Prefetch, Workers, FetchThread, ExecThread
  <1>15. CASE OutputThread
    BY <1>q, <1>8, <1>10, <1>15, PushRequests, SignalRequests DEF OutputThread
  <1> QED BY <1>q, <1>9, <1>13, <1>14, <1>15, StartLayerRequests, ReturnRequests DEF Next

\* pending_ is at every moment of a call the number of requested experts whose
\* result is not counted yet, for any number of layers, experts and threads.
THEOREM PendingExact == Spec => []PendingCountsUnanswered
  <1>1. RequestInv => PendingCountsUnanswered
    <2> SUFFICES ASSUME RequestInv, pc # "idle"
                 PROVE  pending = Cardinality(Unanswered) /\ Unanswered \subseteq wanted
      BY DEF PendingCountsUnanswered
    <2>1. MainType
      BY DEF RequestInv, QueueInv, TypeInv, TypeOK
    <2>2. \A n \in AskedNodes : n[2] \in wanted
      BY DEF RequestInv, AskedInv, AskedNodes
    <2>3. Unanswered \subseteq wanted
      BY <2>1, <2>2, UnansweredIs DEF RequestInv, AskedInv
    <2> QED BY <2>3 DEF RequestInv, CountInv
  <1> QED BY <1>1, InitRequestInv, StepRequestInv, PTL DEF Spec

-----------------------------------------------------------------------------
(* The refinement.                                                         *)

ServedExperts == {n[2] : n \in outputs}

\* An answer is one of a requested expert that had none.
LEMMA PushServes ==
  ASSUME RequestInv, NEW n \in Node, OutputPush(n)
  PROVE  /\ n[2] \in Experts /\ pc # "idle" /\ n[2] \in wanted \ ServedExperts
         /\ ServedExperts' = ServedExperts \cup {n[2]}
         /\ UNCHANGED <<pc, wanted, pending>>
  <1>1. /\ place[n] = "released" /\ outputs' = outputs \cup {n}
        /\ UNCHANGED <<pc, wanted, pending>>
    BY DEF OutputPush, mainVars
  <1>2. Asked(n) /\ n[1] = layer /\ n[2] \in wanted /\ pc # "idle" /\ n \notin outputs
    BY <1>1 DEF RequestInv, AskedInv, ServedInv, Asked
  <1>3. ASSUME NEW m \in outputs, m[2] = n[2] PROVE FALSE
    <2>1. m[1] = layer /\ m \in Node
      BY DEF RequestInv, ServedInv, QueueInv, TypeInv, TypeOK, MainType
    <2>2. m = n
      BY <1>2, <1>3, <2>1, NodeParts
    <2> QED BY <1>2, <2>2
  <1> QED BY <1>1, <1>2, <1>3, NodeParts DEF ServedExperts

\* A count is of an answer that exists: fewer experts are without one than are
\* waited for.
LEMMA SignalAcknowledges ==
  ASSUME RequestInv, QueueInv', NEW n \in Node, OutputSignal(n)
  PROVE  Cardinality(wanted) - Cardinality(ServedExperts) < pending
  <1>0. MainType
    BY DEF RequestInv, QueueInv, TypeInv, TypeOK
  <1>1. n \in outputs /\ pc # "idle" /\ n[2] \in Unanswered
    BY SignalRequests
  <1>2. ServedExperts \subseteq wanted /\ wanted \subseteq Experts /\ Unanswered \subseteq Experts
    BY <1>0 DEF RequestInv, ServedInv, ServedExperts, MainType, Unanswered
  <1>3. wanted \ ServedExperts \subseteq Unanswered \ {n[2]}
    <2> SUFFICES ASSUME NEW e \in wanted, e \notin ServedExperts
                 PROVE  e \in Unanswered \ {n[2]}
      OBVIOUS
    <2>1. PICK m \in Node : m[1] = layer /\ m[2] = e
      BY <1>0, <1>2, LayerNode
    <2>2. m \notin outputs
      BY <2>1 DEF ServedExperts
    <2>3. e \in todo \/ Asked(m)
      BY <1>1, <2>1, <2>2 DEF RequestInv, ServedInv
    <2>4. e \in Unanswered
      BY <1>0, <2>1, <2>3, UnansweredIs DEF AskedNodes
    <2> QED BY <1>1, <2>4 DEF ServedExperts
  <1>4. /\ IsFiniteSet(wanted) /\ IsFiniteSet(ServedExperts) /\ IsFiniteSet(Unanswered)
        /\ Cardinality(wanted) \in Nat /\ Cardinality(ServedExperts) \in Nat
        /\ Cardinality(Unanswered) \in Nat
    BY <1>2, ExpertsFinite
  <1>5. Cardinality(wanted \ ServedExperts) = Cardinality(wanted) - Cardinality(ServedExperts)
    <2>1. wanted \cap ServedExperts = ServedExperts
      BY <1>2
    <2> QED BY <1>4, <2>1, FS_Difference
  <1>6. Cardinality(Unanswered \ {n[2]}) = Cardinality(Unanswered) - 1
    BY <1>1, <1>4, FS_RemoveElement
  <1>7. Cardinality(wanted \ ServedExperts) <= Cardinality(Unanswered \ {n[2]})
    <2>1. IsFiniteSet(Unanswered \ {n[2]})
      BY <1>4, FS_RemoveElement
    <2> QED BY <1>3, <2>1, FS_Subset
  <1>8. pending = Cardinality(Unanswered)
    BY <1>1 DEF RequestInv, CountInv
  <1> QED BY <1>4, <1>5, <1>6, <1>7, <1>8

\* What the call returns is all that was asked for.
LEMMA ReturnCollects ==
  ASSUME RequestInv, QueueInv', NEW P, WaitReturn(P)
  PROVE  ServedExperts = wanted
  <1>0. MainType
    BY DEF RequestInv, QueueInv, TypeInv, TypeOK
  <1>1. \A n \in Node : n[1] = layer /\ n[2] \in wanted => n \in outputs
    BY ReturnRequests
  <1>2. \A e \in wanted : \E n \in Node : n[1] = layer /\ n[2] = e
    BY <1>0, LayerNode DEF MainType
  <1>3. ServedExperts \subseteq wanted
    BY DEF RequestInv, ServedInv, ServedExperts
  <1> QED BY <1>1, <1>2, <1>3 DEF ServedExperts

\* The instance of ExpertService counts with the same Cardinality.
LEMMA SameCardinality == \A S : Service!Cardinality(S) = Cardinality(S)
  BY DEF Service!Cardinality, Cardinality

\* The other steps leave what ExpertService sees alone.
LEMMA StepService ==
  RequestInv /\ QueueInv' /\ [Next]_vars => [Service!ServiceNext]_(Service!serviceVars)
  <1> SUFFICES ASSUME RequestInv, QueueInv', [Next]_vars
               PROVE  [Service!ServiceNext]_(Service!serviceVars)
    OBVIOUS
  <1>1. ASSUME NEW A \in (SUBSET Experts) \ {{}}, StartLayer(A) PROVE Service!Request(A)
    <2>1. /\ pc = "idle" /\ pc' = "decide" /\ wanted' = A /\ pending' = Cardinality(A)
          /\ outputs' = {}
      BY <1>1 DEF StartLayer, RequestInv, AskedInv
    <2> QED BY <2>1, SameCardinality DEF Service!Request
  <1>2. ASSUME NEW n \in Node, OutputPush(n) PROVE \E e \in Experts : Service!Serve(e)
    <2>1. /\ n[2] \in Experts /\ pc # "idle" /\ n[2] \in wanted \ ServedExperts
          /\ ServedExperts' = ServedExperts \cup {n[2]}
          /\ UNCHANGED <<pc, wanted, pending>>
      BY <1>2, PushServes
    <2>2. Service!Serve(n[2])
      BY <2>1 DEF Service!Serve, ServedExperts
    <2> QED BY <2>1, <2>2
  <1>3. ASSUME NEW n \in Node, OutputSignal(n) PROVE Service!Acknowledge
    <2>1. /\ pc # "idle" /\ pending' = pending - 1 /\ UNCHANGED <<pc, wanted, outputs>>
      BY <1>3, SignalRequests DEF OutputSignal, mainVars
    <2>2. Cardinality(wanted) - Cardinality(ServedExperts) < pending
      BY <1>3, SignalAcknowledges
    <2> QED BY <2>1, <2>2, SameCardinality DEF Service!Acknowledge, ServedExperts
  <1>4. ASSUME NEW P, WaitReturn(P) PROVE Service!Collect
    <2>1. /\ pc = "wait" /\ pending = 0 /\ pc' = "idle" /\ wanted' = {} /\ outputs' = {}
          /\ pending' = pending
      BY <1>4 DEF WaitReturn
    <2>2. ServedExperts = wanted
      BY <1>4, ReturnCollects
    <2> QED BY <2>1, <2>2 DEF Service!Collect, ServedExperts
  <1>5. ASSUME UNCHANGED <<wanted, outputs, pending>>, pc' = "idle" <=> pc = "idle"
        PROVE  UNCHANGED Service!serviceVars
    BY <1>5 DEF Service!serviceVars
  <1>6. CASE Main
    BY <1>5, <1>6
       DEF Main, EnqueueHit, EnqueueNew, Enqueued, EnqueueDecide, OpsSchedule, SubmitFails, Submit,
           SubmitDone, ToWorkers, mainVars, doneVars
  <1>7. CASE Prefetch
    BY <1>5, <1>7
       DEF Prefetch, SubmitPrefetchReady, SubmitPrefetchFetch, SubmitPrefetchFails, Prefetches,
           ToWorkers, doneVars
  <1>8. CASE Workers \/ FetchThread \/ ExecThread \/ UNCHANGED vars
    BY <1>5, <1>8
       DEF Workers, FetchThread, ExecThread, OpDone, StrayDone, Fetch, Exec, vars, mainVars, doneVars
  <1>9. CASE OutputThread
    <2>1. ASSUME NEW n \in Node, OutputRelease(n) \/ OutputEvictFails(n)
          PROVE  UNCHANGED Service!serviceVars
      BY <1>5, <2>1 DEF OutputRelease, OutputEvictFails, mainVars, doneVars
    <2> QED BY <1>2, <1>3, <1>9, <2>1 DEF OutputThread, Service!ServiceNext
  <1> QED BY <1>1, <1>4, <1>6, <1>7, <1>8, <1>9 DEF Next, Service!ServiceNext

\* The serving path implements ExpertService: every requested expert is served
\* once, none is counted before it is served, and the call returns when all are,
\* with or without planning, prefetch, room in the pools and faults.
THEOREM RequestsServed == Spec => ServesEachOnce
  <1>1. Init => Service!ServiceInit
    BY DEF Init, Service!ServiceInit
  <1>2. RequestInv => QueueInv
    BY DEF RequestInv
  <1> QED BY <1>1, <1>2, InitRequestInv, StepRequestInv, StepService, PTL
          DEF Spec, ServesEachOnce, Service!ServiceSpec

=============================================================================
