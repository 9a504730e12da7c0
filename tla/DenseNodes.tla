---------------------------- MODULE DenseNodes ----------------------------
(***************************************************************************)
(* The dense parameters of the model (attention, norms, router, shared     *)
(* experts) as the hooks of each torch module acquire and release them.    *)
(* All dense nodes are put on the GPU when the topology is built, so that  *)
(* acquiring is bookkeeping: the set of tensors of the node that have not  *)
(* been released, the mutex of the node, which stays locked from the first *)
(* acquire to the last release, the task in the exec queue, and the map    *)
(* from data pointers to tensors.  All of it happens on the Python thread. *)
(***************************************************************************)
EXTENDS Topology

VARIABLES
  module, phase,   \* the module that runs, and the hook or its body
  todo,            \* the parameters that the hook has still to go through
  wanted,          \* node_id_to_tensor_ids_
  locked,          \* nodes whose mutex is held
  execQueue,       \* exec_queue_
  lastNode, lastLayer

vars == <<topologyVars, module, phase, todo, wanted, locked, execQueue, lastNode, lastLayer>>
nodeVars == <<wanted, locked, execQueue, lastNode, lastLayer>>

\* A tensor of a dense node has its own place in the dense pool.
Gpu(t) == <<"gpu", place[t]>>

\* The nodes and tensors by their ids.
Nodes == 0 .. Len(AllNodes) - 1
NodeOf(t) == GetNodeFromTensorID(t).id
LayerOf(n) == AllNodes[n + 1].layer
TensorsOf(n) == Range(AllNodes[n + 1].tensors)

\* The modules with parameters of their own, which are no experts.
Modules == {params[i].module : i \in {j \in DOMAIN params : params[j].expert = None}}
ParamsOf(m) ==
  FlattenSeq([i \in DOMAIN params |->
                IF params[i].module = m /\ params[i].expert = None THEN <<params[i].id>> ELSE <<>>])

\* No hook has run; wanted is a map without entries.
Init ==
  /\ TopologyInit
  /\ module = None /\ phase = "idle" /\ todo = <<>>
  /\ wanted = <<>> /\ locked = {} /\ execQueue = {}
  /\ lastNode = None /\ lastLayer = 0

Wanted(n) == IF n \in DOMAIN wanted THEN wanted[n] ELSE {}

Free == CpuCells \ Range(ptr)

\* Mutant: UpdateTensorMap keeps the old pointer.
RepointKeeps(t, new) ==
  /\ ptr' = [ptr EXCEPT ![t] = new]
  /\ tensorToId' = [a \in DOMAIN tensorToId \cup {new} |->
                      IF a \in DOMAIN tensorToId THEN tensorToId[a]
                      ELSE tensorToId[ptr[t]]]
  /\ offloadSet' = (offloadSet \ {ptr[t]}) \cup {new}

\* UpdateTensorMap, and the hook's own remove and add.
Repoint(t, new) ==
  /\ ptr' = [ptr EXCEPT ![t] = new]
  /\ tensorToId' = [a \in (DOMAIN tensorToId \ {ptr[t]}) \cup {new} |->
                      IF a \in DOMAIN tensorToId \ {ptr[t]} THEN tensorToId[a]
                      ELSE tensorToId[ptr[t]]]
  /\ offloadSet' = (offloadSet \ {ptr[t]}) \cup {new}

-----------------------------------------------------------------------------

\* A module's forward begins with its pre hook.
Enter(m) ==
  /\ topoAt = "ready" /\ module = None
  /\ lastNode = None => m = params[1].module
  /\ module' = m /\ phase' = "pre" /\ todo' = ParamsOf(m)
  /\ UNCHANGED <<builtVars, ptrVars, nodeVars>>

\* StartExec finds the node on the GPU, so that nothing is queued for the thread
\* that would bring it there: its task is put in the exec queue and it is ready.
StartExec(n) == execQueue' = execQueue \cup {n}

\* AcquireTensor of the first tensor of a node: lock its mutex, which no other
\* thread will unlock, and start its execution.
AcquireFirst ==
  LET t == Head(todo)  id == tensorToId[ptr[t]]  n == NodeOf(id) IN
  /\ phase = "pre" /\ todo # <<>> /\ ptr[t] \in offloadSet
  /\ Wanted(n) = {} /\ n \notin locked
  /\ wanted' = With(wanted, n, TensorsOf(n))
  /\ locked' = locked \cup {n} /\ StartExec(n)
  /\ Repoint(t, Gpu(id)) /\ todo' = Tail(todo)
  /\ UNCHANGED <<builtVars, module, phase, lastNode, lastLayer>>

\* AcquireTensor of another one.
AcquireMore ==
  LET t == Head(todo)  id == tensorToId[ptr[t]] IN
  /\ phase = "pre" /\ todo # <<>> /\ ptr[t] \in offloadSet
  /\ Wanted(NodeOf(id)) # {}
  /\ Repoint(t, Gpu(id)) /\ todo' = Tail(todo)
  /\ UNCHANGED <<builtVars, module, phase, nodeVars>>

Forward ==
  /\ phase = "pre" /\ todo = <<>>
  /\ phase' = "post" /\ todo' = ParamsOf(module)
  /\ UNCHANGED <<builtVars, ptrVars, module, nodeVars>>

\* Mutant: no node is let go but for its own last tensor.
LeftNobody(n) == {}

\* ReleaseTensor lets go of the last node when the layer changed, though not all
\* of its tensors were released ...
Left(n) == IF /\ LayerOf(n) # lastLayer /\ lastNode # None
              /\ Wanted(lastNode) # {}
           THEN {lastNode} ELSE {}

\* Mutant: that node is forgotten, but its mutex not unlocked.
FreedNotLeft(n, rest) == IF rest[n] = {} THEN {n} ELSE {}

\* ... and of the tensor's own node when this was its last tensor.
Freed(n, rest) == Left(n) \cup (IF rest[n] = {} THEN {n} ELSE {})

\* What is wanted once the tensor was released.
Rest(id) == [m \in DOMAIN wanted \cup {NodeOf(id)} |->
               IF m = NodeOf(id) THEN Wanted(m) \ {id}
               ELSE IF m \in Left(NodeOf(id)) THEN {} ELSE wanted[m]]

Release ==
  LET t == Head(todo)  id == tensorToId[ptr[t]]  n == NodeOf(id) IN
  /\ phase = "post" /\ todo # <<>> /\ ptr[t] \in offloadSet
  /\ wanted' = Rest(id)
  /\ locked' = locked \ Freed(n, Rest(id)) /\ execQueue' = execQueue \ Freed(n, Rest(id))
  /\ lastNode' = n /\ lastLayer' = LayerOf(n)
  /\ \E c \in Free : Repoint(t, c)
  /\ todo' = Tail(todo)
  /\ UNCHANGED <<builtVars, module, phase>>

Return ==
  /\ phase = "post" /\ todo = <<>>
  /\ module' = None /\ phase' = "idle"
  /\ UNCHANGED <<builtVars, ptrVars, todo, nodeVars>>

Hook == \/ \E m \in Modules : Enter(m)
        \/ AcquireFirst \/ AcquireMore \/ Forward \/ Release \/ Return

hookVars == <<module, phase, todo, nodeVars>>
Next == (TopologyNext /\ UNCHANGED hookVars) \/ Hook

Spec == Init /\ [][Next]_vars

-----------------------------------------------------------------------------
(* Properties.                                                             *)

\* A node's mutex is held, and its task is in the exec queue, from the first
\* acquire of one of its tensors until none is wanted: a node that a pass left
\* half used is not held twice, nor freed with tensors outstanding.
HeldWhileWanted ==
  locked = {n \in DOMAIN wanted : Wanted(n) # {}} /\ execQueue = locked

\* Between two modules at most the node released last is still held, however
\* many nodes the passes left half used.
OnlyLastHeld == module = None => locked \subseteq {lastNode}

\* The maps on both sides know the current pointer of every parameter and no
\* other, so that an address the allocator hands out again is not taken for the
\* tensor that used to be there.
PointersKnown ==
  /\ \A t \in DOMAIN ptr : ptr[t] \in DOMAIN tensorToId /\ tensorToId[ptr[t]] = t
  /\ DOMAIN tensorToId = Range(ptr) /\ offloadSet = Range(ptr)

\* The next hook does not lock a mutex the thread already holds, unlock one that
\* is not held, or ask for the last node before there is one.
NextHookIsSafe ==
  (phase # "idle" /\ todo # <<>>) =>
    LET n == NodeOf(Head(todo)) IN
    IF phase = "pre" THEN Wanted(n) = {} => n \notin locked
    ELSE /\ LayerOf(n) # lastLayer => lastNode # None
         /\ Freed(n, Rest(Head(todo))) \subseteq locked
=============================================================================
