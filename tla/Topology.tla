------------------------------ MODULE Topology ------------------------------
(***************************************************************************)
(* From the parameters of the model, in the order in which torch names     *)
(* them, to what the engine works with: get_topology groups them by the    *)
(* prefixes of their names, InitializeTopology makes stages of nodes of    *)
(* the groups and lays the dense ones out in one pool on the GPU, and      *)
(* register_expert fills the dispatcher's table of experts.  All of it     *)
(* happens on the Python thread before the first hook.                     *)
(*                                                                         *)
(* A name is its parts: the prefix up to its last number (None if it has   *)
(* none), the module that holds the parameter, and the expert it belongs   *)
(* to (None if to none, or to a shared one).                               *)
(***************************************************************************)
EXTENDS Integers, Sequences, SequencesExt, FiniteSets, FiniteSetsExt

CONSTANTS
  Models,   \* the named parameters of the models that may be loaded
  Cells,    \* addresses of one-element CPU tensors
  None

\* What torch's names and shapes are like: each parameter has an id and a size of
\* its own, ...
ASSUME TopologyAssumption ==
  /\ None \notin Nat
  /\ \A model \in Models :
       /\ model \in Seq(Range(model))
       /\ \A i \in DOMAIN model :
            /\ DOMAIN model[i] = {"id", "prefix", "module", "expert", "size"}
            /\ model[i].size \in Nat \ {0} /\ model[i].module # None
       /\ \A i, j \in DOMAIN model : model[i].id = model[j].id => i = j
       /\ Cardinality(Cells) >= Cardinality({i \in DOMAIN model : model[i].expert = None})

\* ... the experts of a block are numbered from 0 in the order of their modules and
\* not alone, the parameters of a module have its name in common, and a model begins
\* with its embedding.
ASSUME NamesAssumption ==
  \A model \in Models :
    /\ \A i \in DOMAIN model : model[i].expert # None =>
         /\ model[i].prefix # None /\ model[i].expert \in Nat
         /\ model[i].expert = 0 \/ \E j \in 1 .. i - 1 :
              model[j].prefix = model[i].prefix /\ model[j].expert = model[i].expert - 1
         /\ \E j \in DOMAIN model : /\ model[j].prefix = model[i].prefix
                                   /\ model[j].expert \notin {None, model[i].expert}
    /\ \A i, j \in DOMAIN model :
         (model[i].expert = None /\ model[j].expert = None /\ model[i].module = model[j].module)
           => model[i].prefix = model[j].prefix
    /\ model # <<>> => model[1].expert = None

VARIABLES
  params,      \* named_parameters
  topoAt,      \* "register", "pool", "pin", "experts" or "ready"
  next,        \* where the loop of that step is
  ptr,         \* the data pointer of each registered parameter
  tensorToId,  \* tensor_to_id_
  offloadSet,  \* offload_set, on the Python side
  stages,      \* pipeline_.stages
  poolSize,    \* of the dense pool
  poolUsed,    \* dense_offset
  place,       \* where each pinned tensor begins in the pool
  experts      \* experts_: the node of each layer and expert index

topologyVars == <<params, topoAt, next, ptr, tensorToId, offloadSet, stages,
                  poolSize, poolUsed, place, experts>>
ptrVars   == <<ptr, tensorToId, offloadSet>>
builtVars == <<params, topoAt, next, stages, poolSize, poolUsed, place, experts>>

SizeOf(t) == params[SelectInSeq(params, LAMBDA p : p.id = t)].size
\* What a loop has summed up after each turn.
Sums(w) == LET sum[i \in 0 .. Len(w)] == IF i = 0 THEN 0 ELSE sum[i - 1] + w[i] IN sum
SumOf(w) == Sums(w)[Len(w)]

Sizes(ids) == [i \in DOMAIN ids |-> SizeOf(ids[i])]
Bytes(ids) == SumOf(Sizes(ids))

-----------------------------------------------------------------------------
(* get_topology.                                                           *)

\* stored_name.
KeyOf(p) == IF p.prefix = None THEN <<"module", p.module>>
            ELSE IF p.expert # None THEN <<"experts", p.prefix>>
            ELSE <<"prefix", p.prefix>>

\* ret_dict keeps the keys, and an expert key its experts, in the order in which
\* they first appear; other keys have one list.
AddParam(topo, p) ==
  LET list == [expert |-> p.expert, tensors |-> <<p.id>>]
      g == SelectInSeq(topo, LAMBDA a : a.key = KeyOf(p))
      l == IF g = 0 THEN 0 ELSE SelectInSeq(topo[g].lists, LAMBDA a : a.expert = p.expert)
  IN  IF g = 0 THEN Append(topo, [key |-> KeyOf(p), lists |-> <<list>>])
      ELSE IF l = 0 THEN [topo EXCEPT ![g].lists = Append(@, list)]
      ELSE [topo EXCEPT ![g].lists[l].tensors = Append(@, p.id)]

\* After each parameter, and after the last one.
Grouped(seq) ==
  LET topo[i \in 0 .. Len(seq)] == IF i = 0 THEN <<>> ELSE AddParam(topo[i - 1], seq[i]) IN topo
GetTopology == Grouped(params)[Len(params)]

-----------------------------------------------------------------------------
(* The nodes.                                                              *)

\* Numbered through; the layer is the low word of corr_id.
NodesOf(topo, s) ==
  LET before == Sums([i \in DOMAIN topo |-> Len(topo[i].lists)])[s - 1]
  IN  [j \in DOMAIN topo[s].lists |->
         [id |-> before + j - 1, layer |-> s - 1, tensors |-> topo[s].lists[j].tensors,
          size |-> Bytes(topo[s].lists[j].tensors)]]

StagesOf(topo) ==
  [s \in DOMAIN topo |-> [sparse |-> Len(topo[s].lists) > 1, nodes |-> NodesOf(topo, s)]]

NodesWith(sparse) ==
  FlattenSeq([s \in DOMAIN stages |->
                IF stages[s].sparse = sparse THEN stages[s].nodes ELSE <<>>])
GetDenseNodes  == NodesWith(FALSE)
GetSparseNodes == NodesWith(TRUE)
AllNodes == FlattenSeq([s \in DOMAIN stages |-> stages[s].nodes])

\* The first node that lists the tensor.
GetNodeFromTensorID(t) == AllNodes[SelectInSeq(AllNodes, LAMBDA n : t \in Range(n.tensors))]
GetDenseNodesTotalSize == SumOf([i \in DOMAIN GetDenseNodes |-> GetDenseNodes[i].size])

-----------------------------------------------------------------------------

TopologyInit ==
  /\ params \in Models
  /\ topoAt = "register" /\ next = 1
  /\ ptr = <<>> /\ tensorToId = <<>> /\ offloadSet = {}
  /\ stages = <<>> /\ poolSize = 0 /\ poolUsed = 0 /\ place = <<>> /\ experts = <<>>

CpuCells == {"cpu"} \X Cells

With(f, x, y) == [a \in DOMAIN f \cup {x} |-> IF a = x THEN y ELSE f[a]]

\* One turn of the first loop of setup_zipmoe_hooks: every parameter has a data
\* pointer of its own.  Those of the experts are never touched again.
RegisterTensor ==
  /\ topoAt = "register" /\ next <= Len(params)
  /\ LET t == params[next].id IN
     \E a \in IF params[next].expert = None THEN CpuCells \ offloadSet ELSE {<<"expert", t>>} :
       /\ ptr' = With(ptr, t, a)
       /\ tensorToId' = With(tensorToId, a, t)
       /\ offloadSet' = offloadSet \cup {a}
  /\ next' = next + 1
  /\ UNCHANGED <<params, topoAt, stages, poolSize, poolUsed, place, experts>>

\* InitializeTopology makes the stages ...
BuildStages ==
  /\ topoAt = "register" /\ next > Len(params)
  /\ stages' = StagesOf(GetTopology)
  /\ topoAt' = "pool" /\ next' = 1
  /\ UNCHANGED <<params, ptrVars, poolSize, poolUsed, place, experts>>

\* ... and the dense pool ...
SetUpDensePool ==
  /\ topoAt = "pool"
  /\ poolSize' = GetDenseNodesTotalSize
  /\ topoAt' = "pin"
  /\ UNCHANGED <<params, next, ptrVars, stages, poolUsed, place, experts>>

StartIn(node, t) ==
  Sums(Sizes(node.tensors))[SelectInSeq(node.tensors, LAMBDA u : u = t) - 1]

\* Mutant: the offset moves on by the last tensor of the node only.
PinDenseShort ==
  LET node == GetDenseNodes[next]
      put == [t \in Range(node.tensors) |-> poolUsed + StartIn(node, t)] IN
  /\ topoAt = "pin" /\ next <= Len(GetDenseNodes)
  /\ place' = [t \in DOMAIN place \cup DOMAIN put |-> IF t \in DOMAIN put THEN put[t] ELSE place[t]]
  /\ poolUsed' = poolUsed + SizeOf(Last(node.tensors))
  /\ next' = next + 1
  /\ UNCHANGED <<params, topoAt, ptrVars, stages, poolSize, experts>>

\* ... and pins one dense node after the other, each tensor behind the one before:
\* its bytes are read from the file and its tensor becomes a view of them.
PinDense ==
  LET node == GetDenseNodes[next]
      put == [t \in Range(node.tensors) |-> poolUsed + StartIn(node, t)] IN
  /\ topoAt = "pin" /\ next <= Len(GetDenseNodes)
  /\ place' = [t \in DOMAIN place \cup DOMAIN put |-> IF t \in DOMAIN put THEN put[t] ELSE place[t]]
  /\ poolUsed' = poolUsed + node.size
  /\ next' = next + 1
  /\ UNCHANGED <<params, topoAt, ptrVars, stages, poolSize, experts>>

\* The sparse nodes are sent to the disk, where they already are.
SparseToDisk ==
  /\ topoAt = "pin" /\ next > Len(GetDenseNodes)
  /\ topoAt' = "experts" /\ next' = 1
  /\ UNCHANGED <<params, ptrVars, stages, poolSize, poolUsed, place, experts>>

IsExpertKey(g) == g.key[1] = "experts"
ExpertGroups == FlattenSeq([s \in DOMAIN GetTopology |->
                             IF IsExpertKey(GetTopology[s]) THEN <<GetTopology[s]>> ELSE <<>>])

\* Mutant: every key counts as a layer of experts.
RegisterExpertsByStage ==
  LET s == SelectInSeq(GetTopology, LAMBDA a : a = ExpertGroups[next])
      lists == ExpertGroups[next].lists IN
  /\ topoAt = "experts" /\ next <= Len(ExpertGroups)
  /\ experts' = [x \in DOMAIN experts \cup ({s - 1} \X (0 .. Len(lists) - 1)) |->
                   IF x \in DOMAIN experts THEN experts[x]
                   ELSE GetNodeFromTensorID(lists[x[2] + 1].tensors[1]).id]
  /\ next' = next + 1
  /\ UNCHANGED <<params, topoAt, ptrVars, stages, poolSize, poolUsed, place>>

\* register_expert for the experts of one key; the node is that of the first
\* tensor, and a tensor of another node would be fatal.
RegisterExperts ==
  LET lists == ExpertGroups[next].lists IN
  /\ topoAt = "experts" /\ next <= Len(ExpertGroups)
  /\ \A l \in DOMAIN lists : \A t \in Range(lists[l].tensors) :
       GetNodeFromTensorID(t) = GetNodeFromTensorID(lists[l].tensors[1])
  /\ experts' = [x \in DOMAIN experts \cup ({next - 1} \X (0 .. Len(lists) - 1)) |->
                   IF x \in DOMAIN experts THEN experts[x]
                   ELSE GetNodeFromTensorID(lists[x[2] + 1].tensors[1]).id]
  /\ next' = next + 1
  /\ UNCHANGED <<params, topoAt, ptrVars, stages, poolSize, poolUsed, place>>

Ready ==
  /\ topoAt = "experts" /\ next > Len(ExpertGroups)
  /\ topoAt' = "ready" /\ next' = 1
  /\ UNCHANGED <<params, ptrVars, stages, poolSize, poolUsed, place, experts>>

TopologyNext == \/ RegisterTensor \/ BuildStages \/ SetUpDensePool \/ PinDense
                \/ SparseToDisk \/ RegisterExperts \/ Ready

-----------------------------------------------------------------------------
(* Properties.                                                             *)

DenseTensors == UNION {Range(n.tensors) : n \in Range(GetDenseNodes)}

\* Once pinned, the dense tensors divide the pool among them: no two overlap,
\* none sticks out, and nothing is left over, although the pool is sized over the
\* nodes, the nodes follow each other by their sizes and the tensors by theirs.
\* Each parameter that is no expert's is one of them.
PoolPartitioned ==
  topoAt \in {"experts", "ready"} =>
    /\ DOMAIN place = DenseTensors
    /\ DenseTensors = {params[i].id : i \in {j \in DOMAIN params : params[j].expert = None}}
    /\ \A t, u \in DenseTensors :
         t # u => place[t] + SizeOf(t) <= place[u] \/ place[u] + SizeOf(u) <= place[t]
    /\ \A t \in DenseTensors : place[t] + SizeOf(t) <= poolSize
    /\ \A b \in 0 .. poolSize - 1 : \E t \in DenseTensors : b \in place[t] .. place[t] + SizeOf(t) - 1

\* The parameters of experts, and how many blocks of experts begin before that of
\* a prefix: from_pretrained counts them in the order of the modules for layer_id.
ExpertParams == {i \in DOMAIN params : params[i].expert # None}
BlockOf(prefix) ==
  Cardinality({params[j].prefix : j \in {h \in ExpertParams :
    \A i \in ExpertParams : params[i].prefix = prefix => h < i}})

\* The expert that the router of block b calls e is the node the dispatcher finds
\* at (b, e), with the matrices of that expert in their order, and it finds no
\* others.  The blocks are counted over the modules, the table over the keys that
\* get_topology found in the names.
ExpertsInPlace ==
  topoAt = "ready" =>
    /\ DOMAIN experts = {<<BlockOf(params[i].prefix), params[i].expert>> : i \in ExpertParams}
    /\ \A i \in ExpertParams :
         LET own == {j \in ExpertParams : /\ params[j].prefix = params[i].prefix
                                          /\ params[j].expert = params[i].expert}
             tensors == AllNodes[experts[<<BlockOf(params[i].prefix), params[i].expert>>] + 1].tensors
         IN  /\ Range(tensors) = {params[j].id : j \in own}
             /\ \A x, y \in DOMAIN tensors : \A j, h \in own :
                  tensors[x] = params[j].id /\ tensors[y] = params[h].id => (x < y <=> j < h)
=============================================================================
