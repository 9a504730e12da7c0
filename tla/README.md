# A TLA+ model of ZipMoE

ZipMoE serves mixture-of-experts language models whose experts do not fit in
memory. Expert weights are stored compressed: the exponent bytes of the bf16
words in LZ4/ZSTD chunks, the sign-mantissa bytes raw. When the router activates
an expert, its two planes are read and decompressed into a *dock* (pinned
staging memory), a CUDA kernel puts the words together in a slot of the GPU
cache, and the expert runs. The specifications beside this file model that
serving path: who owns which memory, in which order the threads hand a task on,
and whether every call is answered, on the right weights.

Paths below are relative to the repository.

## Inventory

| Component | State | Operations | Hard behaviour |
|---|---|---|---|
| Expert executor and predictor (`experts/`) | the experts activated by the router, access history | `dispatch_local`: set inputs and queue length, enqueue each expert, `ops_schedule`, `wait_expert`, prefetch the predicted experts | one Python thread drives the whole C++ pipeline |
| Sparse blocks of the models (`customized/`) | the router's mask, the layer's output | `forward` of the DeepSeek, Qwen and Switch blocks: route, dispatch, combine the results | results come in the order of loading; the dispatcher works on a copy of the mask it holds without a lock |
| Expert dispatcher (`csrc/dispatcher/`) | exec and output queues, `output_queue_`, `pending_` | `EnqueueExpert`, `SubmitPrefetch`, `GPUFetchFunc`, `GPUExecFunc`, `OutputFunc`, `Wait`, `StartThreads` | three threads and a condition variable; a node mutex that one thread locks and another unlocks |
| Tensor engine, loading (`csrc/tensor_engine/`) | new, scheduled and ready queues, the count of pending operations per task | `ZipMoESchedulerFunc`, `ToWorkers`, SM read, exponent read and decompression, `task_ready_notify`, discard of a prefetch | operations of one task run on many threads; a discarded task may still have one running |
| Thread pool (`thread_pool.cpp`, `tasks.cpp`) | priority queue, stop flag, running tasks, a token per task | `add_task`, `worker_loop`, `preempt_task`, `stop` | wakeups between the test of the queue and the sleep; stopping with tasks queued |
| Expert cache (`csrc/memory/`) | slots of the GPU pool and the pinned SM pool, access counts | `ProactiveDecision`, register, unregister, `UpdateOnHit` | a decision made before the registrations it is about; victims chosen among nodes other threads work on |
| Eviction policies (`cache.cpp`) | per-slot metadata | `select_victim_slot`, `on_hit`, `on_miss`, `on_evict` for ZipMoE, LRU, LFU, FIFO, Marking | all slots protected; metadata out of step with the pool |
| Memory docks (`csrc/kernels/memory_docks.cu`) | free docks, node to dock | register, get, unregister | exactly one dock per expert of a layer |
| Nodes and topology (`csrc/topology/`, `get_topology`) | stages and nodes, the dense pool, the table of experts; device, memory and SM pointer of every node | `get_topology`, `InitializeTopology`, `PinDense`, `register_expert`, `SetDevice`, `SetSM` | three numberings of the expert layers that nothing compares; offsets that are sums of sizes; pointers outlive the slot they point into |
| Dense nodes (`csrc/prefetch/`) | tensor sets per node, last node, tasks of the GPU thread | `AcquireTensor`, `ReleaseTensor`, `StartExec`, `StopExec` | mutexes held across calls of different hooks |
| Offloading (`tensor_engine.cpp`, `csrc/base/`, `runtime/model_offload.py`) | offload file, index, name and id maps | compress a batch in the compute pool, append, serialise the index | chunks end in any order; a crash before the index or the maps are written |
| Tensor recovery (`tensor_recover.cu`, `compressors.cpp`, `split_and_extract`) | none | split bf16 into planes, chunk, compress, recover | odd lengths, unequal chunks |
| Cache planner (`runtime/cache_planning.py`) | the listed shares and their delays | walk over the shares of the GPU pool, weigh each by its hits, smooth, choose | a plan smaller than a layer; tables updated in place |
| Hooks, bindings, logging, evaluation, vendored models | | | glue and output |

What makes each part correct, in one line: the *executor* gets one output for
each requested expert; the *block* adds to every token the outputs of its own
experts; the *dispatcher* loses no task and counts none twice; the
*engine* moves a task on exactly when its last operation ended, and nothing is
written to memory a task no longer owns; the *cache* gives a slot to one node,
never takes one from a node in use, and what it calls cached is there, with the
right bytes; the *planner* never divides the memory so that a pool cannot hold a
layer; the *topology* puts every tensor in a place of its own and every expert
where its block looks for it; the *thread pool* runs each operation once and
forgets none; the *docks* are all back before the next layer; *offloading*
survives a crash at any point or is repeated; *recovery* is lossless.

## Modules

`ExpertService` is the abstract specification: a caller requests a set of
experts, each is served once, and the call is collected when all are.

`ExpertPipeline` is the serving path of a sparse layer in full. Its actions:

| Action | Code |
|---|---|
| `StartLayer`, `WaitReturn` | the two ends of `dispatch_local`; `SetExpectedQueue`, `Wait` |
| `EnqueueDecide`, `EnqueueHit`, `EnqueueNew` | `EnqueueExpert`: the decision, the search of the scheduled and ready queues, a new task |
| `OpsSchedule`, `Submit`, `SubmitFails`, `SubmitDone` | `ZipMoESchedulerFunc` and `ToWorkers` |
| `OpDone`, `StrayDone` | the end of an operation and `task_ready_notify`; the end of one whose task was discarded while it ran |
| `Fetch`, `Exec` | `GPUFetchFunc`, `GPUExecFunc` |
| `OutputRelease`, `OutputEvictFails`, `OutputPush`, `OutputSignal` | `OutputFunc`, cut where another thread can see its effects |
| `SubmitPrefetchReady`, `SubmitPrefetchFetch`, `SubmitPrefetchFails` | `SubmitPrefetch` |

The state mirrors the code's: `place` says which queue holds the task of a node
(`new_task_queue`, the two queues of the scheduler, `scheduled_task_queue`,
`ready_queue`, `exec_queue_`, `output_queue_internal_`, or the local variables
of the output thread), `locked` is the set of nodes whose mutex is held, `onGpu`,
`memPtr` and `smPtr` are `Node::device`, `device_memory_ptr` and `device_sm_ptr`,
`dockOf`, `gpuSlotOf` and `smSlotOf` are the `node_to_*` maps, `pend` is
`num_pending_operations`, `pending` and `outputs` are `pending_` and
`output_queue_`. Memory is abstracted to regions: `dockIn`, `smIn` and `tensor`
say whose bytes landed in a region since it was handed out, and a tensor
recovered from planes that are not all its own is `Garbled`.

`PendingBarrier` looks at one step of the pipeline under the microscope: the
meeting of `Wait` and `OutputFunc` over `pending_` and `pending_cv_`, with every
load, decrement, notification and wakeup an action. `ExpertPipeline` takes the
return from `Wait` as one step guarded by `pending = 0`; `PendingBarrier` shows
that for safety this is right (it implements the same `ExpertService`) and that
for liveness it is not (below).

`SparseBlock` puts a model's sparse block on top of that handshake, with all its
atomic steps. `Gate` is the router, `Dispatch` the first half of
`dispatch_local` (`SetInputs` and `SetExpectedQueue`), `Collect` the second,
`Combine` the loop over the results, `Finish` the return of `forward`. `mask` is
the block's own, `inputs` the copy `set_inputs` left in the dispatcher, from which
the fetch thread takes the rows of an expert (`FetchInput`) when its task is
ready; `Push` is the output thread's. Consecutive calls are told apart by `call`,
0 or 1. What a block adds to a token is a bag, so that a result added twice shows.

`MCExpertPipeline` adds the symmetry of the slots and docks for TLC.
`ExpertPipelineProofs` holds the theorems about types, mutexes, owners and what
becomes of a request, `ExpertRegionProofs`, on top of it, those about the regions
of a node at each place of the pipeline, the counts of operations, faults and what
the regions hold. `SparseBlockProofs` has those of `PendingBarrier` and of
`SparseBlock`.

`SlotCache` says what a cache with an eviction policy promises, without slots:
at most `Capacity` nodes, one dropped only to make room, and then the one the
policy names among those nobody works on. `CachePool` is the code: one pool of
`ZipMoECacheHandle` (the GPU pool and the pinned SM pool are the same code) with
the metadata of ZipMoE, LRU, LFU, FIFO and Marking. `slotNode`, `slotOf` and
`freeSlots` are `slots_[i].node`, `node_to_slot_` and `free_slots_`, `meta` is
the policy's vector, which is kept per slot though it is about the node in it.
`RegisterFree`, `RegisterVictim` and `RegisterFails` are the three ways through
`RegisterCacheSlotForNode`, `Unregister` and `UpdateOnHit` the functions of those
names, `Lock` and `Unlock` the dispatcher's use of node mutexes.
`CachePoolProofs` proves that the tables agree and that the code is a `SlotCache`.

`Offload` is the first start of a model and every later one: the Python loop over
the checkpoint (`BatchTensor`, `StoreBatch`, `SkipDense`, `StoreDense`), the
compression of a batch's chunks by the compute pool in any order (`Compress`, one
task of `compress_submit`; `compressed` are the futures that are answered), the
appends, each of which waits for its own future (`WritePart`), the index written
anew after each batch (`SerializeBegin`, `SerializeEnd`), the map of names
(`MapBegin`, `MapEnd`), and the three ways a start can go (`StartLoading`,
`StartScratch`, `StartFails`). `Crash` ends the process anywhere. `file`,
`indexFile` and `mapFile` are on disk, `index` is `kTensorIndex`. A crash within
`Serialize` leaves any of the entries, because they are written in the order of a
hash table, and perhaps the beginning of one more, which keeps its first parts
(`CutEntry`); `Deserialize` takes it for a whole one (`Readable`). `OffloadProofs` holds its theorems.

`WorkQueue` is what a thread pool promises: each task runs once, the most urgent
first, and the pool closes when it has drained. `ThreadPool` is
`PreemptiveThreadPool`, which the tensor engine has twice, with every region
under `queue_mutex`, every notification and every test of a token a step:
`AddTask` and `NotifyOne` are `add_task`, `Take`, `Exit`, `FindNothing`, `Sleep`,
`Register`, `Execute`, `Complete`, `Erase` are `worker_loop` and `Task::execute`,
`SetStop`, `NotifyAll`, `Join` are `stop`, `StopToken` and `PreemptTask` the two
ways a token is set. `MCThreadPool` has two workers and three tasks,
`ThreadPoolProofs` the theorems.

`CachePlan` divides the memory: `TryShare` and `PassShare` are a turn of
`CachePoolPlanningSimu`'s loop over the shares of the GPU pool, `Choose` the
smoothing and the fallbacks with what `PlanCache` and the engine make of them,
`Build` the slots that the cache's constructor cuts. `Hits` is `CalculateProb`,
`From` and `Behind` the tables of `CoverageToWeight`.

`Topology` goes from torch's parameters to what the engine works with:
`RegisterTensor` (the first loop of `setup_zipmoe_hooks`), `GetTopology` and
`BuildStages`, `SetUpDensePool`, `PinDense` (one dense node with its tensors),
`SparseToDisk`, `RegisterExperts` (the experts of one key).

`DenseNodes` is the life of the dense parameters from then on: the pre and post
hooks of a torch module go through its parameters (`todo`) and call
`AcquireTensor` (`AcquireFirst`, `AcquireMore`) or `ReleaseTensor` (`Release`);
`wanted` is `node_id_to_tensor_ids_`, `locked` the node mutexes, `execQueue` the
tasks of `StartExec`, `ptr`, `tensorToId` and `offloadSet` the data pointers and
the two maps that know them. It works on the nodes that `Topology` built.

`StartUp` composes the three as the Python thread does: plan and cut the pools,
build the topology, run the hooks. `MCStartUp` has a model of DeepSeek's shape
(a dense first layer, then a layer with its own parameters on both sides of its
experts) and one of Switch's (two expert layers, whose names carry the number of
a sublayer). `StartUpProofs` has the theorems about the three.

`TensorPlanes` is the way of the bytes: `ExponentOf`, `SignMantissaOf` and
`Chunk` split a tensor as `split_and_extract_from_tensor` does, `Decompress` and
`ReadSM` are the operations of `ToWorkers` that fill a dock in any order,
`Launch` and `Thread` the kernel, whose threads run in any order and join
`ElementsPerThread` words each. `MCTensorPlanes` gives it words with bytes of all
kinds, `TensorPlanesProofs` holds its theorems.

### Abstractions

* Victims. In `ExpertPipeline` a policy picks any slot whose node's mutex can be
  tried (`is_protected`), so the results hold for ZipMoE, LRU, LFU, FIFO and
  Marking alike; `CachePool` says which one each of them picks.
  `select_victim_slot` fails exactly when there is none, and the process ends
  (`fault = "no victim"`, `failed`). Which free slot is taken is open too.
* A scan for a victim is one step. Only the Python thread locks node mutexes, and
  it is the one that scans, so no slot becomes protected between `is_protected`
  and the eviction. Another thread may unlock a node while a scan is under way;
  that the scan then has passed it by is not modelled.
* The clock of `CachePool` does not run backwards, as that of a machine might.
* Routing. A mask gives every token up to `TopK` experts: the blocks' routers pick
  `TopK`, and fewer when Switch's capacity is used up, never none for all tokens.
  That Switch assigns where the others add is the same with one expert per token.
  The fetch thread's reads of the mask and of the states are one step.
* Access counts. `ProactiveDecision` compares counts of the experts of a layer;
  the model lets `countUp` be anything from 0 to `NumExperts - 1`.
* When a block of the scheduler ends depends on two measured delays: open.
* `ToWorkers` is one step. The operations it submits can end only later, and the
  last one cannot end before all are counted, so no thread sees the difference.
  The last decrement of `num_pending_operations` and `task_ready_notify` are one
  step too: between them nothing else touches the task.
* The exec and output queues are sets: their order is not relied upon.
* A fault (an exception out of a thread function or `DLOG_FATAL`, which aborts)
  stops the model: every action asks for `Alive`.
* A discarded prefetch leaves behind any subset of its operations that its
  threads can be running: at most one SM read (there is one IO thread) and
  `NumComputeWorkers` exponent operations.
* Dense nodes are all pinned on the GPU when the topology is built
  (`PinDense`), so that `StartExec` never waits for the GPU thread. The model asks
  that modules with parameters have no submodules, that a forward pass begins with
  the first module, and that the parameters of a module lie in one node. A head
  tied to the embedding is that module run again.
* A name of a parameter is its parts (prefix, module, expert), as the regular
  expressions of `get_topology` take it apart. The experts of a block stand in a
  `ModuleList`, so that torch names them 0, 1, 2 and so on in this order.
  `SetDevice(DISK)` of a sparse node that is on disk does nothing.
* The planner's floating point. Shares are in percent; probabilities are kept as
  integer weights, each distribution multiplied by one common factor, so that
  what the walk compares is in the same order. How many experts a layer calls is
  the sum of their probabilities, rounded down. Equal delays are equal here and
  may differ in a last bit in the code. `scale_to_k`, the iteration from coverage
  to weights and the traces it reads are not modelled: `Weights` is their result.
* The tasks of `ThreadPool` are the operations of jobs. A token that is stopped
  after the answer has no reader and is left out, and `preempt_task`'s choice
  among running tasks is any of them.
* The tensors of an expert all have `shared_mem_size` elements, as the planes of
  a dock suppose.
* A crash is the end of the process: what it wrote stays. What a power failure
  does to unsynced pages is another matter and not modelled.
* IO errors are not modelled: the operation logs and counts itself done. Nor is
  the size of what compression yields: an empty chunk (for which LZ4 answers 0,
  so that the task logs and its append writes nothing) has a place of length 0.
* `std::mutex` is unlocked by another thread than the one that locked it. The
  standard leaves that undefined; on the platforms ZipMoE builds for it releases
  the mutex, and so does the model.

## Runs

| Run | Configuration | Shows |
|---|---|---|
| `serve` | 3 layers, 2 experts, 2 GPU slots, 2 SM slots, one chunk per expert, planning, no prefetch | ownership, coherence, answers and no fault, for the default configuration |
| `serve_tight` | 1 layer, 3 experts, 1 GPU slot, no SM slot, two prefetches, with planning and without | a caller of the bindings may choose such pools; every failing branch is reached, prefetches are hit and dropped, and until a fault the pointers in flight are good and no call is answered twice |
| `serve_live` | 2 layers, two chunks, fairness, no symmetry | operations of a task ending in every order: the count is right, and every layer call comes to its end |
| `prefetch_stray` | planning and one prefetch | *violated*: see Findings |
| `sparse_block` | 3 experts, 3 tokens, at most 2 experts per token, calls without end | the handshake implements `ExpertService`, and every token gets the outputs of its experts on its own row |
| `barrier_live` | 2 experts, fairness | *violated*: see Findings |
| `cache_pool` | 4 nodes, 2 slots, all five policies, weights 1 and 2, counts and times up to 3 | the tables agree, and the pool implements `SlotCache` |
| `offload` | 6 tensors in two files, 4 of them of experts, batches of 2, two chunks; 2 crashes anywhere; fairness | what the index lists is stored; only a complete model is served, if no crash fell within the writing of the index; starts on complete or barely begun files come to serve |
| `offload_twice` | the same, 2 crashes | *violated*: see Findings |
| `start_up` | 12 experts, 6 layers, 7 sizes of memory, 25 shares, 3 profiles of use, ZipMoE and LRU; 2 models, 6 addresses | a plan leaves room for a layer, the dense tensors divide their pool, every expert is where its block looks, locks and pointers are right through any sequence of modules |
| `tensor_planes` | 2 tensors of 1 to 7 words, 1 to 4 chunks, 3 words per thread, 2 threads per block | the words come back |
| `thread_pool` | 2 workers, 3 tasks of two priorities, fairness | no wakeup is lost, every task runs once in order and is answered, `stop` returns |

Properties of `ExpertPipeline`, each with the question it answers:

* `NeverFaults`, `NeverEvicts`: can the process abort for want of a dock or a
  victim, or because `OutputFunc` evicts a slot that was never taken?
* `OneOwner`: can two nodes come to share a region?
* `InFlightOwnsRegions`: do the raw pointers a task got in `ToWorkers` stay its
  own until the fetch thread used them?
* `HeldNodeKeepsSlots`: is the try_lock of `is_protected` enough to keep a slot
  from being taken away from a node somebody works on?
* `IdleCoherent`: do device, pointers and pools agree about every idle node?
* `CachedWeightsAreOwn`: is what is cached as an expert that expert?
* `CountMatchesOps`: is the number of operations fixed at enqueue the number
  submitted later?
* `PendingCountsUnanswered`, `ServesEachOnce`: is the caller told exactly when
  everything is there?
* `LayerCompletes`: does every call come to its end?

Of the other modules:

* `WaitReturnsAll`, `PendingBehindOutputs`: does `Wait` return with all results
  and none of another call, when the output thread of the last call is late?
* `InputsFixed`: are mask and hidden states of a call left alone until all of its
  experts have read them, though nothing locks them?
* `CombinesRouted`: do block and dispatcher, who find rows by different copies of
  the mask, agree whatever the order of the results?
* `TablesAgree`: is a slot ever lost from the stack of free ones, or on it twice?
* `CachesByPolicy`: does a node inherit the count or the time of the last one in
  its slot, although giving back a slot does not tell the policy? Is the victim
  the one the policy means, and is failing the last resort?
* `IndexedIsStored`: can appends that were cut short shift the offsets of later
  ones, or an entry, whole or cut off, point at what is not there?
* `LoadedIsComplete`: is a model ever served with tensors missing?
* `Completes`: does a start that can go through go through?
* `PlanFits`, `FallbackUnused`: the planner counts slots per layer, rounded down,
  the constructor over the whole pool, rounded up, and one return value was never
  checked: can a pool come out smaller than a layer?
* `HitsAddUp`: does the knapsack that is updated in place count every call of `k`
  experts once, wherever the experts are cut into three parts?
* `PoolPartitioned`: sums over nodes, over the tensors of a node and over all
  nodes give the offsets: do two tensors overlap, or one reach past the pool?
* `ExpertsInPlace`: is the node at (layer, expert) of the dispatcher the expert
  that the router of that block means, though the two count layers differently?
* `NobodySleepsOnWork`: can a task be queued while those who could run it sleep
  and nobody is about to wake them? Can `stop` miss a worker?
* `RunsEachOnce`, `AllAnswered`: is a task run twice, out of order, or dropped by
  `stop`? Is every future answered?
* `HeldWhileWanted`, `NextHookIsSafe`, `OnlyLastHeld`: does the Python thread lock
  a mutex it holds, unlock one it does not hold, or leave some behind when a
  module that shares a node did not run?
* `PointersKnown`: can an address that is handed out again be taken for the
  tensor that used to be there?
* `PlanesInPlace`, `ThreadsDisjoint`, `RecoveredIsOriginal`: do chunks or threads
  write where another one's bytes are, and do the words come back?

Bounds. Two layers are the fewest with which the cache holds nodes that the
current call does not ask for, and an evicted node comes back; with three, SM
slots are evicted too, which is why `serve` has three. Two experts are the fewest
with competition for a slot within a call. The pools have the smallest size the
planner accepts (a slot per expert of a layer). Two chunks and one SM read let
operations of a task end in every order (`serve_live`); the other runs, which
ask about other things, have one chunk. Regions are symmetric; the liveness run
does not use the symmetry. In `cache_pool` twice as many nodes as slots let
nodes come back to other slots than they had, and a bound of 3 is enough for
counts that differ, tie and change order. In `offload` there are two full
batches, a dense tensor before and one after them, so that a batch is flushed by
its size, by the end of a file and by a dense tensor; two crashes let a start
that follows a crash be cut short itself. In `sparse_block` three tokens let the rows of an expert be apart, so that its
results do not lie at its rows' positions. In `tensor_planes` lengths up to 7
with up to 4 chunks give equal, unequal and empty chunks, and with 3 words per
thread and 2 threads per block the tail of a thread, idle threads and a partial
block.

In `serve_tight` one GPU slot for three experts makes a registration find a
victim, none, or a held one within one call, and two prefetches leave one to be
hit and one to be dropped; three experts are the fewest with which one of them is
in neither. In `start_up` the memories lie on both sides of the smallest that is
feasible, so that plans are refused and listed at several shares; with six layers
of twelve experts 86 is the memory at which a share below 30 (28) has room, with
exactly a layer's slots in the GPU pool, and at 85 it just has not, which is what
`FallbackUnused` and `PlanFits` turn on. Shares are in steps of 4 percent (the
default of `PlanCache` is 5, the engine asks for 1). The profiles use few experts,
because `HitsAddUp` lists every set of experts a layer may call. Six addresses are as many as the dense parameters of the
larger model, so that an address is handed out again as soon as it is free.
In `thread_pool` three tasks for two workers are the fewest with which a task
waits while both are busy and one notification may have to serve two tasks.

Deadlock is checked wherever the system cannot stop by itself. It is not where
it can: `serve_tight` reaches faults and `cache_pool` the failure of a scan, after
which there is no step; in the runs of `Offload` a process that serves, with no
crash left, has nothing more to do; a run of `tensor_planes` is one load of one
expert; a pool that was stopped stays so.

Assumption of `NeverFaults` and `NeverEvicts`: both pools have a slot per expert
of a layer (`CachePoolPlanningSimu` rejects other plans), and nothing is
prefetched (`prefetcher_topk` is 0 by default). With prefetch the exception "No
free docks available" can be reached: a prefetch already in the ready queue keeps
its dock through `ops_schedule`, while the layer activates all of its experts.

Fairness. `FairSpec` lets each thread go on: the Python thread in `Main` and
`Prefetch`, the workers, and the fetch, exec and output threads. They are OS
threads that block only on what the guards say. Nothing is assumed of the router
(`StartLayer`) or of the return from `wait_expert`. `Offload`'s `FairSpec` says
that the process, while it runs, runs on, and that a stopped one is started again
when it can be (`WF_vars(Run)`); crashes are under no fairness. `ThreadPool`'s
says that each worker goes on, that a worker who wants `queue_mutex` again and
again gets it in the end (strong fairness of `Lock`: others may hold it in between,
and the platforms' mutexes starve nobody for ever), that an `add_task` gets to its
notification, and that the destructor, once it began, goes on. Nobody has to add
a task, stop a token or destroy the pool. `Completes` speaks
of starts after the last crash and leaves out the files of `offload_twice` and
torn ones, with which a start may fail.

### Findings

* `prefetch_stray`. A prefetch that no request claims is discarded in
  `ZipMoESchedulerFunc`: stop flag, dock and GPU slot given back, mutex unlocked.
  The flag is read only when an operation starts. A chunk that is being read or
  decompressed at that moment is copied into the dock afterwards; by then the
  dock may belong to the next expert, whose own chunk has already landed. The
  tensor recovered from it is a mixture and stays in the cache.
* `barrier_live`. `OutputFunc` counts and notifies without `pending_mutex_`. If
  that falls between `Wait`'s test of the counter and its going to sleep, nobody
  wakes it again: `wait_expert` hangs with all results in `output_queue_`.
* `offload_twice`. The index is written after every batch and the map of names
  after the last tensor. If the process ends in between, the next start finds no
  map, starts from scratch with the index it read, and `BatchStoreTensor` asserts
  that no tensor of a batch is in it (dense tensors are passed over, those of
  experts are not): every later start aborts until the files are removed. The
  README says that offloading is a one-time process.

Two more things the model shows and no run claims. A crash within `Serialize` can
leave an index that reads as a whole one with entries missing or cut short
(`Deserialize` does not look at the state of its stream); `LoadedIsComplete` leaves
these crashes out for that reason. And a crash within the writing of the map
leaves a file that makes `json.load` fail on every later start.

## Theorems

| Theorem | Says |
|---|---|
| `TypeCorrect` | `Spec => []TypeOK` |
| `RegionsExclusive` | `Spec => []OneOwner`, with or without planning and prefetch |
| `HeldNodesKeepSlots` | `Spec => HeldNodeKeepsSlots` |
| `NoEvictions` | `Spec => []NeverEvicts` if the GPU pool has a slot per expert |
| `PendingExact` | `Spec => []PendingCountsUnanswered` |
| `RequestsServed` | `Spec => ServesEachOnce`: `ExpertPipeline` implements `ExpertService` |
| `InFlightRegionsOwned` | `Spec => []InFlightOwnsRegions` |
| `IdleNodesCoherent` | `Spec => []IdleCoherent` |
| `CountsMatchOperations` | `Spec => []CountMatchesOps` |
| `NoFaults` | `Spec => []NeverFaults` without prefetch, if both pools have a slot per expert of a layer |
| `OwnWeights` | `Spec => []CachedWeightsAreOwn` without prefetch |
| `CounterCorrect` | `Spec => []PendingBehindOutputs` of `PendingBarrier` |
| `BarrierServes` | `PendingBarrier` implements `ExpertService` |
| `BlockServes`, `BlockCounterCorrect` | `SparseBlock` keeps both promises |
| `BlockCombines` | `BlockSpec => []CombinesRouted` |
| `InputsStayFixed` | `BlockSpec => InputsFixed` |
| `SlotsAccounted` | `Spec => []TablesAgree` of `CachePool` |
| `PoolCachesByPolicy` | `CachePool` implements `SlotCache`, for each policy |
| `OffloadTypes` | `Spec => []TypeOK` of `Offload` |
| `IndexTellsTheTruth` | `Spec => []IndexedIsStored` |
| `ServedIsComplete` | `Spec => []LoadedIsComplete` |
| `WordRecovered` | splitting any 16-bit word and joining its bytes gives its bits |
| `RecoversAll` | the grid leaves no word of an expert out, for all sizes |
| `KernelThreadsDisjoint` | `Spec => []ThreadsDisjoint` of `TensorPlanes` |
| `ChunksInPlace` | `Spec => []PlanesInPlace` of `TensorPlanes` |
| `SlotHoldsOriginal` | `Spec => []RecoveredIsOriginal` of `TensorPlanes` |
| `PoolTypes` | `Spec => []TypeOK` of `ThreadPool` |
| `NoLostWakeup` | `Spec => []NobodySleepsOnWork` |
| `PoolServes` | `ThreadPool` implements `WorkQueue` |
| `PlannedPoolsFit` | `StartSpec => []PlanFits` |
| `TriedShareTaken` | `StartSpec => []FallbackUnused` |
| `HitsAlwaysAddUp` | `StartSpec => []HitsAddUp` |
| `DensePoolPartitioned` | `StartSpec => []PoolPartitioned` |
| `ExpertsWhereAsked` | `StartSpec => []ExpertsInPlace` |
| `PointersAlwaysKnown` | `StartSpec => []PointersKnown` |
| `NodesHeldWhileWanted` | `StartSpec => []HeldWhileWanted` |
| `OnlyLastNodeHeld` | `StartSpec => []OnlyLastHeld` |
| `HooksAreSafe` | `StartSpec => []NextHookIsSafe` |

They hold for every number of layers, experts, slots, docks, chunks, threads,
tasks, tokens and crashes, every checkpoint, model, length and word, and every size
of memory, from the assumptions named in the modules: the sizes are natural
numbers, the sets finite and disjoint, there is one dock per expert, the number of
shares divides 100, weights and delays of the planner are natural numbers
(`WeightAssumption`, `CostAssumption`: the code has them as measured, never negative,
floating-point numbers), the words are of 16 bits. `TopologyAssumption` and
`NamesAssumption` say what names and shapes are like: each parameter has an id and
a positive size, the
experts of a block stand under a prefix, are several and are numbered from 0 in the
order of their modules, the parameters of a module have its prefix, a model begins
with a dense module, and the CPU allocator has an address for each dense parameter.

`TypeOK` is not inductive alone: a task's pointers must lie in the right pool for
`dockIn` and `smIn` to keep their types when an operation writes through them;
`TypeInv` adds that. `OneOwner` needs, beyond types, only that a grant takes the
slot from everybody else and that docks are taken from the free ones.
`HeldNodeKeepsSlots` is about a single step, but the step `Fetch` gives an SM
slot back for the head of the ready queue: it needs the invariant that every node
in the queue is ready, once (`ReadyInv`), and that every task's node is locked
(`LockInv`). `NoEvictions` rests on `countUp < NumExperts <= |GpuSlots|`, which
makes the cold branches of `ProactiveDecision` dead code.

Where a request stands is `RequestInv`: a task that belongs to a request is of the
current layer and has left `todo`; a task in the pipeline is a request or has the
state PREFETCH, never both; each requested expert is in `todo`, in the pipeline or
in `outputs`; and `pending` is the cardinality of the first two together. The step
of each thread moves at most one expert from one to the next, which is
`PendingExact`, and `ExpertService` sees only the last two moves, which is
`RequestsServed`.

`InFlightRegionsOwned` and `IdleNodesCoherent` are one invariant, `RegionInv`: it
says for each place of a task what its node owns and points to (`Settled` while
nobody works on it, `Loading` from `ToWorkers` to the recovery, `InUse` until the
output thread). The delicate steps are those on other nodes: an eviction changes
a node only if its mutex is free, and then it is `Settled` before and after
(`ToWorkersOthers`); a request that takes over a prefetch changes the state of a
task in flight, which is harmless because that state was PREFETCH, not SMCACHE
(`EnqueueInPlace`, from `RequestInv`). `CountsMatchOperations` needs that the SM
pointer `EnqueueExpert` counted by is still the same when `ToWorkers` looks at it:
the mutex is held in between.

`NoFaults` and `OwnWeights` assume `PrefetchTopK = 0`; with prefetch both are false
(`prefetch_stray` is the counterexample for the weights, and prefetches of the next
layer may hold all docks). Without it only the current layer holds mutexes and no
operation outlives its task (`DemandInv`). `NoFaults` is then a pigeonhole: if all
slots or docks were with other nodes of the layer there would be fewer of them than
experts (`RoomForLayer`). `OwnWeights` is `WeightInv`: operations that have ended
left the node's bytes in regions that by `RegionInv` and `OneOwner` are its own and
nobody else's, so that what the fetch thread recovers is the node.

`BarrierServes` uses
`BarrierInv`: the counter is the number of missing results, plus one while the
output thread stands between append and decrement, including an output thread
that is late from the previous call. Every step of `SparseBlock` is one of
`PendingBarrier` or leaves it alone, so that both of its promises hold there too.
`BlockCombines` adds what the block does (`BlockInv`): the dispatcher holds the
mask and the states of this call from `Dispatch` on, an expert whose rows were
fetched is still missing, the queue has exactly the outputs counted by the
barrier, one of each expert and on the rows it had, and a token has what its
experts add but for the results that are left. The step `Combine` rests on
`RowsOf` and the mask: the position of a token among an expert's rows is the
number of its tokens before, in block and dispatcher alike (`TokensOfExpert`).
`InputsStayFixed` follows from the same invariant: `Dispatch` runs while the
barrier is idle, and then no expert is missing.

`SlotsAccounted` needs `PoolInv`, the tables and the ranges of the metadata. For
`PoolCachesByPolicy` the score a policy gives a node is the metadata of its slot;
a miss overwrites that of the last node there, so that what `Unregister` leaves
behind is never read. The scan returns the first slot with the least metadata
(`LeastOf`), which maps to a node of least score among those not held.

`OffloadInv` is about a process that may end anywhere. `StoredOrTodo` and
`TodoEntered` relate the index in memory, the list of appends and the file; that a
written index tells the truth follows, because its entries are copied only when
nothing is left to append (`Quiet`) and appends never move what is there. It
is said part by part, so that it holds of the beginning of an entry, too, and of
what a later start reads of it and writes again. What it
takes to serve, `InStep`, holds only while no crash fell within the writing of the
index: that is the conjunct `Undisturbed`, and the premise of the property.

`KernelThreadsDisjoint` needs to know that
the slot is unwritten when the kernel is launched, which `DisjointInv` adds; the
arithmetic is in `RecoversDisjoint` (two threads' ranges never meet) and
`RecoversInside` (none reaches past the last word), and both rest on two facts
about integer division (`DivBounds`). `ChunksInPlace` is about sums: a chunk
begins where the chunks before it end, so that two chunks never overlap and the
last one ends where the tensor does, whichever lengths the split gives
(`PlanesInv`). `SlotHoldsOriginal` puts that, `RecoversAll` and `WordRecovered`
together: a thread that ran has written its words, and the kernel starts when
nothing is left to read or to decompress.

`NobodySleepsOnWork` needs `PoolInv`: where a task is (`Places`: queued, with one
worker, or answered) and what has to have happened before `stop` joins
(`Stopping`). Its own argument is a count: a push adds a task and a notification,
a notification becomes a worker that tests, and a worker that tests takes a task
or finds none; with spurious wakeups there are only more of them. The same
invariant gives the refinement `PoolServes`.

`PlannedPoolsFit` is `PlanInv` (every listed share has
room) and arithmetic: a share has room when `Experts` slots fit in the slots per
layer times the layers, and those are at most the bytes of the pool divided by
the size of a slot, which the constructor rounds up (`RoomIsBuilt`). It holds whatever the
delays are, so that nothing about the planner's probabilities is needed.

`HitsAlwaysAddUp` is about the tables `CalculateProb` updates in place. Let
`Sym(S, k)` be the weight of all calls of `k` experts of `S`. Taking one expert out
(`SymStep`) is what one turn of the code's inner loop does, so that after the turns
of a part the table holds `Sym` of its experts (`HitsKnown`, `PartHits`); and the
calls of two disjoint sets are the pairs of a call of each (`SymJoin`), so that the
nested loops over three parts weigh every call of the whole once (`WholeWeight`),
and the two loops around an expert every call without it (`WeightWithout`). A fold
takes the elements of a set in the order `CHOOSE` gives them; that any order gives
the same is `FoldAnyOrder`, by induction over the parts of a finite set
(`SetsByParts`).

`TriedShareTaken` is `WalkInv`: every share with room whose calls have weight was
listed. If none from 30 on is listed the code takes a share it never tried, so a
share `r` below 30 with room must mean room at one from 30 on. It does: from `2 r`
to 58 there is room too, since there both pools have at least the slots that the
GPU pool had at `r` and the two together fewer than before (`MoreRoom`), and some
multiple of the step from `2 r` on lies between 30 and 58 (`RoomFrom30`). It is listed as well: the mean size of a call is at most the
number of experts with a weight (`AvgKnown`), so that some call has weight and the
division by the weight of all calls has a result (`CallsPossible`).

`DensePoolPartitioned` begins with `get_topology`. After each parameter the groups
are `Sorted`: every parameter seen so far is in the list of its key and expert,
once, and in no other. The nodes are the lists one after the other (`AllListed`,
`ListedOnce`), the dense ones those of keys without an expert (`DenseGroups`),
since a block has more than one. `ExpertsWhereAsked` is about their order too
(`Ordered`): the groups are in the order of their first parameters
(`FirstsInOrder`), the experts of a group in that of their numbers (`GroupInOrder`)
and the tensors of a list in that of the parameters. So the blocks that begin before
the block of a group of experts are those of the groups of experts before it
(`BlocksBefore`, `PrefixesCounted`): what `from_pretrained` counts over the modules
is what `setup_zipmoe_hooks` counts over the keys, whatever dense modules and shared
experts stand between them. `RegInv` says that the table holds the groups that were
registered, each at its number (`Filled`). `Packed` says of the first nodes that their
tensors fill the pool up to the offset, each behind the one before; pinning one
more keeps it (`PackMore`), because a node's size is the sum over its tensors.
`PtrInv` adds to `PointersKnown` where a pointer is: at a cell, at the tensor's
place in the pool, or where the expert was. Two tensors in the pool have two places
(`PoolFilled`), and a new cell is one nobody has, so that `Repoint` takes no
address that is in use. `HookInv` says what a hook has still to go through and
that the last node is one the model has, in the layer that is remembered.
`WantedInv` is why the mutexes are right: outside its own hooks a module's tensors
are wanted all or not at all (`ReleaseTensor` forgets a node whole, or one tensor of
the module that runs), so that the post hook finds what the pre hook acquired; and
a locked node is the last one or that of the module that runs. `HooksAreSafe` needs
both: a layer has one dense node, so that a release that sees another layer sees
another node, and that the first module is of layer 0 keeps it from asking for the
last node before there is one.

The library's induction theorems take an operator and are out of the provers'
reach. The sums, lists and joins here are recursive functions, and what is shown of
them for every length goes by a set: the lengths for which the claim holds contain
0 and with each number the next, so they are all (`NatBySteps`, from the
well-foundedness of the naturals).

Model-checked only: liveness under fairness, which is out of the prover's reach
(`LayerCompletes`, `Completes`, `AllAnswered`). Every safety invariant and action
property that a passing run checks is proved, `NeverFaults` and `CachedWeightsAreOwn`
for a pipeline without prefetch, which is where they are true.

## What is left

How far `OwnWeights` holds with prefetch: what a discard would have to wait for.

## Not modelled

* The end of the process: `CleanUpResources` and the destructors of the
  dispatcher, the engine and the task pool. Their order among the globals of the
  module is the interpreter's, not the code's. The hazards at
  `expert_dispatcher.cpp:289`, `task_scheduler.hpp:69` and
  `zipmoe_prefetch_handle.cpp:118` are therefore listed without a property.
* Errors of reads, writes and decompression, which are logged and counted as
  done, and `ReadDense`'s short reads: what would be modelled is the catch block.
* `PipelineCompress`, the variant of the compression for one tensor, and
  `EnqueuePrefetch`, which the Python code does not call.
* The planner's traces and floating point (above), the moves of inputs and
  buffers between devices in the hooks, and the GPU thread's moves of dense
  nodes, which never happen because all of them are pinned.
* Bindings, logging and progress bars, profiling, evaluation scripts and the
  vendored model code: glue, output and measurement, with no state of the serving
  system.
