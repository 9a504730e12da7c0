----------------------------- MODULE CachePlan -----------------------------
(***************************************************************************)
(* How the memory is divided before anything is loaded: PlanCache walks    *)
(* over the shares of the GPU pool, keeps those whose two pools hold       *)
(* enough experts, weighs the delay of a layer by the probability of its   *)
(* cache hits, and takes the share that is best after smoothing.  The      *)
(* constructor of the cache then cuts the pools into slots.                *)
(*                                                                         *)
(* Shares are in percent, sizes in bytes.  Probabilities are kept as the   *)
(* weights w of which they are w / (1 + w), each distribution multiplied   *)
(* by the product of its 1 + w, so that all of it is in integers.          *)
(***************************************************************************)
EXTENDS Integers, Sequences, SequencesExt, FiniteSets, FiniteSetsExt

CONSTANTS
  Experts, Layers,   \* num_experts, num_sparse_layers
  SmSlot,            \* bytes of one expert's sign and mantissa
  Steps,             \* 1 / step_size
  Mems,              \* memory the two pools may have
  Weights,           \* weights of the experts, the most used first
  Algorithms,        \* the configured caching_algorithm
  IsSwitch,          \* whether the offload path names a Switch model
  Configured,        \* the configured gpu_pool_ratio
  Chunks, TensorsPerExpert, ComputePool, DecompDelay, ExpDelay, SmDelay

ASSUME PlanAssumption ==
  /\ Experts \in Nat \ {0} /\ Layers \in Nat \ {0} /\ SmSlot \in Nat \ {0}
  /\ Steps \in 2 .. 100 /\ 100 % Steps = 0
  /\ Mems \subseteq Nat /\ Configured \in 1 .. 99
  /\ IsSwitch \in BOOLEAN
ASSUME CostAssumption == {Chunks, TensorsPerExpert, ComputePool, DecompDelay, ExpDelay, SmDelay} \subseteq Nat
ASSUME WeightAssumption == \A ws \in Weights : ws \in [1 .. Experts -> Nat]

VARIABLES
  at,          \* "search", "choose", "build" or "built"
  mem, weights,
  algorithm,   \* caching_algorithm
  step,        \* of the walk
  listed,      \* ratio_list
  costs,       \* simu_delay_list
  feasible,
  ratio,       \* gpu_pool_ratio
  gpuSlots, smSlots

planVars == <<at, mem, weights, algorithm, step, listed, costs, feasible, ratio,
              gpuSlots, smSlots>>
inputs == <<mem, weights>>

Percent(i) == i * (100 \div Steps)
CeilDiv(a, b) == (a + b - 1) \div b
Total(f, S) == FoldSet(LAMBDA x, sum : f[x] + sum, 0, S)
Larger(a, b) == IF a > b THEN a ELSE b

\* WeightToProb and avgk: how many experts a layer calls on average.
avgk ==
  LET all == FoldFunction(LAMBDA w, product : (1 + w) * product, 1, weights)
  IN  Total([i \in 1 .. Experts |-> weights[i] * (all \div (1 + weights[i]))], 1 .. Experts)
        \div all

-----------------------------------------------------------------------------
(* Hits of a pool, and what a layer then waits for.                        *)

\* Mutant: the loop over j runs upwards and reads what it has just written.
HitsUpwards(ws) ==
  FoldLeft(LAMBDA out, w :
             LET sums[j \in 0 .. Len(ws)] == out[j] + (IF j = 0 THEN 0 ELSE sums[j - 1] * w)
             IN sums,
           [j \in 0 .. Len(ws) |-> IF j = 0 THEN 1 ELSE 0], ws)

\* CalculateProb: how much weight it has that j of these experts are called.
Hits(ws) ==
  FoldLeft(LAMBDA out, w :
             [j \in 0 .. Len(ws) |-> out[j] + (IF j = 0 THEN 0 ELSE out[j - 1] * w)],
           [j \in 0 .. Len(ws) |-> IF j = 0 THEN 1 ELSE 0], ws)

\* CoverageToWeight's tables dp and b_dp, from the front and from the back, and
\* the weight of the calls of n experts of which the i-th is none.
From(ws, i)   == Hits(SubSeq(ws, 1, i - 1))
Behind(ws, i) == Hits(SubSeq(ws, i + 1, Len(ws)))
At(hits, j) == IF j \in DOMAIN hits THEN hits[j] ELSE 0
Without(ws, i, n) ==
  Total([m \in 0 .. n |-> At(From(ws, i), m) * At(Behind(ws, i), n - m)], 0 .. n)

\* DelaySimu, times the number of compute workers.
DelaySimu(full, sm) ==
  Larger(Chunks * TensorsPerExpert * (avgk - full) * (DecompDelay + ExpDelay),
         ComputePool * TensorsPerExpert
           * (SmDelay * (avgk - full - sm) + sm * Chunks * ExpDelay))

\* Slots of the two pools in one layer.
FullSize(r) == (r * mem) \div (100 * Layers * 2 * SmSlot)
SmSize(r) == ((100 - r) * mem) \div (100 * Layers * SmSlot)

InFull(r) == Hits(SubSeq(weights, 1, FullSize(r)))
InSm(r)   == Hits(SubSeq(weights, FullSize(r) + 1, FullSize(r) + SmSize(r)))
InRest(r) == Hits(SubSeq(weights, FullSize(r) + SmSize(r) + 1, Experts))

\* The pairs of hits that the double loop goes through.
Splits(r) == {s \in (DOMAIN InFull(r)) \X (DOMAIN InSm(r)) :
                s[1] + s[2] <= avgk /\ avgk - s[1] - s[2] \in DOMAIN InRest(r)}
SplitWeight(r) == [s \in Splits(r) |->
                     InFull(r)[s[1]] * InSm(r)[s[2]] * InRest(r)[avgk - s[1] - s[2]]]

\* p_total_k and avgDelay, which it divides: p_total_k is the same for each r.
TotalWeight(r) == Total(SplitWeight(r), Splits(r))
AvgDelay(r) == Total([s \in Splits(r) |-> SplitWeight(r)[s] * DelaySimu(s[1], s[2])], Splits(r))

-----------------------------------------------------------------------------
(* The walk.                                                               *)

PlanInit ==
  /\ mem \in Mems /\ weights \in Weights
  /\ algorithm \in Algorithms
  /\ at = IF algorithm = "ZipMoE" THEN "search" ELSE "build"
  /\ step = 1 /\ listed = <<>> /\ costs = <<>> /\ feasible = FALSE
  /\ ratio = Configured /\ gpuSlots = 0 /\ smSlots = 0

\* Mutant: a layer of its own must have room, not all layers together, so that
\* shares are kept whose pools cannot hold the experts of one layer.
HasRoomPerLayer(r) == FullSize(r) + SmSize(r) <= Experts /\ FullSize(r) > 0 /\ SmSize(r) > 0

HasRoom(r) ==
  /\ FullSize(r) + SmSize(r) <= Experts
  /\ FullSize(r) * Layers >= Experts /\ SmSize(r) * Layers >= Experts

\* A share with room whose hits are possible is listed with its delay.
TryShare ==
  LET r == Percent(step) IN
  /\ at = "search" /\ step < Steps
  /\ HasRoom(r)
  /\ feasible' = TRUE
  /\ IF TotalWeight(r) > 0
     THEN listed' = Append(listed, r) /\ costs' = Append(costs, AvgDelay(r))
     ELSE UNCHANGED <<listed, costs>>
  /\ step' = step + 1
  /\ UNCHANGED <<inputs, at, algorithm, ratio, gpuSlots, smSlots>>

\* Mutant: a plan is feasible as soon as a share does not hold too many.
PassShareFeasible ==
  LET r == Percent(step) IN
  /\ at = "search" /\ step < Steps
  /\ ~HasRoom(r)
  /\ feasible' = (feasible \/ FullSize(r) + SmSize(r) <= Experts)
  /\ step' = step + 1
  /\ UNCHANGED <<inputs, at, algorithm, listed, costs, ratio, gpuSlots, smSlots>>

PassShare ==
  /\ at = "search" /\ step < Steps
  /\ ~HasRoom(Percent(step))
  /\ step' = step + 1
  /\ UNCHANGED <<inputs, at, algorithm, listed, costs, feasible, ratio, gpuSlots, smSlots>>

EndWalk ==
  /\ at = "search" /\ step = Steps
  /\ at' = "choose"
  /\ UNCHANGED <<inputs, algorithm, step, listed, costs, feasible, ratio, gpuSlots, smSlots>>

\* The mean of up to five neighbours, times 60.
Smoothed(j) ==
  LET window == {i \in DOMAIN costs : i \in j - 2 .. j + 2}
  IN  Total(costs, window) * (60 \div Cardinality(window))

\* The first share with the smallest smoothed delay, also below 30.
Cheapest == listed[CHOOSE j \in DOMAIN listed :
                     /\ \A i \in DOMAIN listed : Smoothed(j) <= Smoothed(i)
                     /\ \A i \in 1 .. j - 1 : Smoothed(j) < Smoothed(i)]

Fallback == Percent(Steps - 1)

\* What CachePoolPlanningSimu and PlanCache return, and what the engine makes of
\* an infeasible plan or of a Switch model.
Choose ==
  /\ at = "choose"
  /\ ratio' = IF ~feasible THEN 99
              ELSE IF \A j \in DOMAIN listed : listed[j] < 30 THEN Fallback
              ELSE Cheapest
  /\ algorithm' = IF ~feasible \/ IsSwitch THEN "LFU" ELSE algorithm
  /\ at' = "build" /\ costs' = <<>> /\ step' = 1
  /\ UNCHANGED <<inputs, listed, feasible, gpuSlots, smSlots>>

GpuBytes == (ratio * mem) \div 100

\* The constructor of the cache, with its one pool of each kind.
Build ==
  /\ at = "build"
  /\ gpuSlots' = CeilDiv(GpuBytes, 2 * SmSlot) /\ smSlots' = CeilDiv(mem - GpuBytes, SmSlot)
  /\ at' = "built"
  /\ UNCHANGED <<inputs, algorithm, step, listed, costs, feasible, ratio>>

PlanNext == TryShare \/ PassShare \/ EndWalk \/ Choose \/ Build

PlanSpec == PlanInit /\ [][PlanNext]_planVars

-----------------------------------------------------------------------------
(* Properties.                                                             *)

\* Every variable keeps its type; a delay is kept for every listed share.
PlanTypeOK ==
  /\ at \in {"search", "choose", "build", "built"}
  /\ mem \in Mems /\ weights \in Weights
  /\ step \in 1 .. Steps /\ listed \in Seq(1 .. 99)
  /\ feasible \in BOOLEAN /\ ratio \in 1 .. 99
  /\ gpuSlots \in Nat /\ smSlots \in Nat

\* Every share that the walk lists has room for all the experts of a layer in
\* each of the pools that the constructor then cuts, although the one counts
\* slots per layer and the other over all layers: what the pools' users rely on
\* when they take a slot without an eviction.
PlanFits ==
  (at = "built" /\ algorithm = "ZipMoE" /\ ratio \in Range(listed)) =>
    gpuSlots >= Experts /\ smSlots >= Experts

\* The share that is returned when none from 30 on is listed was not tried for
\* room; it is never taken, since a share below 30 with room means that one from
\* 30 on has room too.
FallbackUnused == at = "built" /\ algorithm = "ZipMoE" => ratio \in Range(listed)

CallsOf(S) == MapThenFoldSet(LAMBDA a, b : a * b, 1, LAMBDA i : weights[i],
                             LAMBDA A : CHOOSE a \in A : TRUE, S)

\* The hits of the three parts, put together, have the weight of all the calls of
\* avgk experts, wherever the walk cuts the experts; and the two tables with one
\* expert left out give the weight of the calls that leave it out.
HitsAddUp ==
  /\ listed # <<>> /\ at = "search" =>
       TotalWeight(Last(listed)) = Total([A \in kSubset(avgk, 1 .. Experts) |-> CallsOf(A)],
                                         kSubset(avgk, 1 .. Experts))
  /\ at = "choose" /\ avgk > 0 =>
       \A i \in 1 .. Experts :
         LET others == kSubset(avgk - 1, (1 .. Experts) \ {i})
         IN  Without(weights, i, avgk - 1) = Total([A \in others |-> CallsOf(A)], others)
=============================================================================
