----------------------------- MODULE CachePool -----------------------------
(***************************************************************************)
(* One pool of ZipMoECacheHandle with its eviction policy: the slots, the  *)
(* map from nodes to slots, the stack of free slots, and the metadata the  *)
(* policy keeps per SLOT though it is about the NODE in it.  The GPU pool  *)
(* and the pinned sign-mantissa pool are this same code, each behind its   *)
(* own mutex (cache_mutex_, sm_mutex_), so that one call is one step.      *)
(***************************************************************************)
EXTENDS Integers, FiniteSets, SequencesExt

CONSTANTS
  Nodes,      \* the nodes of all layers (there is one pool for all of them)
  NumSlots,   \* slots of the pool
  Policies,   \* the registered policies
  Weights,    \* numbers of tokens of a request
  Bound,      \* bound on the clock and on access counts
  Null

Slots  == 0 .. NumSlots - 1
Never  == Bound + 1     \* UINT64_MAX, a time later than any

ASSUME PoolAssumption ==
  /\ IsFiniteSet(Nodes) /\ Null \notin Nodes \cup Slots /\ NumSlots \in Nat \ {0}
  /\ Policies \subseteq {"ZipMoE", "LRU", "LFU", "FIFO", "Marking"}
  /\ Weights \subseteq Nat \ {0} /\ Bound \in Nat

VARIABLES
  policy,     \* the policy the factory made
  slotNode,   \* slots_[i].node
  slotOf,     \* node_to_slot_
  freeSlots,  \* free_slots_, a stack
  meta,       \* the policy's metadata
  held,       \* nodes whose mutex is held
  clock,      \* MILLISECONDS_SINCE_EPOCH
  failed      \* select_victim_slot has ended the process

vars == <<policy, slotNode, slotOf, freeSlots, meta, held, clock, failed>>

\* What init of each policy leaves: no access, no mark, the earliest time.
FreshMeta == [s \in Slots |-> 0]

Init ==
  /\ policy \in Policies
  /\ slotNode = [s \in Slots |-> Null] /\ slotOf = [n \in Nodes |-> Null]
  /\ freeSlots = [i \in 1 .. NumSlots |-> i - 1]
  /\ meta = FreshMeta
  /\ held = {} /\ clock = 0 /\ failed = FALSE

-----------------------------------------------------------------------------
(* The policies.                                                           *)

TimePolicy == policy \in {"LRU", "FIFO"}

OnHit(s, tokens) ==
  CASE policy = "ZipMoE"  -> meta[s] + tokens
    [] policy = "LFU"     -> meta[s] + 1
    [] policy = "LRU"     -> clock
    [] policy = "FIFO"    -> meta[s]
    [] policy = "Marking" -> 1

OnMiss  == IF TimePolicy THEN clock ELSE 1
OnEvict == IF TimePolicy THEN Never ELSE 0

\* The slots select_victim_slot may take: occupied, and not protected.
Evictable == {s \in Slots : slotNode[s] # Null /\ slotNode[s] \notin held}
Unmarked  == {s \in Evictable : meta[s] # 1}

\* A scan from slot 0 keeps the first smallest value that is below UINT64_MAX.
FirstSmallest(S) ==
  {s \in S : \A r \in S : meta[s] < meta[r] \/ (meta[s] = meta[r] /\ s <= r)}

LeastAccessed == FirstSmallest(Evictable)
Oldest        == FirstSmallest({s \in Evictable : meta[s] # Never})

\* Marking takes any unmarked slot, and any at all in a new phase.
Victims == IF policy \in {"ZipMoE", "LFU"} THEN LeastAccessed
           ELSE IF TimePolicy THEN Oldest
           ELSE IF Unmarked # {} THEN Unmarked ELSE Evictable

\* start_new_phase clears every mark.
AfterSelect == IF policy = "Marking" /\ Unmarked = {}
               THEN [s \in Slots |-> 0] ELSE meta

-----------------------------------------------------------------------------
(* The cache handle.                                                       *)

\* Mutant: the policy is told of a new node only when it chose a victim.
RegisterFreeUntold(n) ==
  LET s == Last(freeSlots) IN
  /\ ~failed /\ n \in held /\ slotOf[n] = Null
  /\ freeSlots # <<>>
  /\ freeSlots' = Front(freeSlots)
  /\ slotNode' = [slotNode EXCEPT ![s] = n]
  /\ slotOf' = [slotOf EXCEPT ![n] = s]
  /\ UNCHANGED <<policy, meta, held, clock, failed>>

\* RegisterCacheSlotForNode with a free slot: the top of the stack.
RegisterFree(n) ==
  LET s == Last(freeSlots) IN
  /\ ~failed /\ n \in held /\ slotOf[n] = Null
  /\ freeSlots # <<>>
  /\ freeSlots' = Front(freeSlots)
  /\ slotNode' = [slotNode EXCEPT ![s] = n]
  /\ slotOf' = [slotOf EXCEPT ![n] = s]
  /\ meta' = [meta EXCEPT ![s] = OnMiss]
  /\ UNCHANGED <<policy, held, clock, failed>>

\* With none free a victim is evicted, which pushes its slot on the stack, and
\* place takes the slot off it again.
RegisterVictim(n) ==
  /\ ~failed /\ n \in held /\ slotOf[n] = Null
  /\ freeSlots = <<>>
  /\ \E s \in Victims :
       /\ slotNode' = [slotNode EXCEPT ![s] = n]
       /\ slotOf' = [slotOf EXCEPT ![slotNode[s]] = Null, ![n] = s]
       /\ meta' = [[AfterSelect EXCEPT ![s] = OnEvict] EXCEPT ![s] = OnMiss]
  /\ UNCHANGED <<policy, freeSlots, held, clock, failed>>

\* "No victim found! All slots are either free or protected!"
RegisterFails(n) ==
  /\ ~failed /\ n \in held /\ slotOf[n] = Null
  /\ freeSlots = <<>> /\ Victims = {}
  /\ failed' = TRUE
  /\ UNCHANGED <<policy, slotNode, slotOf, freeSlots, meta, held, clock>>

\* Mutant: the slot is not given back.
UnregisterLeaks(n) ==
  /\ ~failed /\ n \in held /\ slotOf[n] # Null
  /\ slotNode' = [slotNode EXCEPT ![slotOf[n]] = Null]
  /\ slotOf' = [slotOf EXCEPT ![n] = Null]
  /\ UNCHANGED <<policy, freeSlots, meta, held, clock, failed>>

\* UnregisterCacheSlotForNode: the policy is not told (no on_evict).
Unregister(n) ==
  /\ ~failed /\ n \in held /\ slotOf[n] # Null
  /\ slotNode' = [slotNode EXCEPT ![slotOf[n]] = Null]
  /\ slotOf' = [slotOf EXCEPT ![n] = Null]
  /\ freeSlots' = Append(freeSlots, slotOf[n])
  /\ UNCHANGED <<policy, meta, held, clock, failed>>

\* UpdateOnHit, which does not need the node's mutex.
UpdateOnHit(n, tokens) ==
  /\ ~failed /\ slotOf[n] # Null
  /\ OnHit(slotOf[n], tokens) <= Bound
  /\ meta' = [meta EXCEPT ![slotOf[n]] = OnHit(slotOf[n], tokens)]
  /\ UNCHANGED <<policy, slotNode, slotOf, freeSlots, held, clock, failed>>

-----------------------------------------------------------------------------
(* The users of the cache: a node is locked for its task and let go at the *)
(* end of it.                                                              *)

Lock(n) ==
  /\ ~failed /\ n \notin held
  /\ held' = held \cup {n}
  /\ UNCHANGED <<policy, slotNode, slotOf, freeSlots, meta, clock, failed>>

Unlock(n) ==
  /\ ~failed /\ n \in held
  /\ held' = held \ {n}
  /\ UNCHANGED <<policy, slotNode, slotOf, freeSlots, meta, clock, failed>>

Tick ==
  /\ ~failed /\ TimePolicy /\ clock < Bound
  /\ clock' = clock + 1
  /\ UNCHANGED <<policy, slotNode, slotOf, freeSlots, meta, held, failed>>

Next ==
  \/ \E n \in Nodes : \/ RegisterFree(n) \/ RegisterVictim(n) \/ RegisterFails(n)
                      \/ Unregister(n) \/ Lock(n) \/ Unlock(n)
                      \/ \E w \in Weights : UpdateOnHit(n, w)
  \/ Tick

Spec == Init /\ [][Next]_vars

-----------------------------------------------------------------------------
(* Properties.                                                             *)

\* The three tables of the pool agree: the map is the inverse of the slots,
\* and the stack holds each slot without a node, once.  (A slot lost from the
\* stack would shrink the cache for good; one on it twice would be handed to
\* two nodes.)
TablesAgree ==
  /\ \A n \in Nodes, s \in Slots : slotOf[n] = s <=> slotNode[s] = n
  /\ IsInjective(freeSlots)
  /\ ToSet(freeSlots) = {s \in Slots : slotNode[s] = Null}

Cache == INSTANCE SlotCache WITH
  Capacity <- NumSlots,
  cached <- {n \in Nodes : slotOf[n] # Null},
  score <- [n \in Nodes |-> IF slotOf[n] = Null THEN 0 ELSE meta[slotOf[n]]]

\* The pool is the cache its policy names: it evicts only when it is full, and
\* then the least recently used, the oldest, the least accessed or an unmarked
\* node among those not held, as counted since that NODE came in, whatever the
\* slot held before; it fails only when all its nodes are held.
CachesByPolicy == Cache!CacheSpec
=============================================================================
