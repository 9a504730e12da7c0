----------------------------- MODULE SlotCache -----------------------------
(***************************************************************************)
(* What a cache with an eviction policy promises, without its slots: it    *)
(* holds at most Capacity nodes, drops one only to make room, and then the *)
(* one its policy names among those that no thread is working on.          *)
(***************************************************************************)
EXTENDS Integers, FiniteSets

CONSTANTS
  Nodes,      \* what may be cached
  Capacity,   \* how many of them at once
  Policies,   \* the policies to choose from
  Weights     \* what an access may count

VARIABLES
  policy,    \* the policy chosen when the cache was built
  cached,    \* the nodes in the cache
  score,     \* what the policy remembers of each of them, 0 of the others
  held,      \* the nodes some thread works on
  clock,     \* the time, in milliseconds
  failed     \* room was asked for and every node was held

cacheVars == <<policy, cached, score, held, clock, failed>>

CacheInit ==
  /\ policy \in Policies
  /\ cached = {} /\ score = [n \in Nodes |-> 0]
  /\ held = {} /\ clock = 0 /\ failed = FALSE

\* LRU and FIFO remember a time, LFU and ZipMoE a number of accesses, the
\* marking algorithm whether the node was accessed in this phase.
FreshScore == IF policy \in {"LRU", "FIFO"} THEN clock ELSE 1

AccessScore(old, weight) ==
  CASE policy = "LRU"     -> clock
    [] policy = "FIFO"    -> old
    [] policy = "LFU"     -> old + 1
    [] policy = "ZipMoE"  -> old + weight
    [] policy = "Marking" -> 1

Droppable == cached \ held
Coldest   == {v \in Droppable : \A n \in Droppable : score[v] <= score[n]}

\* The marking algorithm forgets all marks when it finds nobody unmarked.
NewPhase == policy = "Marking" /\ \A n \in Droppable : score[n] = 1

Access(n, weight) ==
  /\ n \in cached
  /\ score' = [score EXCEPT ![n] = AccessScore(@, weight)]
  /\ UNCHANGED <<policy, cached, held, clock, failed>>

Insert(n) ==
  /\ n \in held \ cached /\ Cardinality(cached) < Capacity
  /\ cached' = cached \cup {n}
  /\ score' = [score EXCEPT ![n] = FreshScore]
  /\ UNCHANGED <<policy, held, clock, failed>>

Replace(n) ==
  /\ n \in held \ cached /\ Cardinality(cached) = Capacity
  /\ \E v \in Coldest :
       /\ cached' = (cached \ {v}) \cup {n}
       /\ score' = [m \in Nodes |-> IF m = n THEN FreshScore
                                    ELSE IF m = v \/ NewPhase THEN 0
                                    ELSE score[m]]
  /\ UNCHANGED <<policy, held, clock, failed>>

NoRoom(n) ==
  /\ n \in held \ cached /\ Cardinality(cached) = Capacity /\ Droppable = {}
  /\ failed' = TRUE
  /\ UNCHANGED <<policy, cached, score, held, clock>>

Drop(n) ==
  /\ n \in cached \cap held
  /\ cached' = cached \ {n} /\ score' = [score EXCEPT ![n] = 0]
  /\ UNCHANGED <<policy, held, clock, failed>>

HoldOrLetGo ==
  /\ \E n \in Nodes : held' = held \cup {n} \/ held' = held \ {n}
  /\ UNCHANGED <<policy, cached, score, clock, failed>>

Pass == clock' = clock + 1 /\ UNCHANGED <<policy, cached, score, held, failed>>

CacheNext ==
  \/ \E n \in Nodes : \/ Insert(n) \/ Replace(n) \/ NoRoom(n) \/ Drop(n)
                      \/ \E w \in Weights : Access(n, w)
  \/ HoldOrLetGo \/ Pass

CacheSpec == CacheInit /\ [][CacheNext]_cacheVars
=============================================================================
