-------------------------- MODULE CachePoolProofs --------------------------
(***************************************************************************)
(* Theorems about one pool of the expert cache, for any number of nodes    *)
(* and slots and every policy: its tables agree, and it implements the     *)
(* cache its policy names.                                                 *)
(***************************************************************************)
EXTENDS CachePool, FiniteSetTheorems, SequenceTheorems, TLAPS

-----------------------------------------------------------------------------
(* The inductive invariant.  The policy's metadata is about slots, so what *)
(* it says of a free slot does not matter, but no slot keeps the "never"   *)
(* of an eviction, and a mark is a mark.                                   *)

Types ==
  /\ policy \in Policies
  /\ slotNode \in [Slots -> Nodes \cup {Null}]
  /\ slotOf \in [Nodes -> Slots \cup {Null}]
  /\ freeSlots \in Seq(Slots)
  /\ meta \in [Slots -> Nat]
  /\ held \subseteq Nodes
  /\ clock \in 0 .. Bound

PolicyData ==
  /\ TimePolicy => \A s \in Slots : meta[s] <= Bound
  /\ policy = "Marking" => \A s \in Slots : meta[s] \in {0, 1}

PoolInv == Types /\ TablesAgree /\ PolicyData

\* At the start all slots are on the stack.
LEMMA InitPoolInv == Init => PoolInv
  <1> SUFFICES ASSUME Init PROVE PoolInv
    OBVIOUS
  <1>1. Types
    BY PoolAssumption DEF Init, FreshMeta, Types, Slots
  <1>2. TablesAgree
    <2>1. DOMAIN freeSlots = 1 .. NumSlots /\ \A i \in 1 .. NumSlots : freeSlots[i] = i - 1
      BY PoolAssumption DEF Init, FreshMeta
    <2>2. IsInjective(freeSlots)
      BY <2>1, PoolAssumption DEF IsInjective
    <2>3. ToSet(freeSlots) = Slots
      <3>1. ASSUME NEW s \in Slots PROVE s + 1 \in DOMAIN freeSlots /\ freeSlots[s + 1] = s
        BY <2>1, PoolAssumption DEF Slots
      <3>2. ASSUME NEW i \in DOMAIN freeSlots PROVE freeSlots[i] \in Slots
        BY <2>1, PoolAssumption DEF Slots
      <3> QED BY <3>1, <3>2 DEF ToSet
    <2>4. \A n \in Nodes, s \in Slots : slotOf[n] = s <=> slotNode[s] = n
      BY PoolAssumption DEF Init, FreshMeta
    <2>5. {s \in Slots : slotNode[s] = Null} = Slots
      BY DEF Init, FreshMeta
    <2> QED BY <2>2, <2>3, <2>4, <2>5 DEF TablesAgree
  <1>3. PolicyData
    BY PoolAssumption DEF Init, FreshMeta, PolicyData, Slots
  <1> QED BY <1>1, <1>2, <1>3 DEF PoolInv

\* The slot on top of the stack is free, and taking it leaves the others.
LEMMA TopOfStack ==
  ASSUME PoolInv, freeSlots # <<>>
  PROVE  /\ Last(freeSlots) \in Slots /\ slotNode[Last(freeSlots)] = Null
         /\ Front(freeSlots) \in Seq(Slots) /\ IsInjective(Front(freeSlots))
         /\ ToSet(Front(freeSlots)) = ToSet(freeSlots) \ {Last(freeSlots)}
  <1> DEFINE k == Len(freeSlots)
  <1>1. freeSlots \in Seq(Slots) /\ IsInjective(freeSlots)
        /\ ToSet(freeSlots) = {s \in Slots : slotNode[s] = Null}
    BY DEF PoolInv, Types, TablesAgree
  <1>2. k \in Nat \ {0} /\ DOMAIN freeSlots = 1 .. k /\ \A i \in 1 .. k : freeSlots[i] \in Slots
    BY <1>1
  <1>3. Last(freeSlots) = freeSlots[k] /\ Last(freeSlots) \in ToSet(freeSlots)
    BY <1>2 DEF Last, ToSet
  <1>4. /\ Front(freeSlots) \in Seq(Slots) /\ DOMAIN Front(freeSlots) = 1 .. k - 1
        /\ \A i \in 1 .. k - 1 : Front(freeSlots)[i] = freeSlots[i]
    BY <1>1, <1>2 DEF Front
  <1>5. IsInjective(Front(freeSlots))
    BY <1>1, <1>2, <1>4 DEF IsInjective
  <1>6. ToSet(Front(freeSlots)) = ToSet(freeSlots) \ {Last(freeSlots)}
    BY <1>1, <1>2, <1>3, <1>4 DEF ToSet, IsInjective
  <1> QED BY <1>1, <1>3, <1>4, <1>5, <1>6

\* A slot that has a node is not on the stack, and goes on top of it once.
LEMMA PushSlot ==
  ASSUME PoolInv, NEW s \in Slots, slotNode[s] # Null
  PROVE  /\ Append(freeSlots, s) \in Seq(Slots) /\ IsInjective(Append(freeSlots, s))
         /\ ToSet(Append(freeSlots, s)) = ToSet(freeSlots) \cup {s}
  <1> DEFINE k == Len(freeSlots)
             f == Append(freeSlots, s)
  <1>1. freeSlots \in Seq(Slots) /\ IsInjective(freeSlots) /\ s \notin ToSet(freeSlots)
    BY DEF PoolInv, Types, TablesAgree
  <1>2. k \in Nat /\ DOMAIN freeSlots = 1 .. k
    BY <1>1
  <1>3. /\ f \in Seq(Slots) /\ DOMAIN f = 1 .. k + 1
        /\ \A i \in 1 .. k : f[i] = freeSlots[i]
        /\ f[k + 1] = s
    BY <1>1, <1>2
  <1>4. IsInjective(f)
    BY <1>1, <1>2, <1>3 DEF IsInjective, ToSet
  <1>5. ToSet(f) = ToSet(freeSlots) \cup {s}
    BY <1>1, <1>2, <1>3 DEF ToSet
  <1> QED BY <1>3, <1>4, <1>5

\* What the policy is told leaves its metadata in order.
LEMMA PolicyKeeps ==
  ASSUME PoolInv, NEW s \in Slots
  PROVE  /\ OnMiss \in Nat /\ AfterSelect \in [Slots -> Nat]
         /\ TimePolicy => OnMiss <= Bound /\ AfterSelect = meta
         /\ policy = "Marking" =>
              OnMiss = 1 /\ \A r \in Slots : AfterSelect[r] \in {0, 1}
  BY PoolAssumption DEF PoolInv, Types, PolicyData, OnMiss, AfterSelect, TimePolicy

LEMMA StepPoolInv == PoolInv /\ [Next]_vars => PoolInv'
  <1> SUFFICES ASSUME PoolInv, [Next]_vars PROVE PoolInv'
    OBVIOUS
  <1>0. Types /\ TablesAgree /\ PolicyData
    BY DEF PoolInv
  <1>1. ASSUME NEW n \in Nodes, RegisterFree(n) PROVE PoolInv'
    <2> DEFINE s == Last(freeSlots)
    <2>1. /\ s \in Slots /\ slotNode[s] = Null
          /\ Front(freeSlots) \in Seq(Slots) /\ IsInjective(Front(freeSlots))
          /\ ToSet(Front(freeSlots)) = ToSet(freeSlots) \ {s}
      BY <1>1, TopOfStack DEF RegisterFree
    <2>2. /\ slotOf[n] = Null /\ freeSlots' = Front(freeSlots)
          /\ slotNode' = [slotNode EXCEPT ![s] = n] /\ slotOf' = [slotOf EXCEPT ![n] = s]
          /\ meta' = [meta EXCEPT ![s] = OnMiss]
          /\ UNCHANGED <<policy, held, clock, failed>>
      BY <1>1 DEF RegisterFree
    <2> HIDE DEF s
    <2>3. Types'
      BY <1>0, <2>1, <2>2, PolicyKeeps DEF Types
    <2>4. TablesAgree'
      <3>1. \A m \in Nodes, r \in Slots : slotOf'[m] = r <=> slotNode'[r] = m
        BY <1>0, <2>1, <2>2, PoolAssumption DEF Types, TablesAgree
      <3>2. {r \in Slots : slotNode'[r] = Null} = {r \in Slots : slotNode[r] = Null} \ {s}
        BY <1>0, <2>1, <2>2, PoolAssumption DEF Types
      <3> QED BY <1>0, <2>1, <2>2, <3>1, <3>2 DEF TablesAgree
    <2>5. PolicyData'
      BY <1>0, <2>1, <2>2, PolicyKeeps DEF Types, PolicyData, TimePolicy
    <2> QED BY <2>3, <2>4, <2>5 DEF PoolInv
  <1>2. ASSUME NEW n \in Nodes, RegisterVictim(n) PROVE PoolInv'
    <2>1. PICK s \in Victims :
            /\ slotNode' = [slotNode EXCEPT ![s] = n]
            /\ slotOf' = [slotOf EXCEPT ![slotNode[s]] = Null, ![n] = s]
            /\ meta' = [[AfterSelect EXCEPT ![s] = OnEvict] EXCEPT ![s] = OnMiss]
      BY <1>2 DEF RegisterVictim
    <2>2. s \in Slots /\ slotNode[s] \in Nodes /\ slotNode[s] # n
      BY <1>0, <1>2 DEF RegisterVictim, Victims, LeastAccessed, Oldest, FirstSmallest, Unmarked,
                        Evictable, Types
    <2>3. slotOf[n] = Null /\ UNCHANGED <<policy, freeSlots, held, clock, failed>>
      BY <1>2 DEF RegisterVictim
    <2>4. meta' = [AfterSelect EXCEPT ![s] = OnMiss]
      BY <2>1, <2>2, PolicyKeeps
    <2>5. Types'
      BY <1>0, <2>1, <2>2, <2>3, <2>4, PolicyKeeps DEF Types
    <2>6. TablesAgree'
      <3>1. \A m \in Nodes, r \in Slots : slotOf'[m] = r <=> slotNode'[r] = m
        BY <1>0, <2>1, <2>2, <2>3, PoolAssumption DEF Types, TablesAgree
      <3>2. {r \in Slots : slotNode'[r] = Null} = {r \in Slots : slotNode[r] = Null}
        BY <1>0, <2>1, <2>2, PoolAssumption DEF Types
      <3> QED BY <1>0, <2>3, <3>1, <3>2 DEF TablesAgree
    <2>7. PolicyData'
      BY <1>0, <2>2, <2>3, <2>4, PolicyKeeps DEF Types, PolicyData, TimePolicy
    <2> QED BY <2>5, <2>6, <2>7 DEF PoolInv
  <1>3. ASSUME NEW n \in Nodes, RegisterFails(n) PROVE PoolInv'
    BY <1>0, <1>3 DEF RegisterFails, PoolInv, Types, TablesAgree, PolicyData, TimePolicy
  <1>4. ASSUME NEW n \in Nodes, Unregister(n) PROVE PoolInv'
    <2> DEFINE s == slotOf[n]
    <2>1. s \in Slots /\ slotNode[s] = n
      BY <1>0, <1>4 DEF Unregister, Types, TablesAgree
    <2>2. /\ slotNode' = [slotNode EXCEPT ![s] = Null] /\ slotOf' = [slotOf EXCEPT ![n] = Null]
          /\ freeSlots' = Append(freeSlots, s)
          /\ UNCHANGED <<policy, meta, held, clock, failed>>
      BY <1>4 DEF Unregister
    <2> HIDE DEF s
    <2>3. /\ freeSlots' \in Seq(Slots) /\ IsInjective(freeSlots')
          /\ ToSet(freeSlots') = ToSet(freeSlots) \cup {s}
      BY <2>1, <2>2, PushSlot, PoolAssumption
    <2>4. Types'
      BY <1>0, <2>1, <2>2, <2>3 DEF Types
    <2>5. TablesAgree'
      <3>1. \A m \in Nodes, r \in Slots : slotOf'[m] = r <=> slotNode'[r] = m
        BY <1>0, <2>1, <2>2, PoolAssumption DEF Types, TablesAgree
      <3>2. {r \in Slots : slotNode'[r] = Null} = {r \in Slots : slotNode[r] = Null} \cup {s}
        BY <1>0, <2>1, <2>2, PoolAssumption DEF Types
      <3> QED BY <1>0, <2>3, <3>1, <3>2 DEF TablesAgree
    <2>6. PolicyData'
      BY <1>0, <2>2 DEF PolicyData, TimePolicy
    <2> QED BY <2>4, <2>5, <2>6 DEF PoolInv
  <1>5. ASSUME NEW n \in Nodes, NEW w \in Weights, UpdateOnHit(n, w) PROVE PoolInv'
    <2> DEFINE h == OnHit(slotOf[n], w)
    <2>1. /\ slotOf[n] \in Slots /\ meta' = [meta EXCEPT ![slotOf[n]] = h]
          /\ UNCHANGED <<policy, slotNode, slotOf, freeSlots, held, clock, failed>>
      BY <1>0, <1>5 DEF UpdateOnHit, Types
    <2>2. /\ h \in Nat
          /\ TimePolicy => h <= Bound
          /\ policy = "Marking" => h = 1
      BY <1>0, <1>5, <2>1, PoolAssumption DEF OnHit, TimePolicy, Types, PolicyData
    <2> HIDE DEF h
    <2>3. Types' /\ PolicyData'
      BY <1>0, <2>1, <2>2 DEF Types, PolicyData, TimePolicy
    <2>4. TablesAgree'
      BY <1>0, <2>1 DEF TablesAgree
    <2> QED BY <2>3, <2>4 DEF PoolInv
  <1>6. ASSUME NEW n \in Nodes, Lock(n) \/ Unlock(n) PROVE PoolInv'
    BY <1>0, <1>6 DEF Lock, Unlock, PoolInv, Types, TablesAgree, PolicyData, TimePolicy
  <1>7. CASE Tick
    BY <1>0, <1>7, PoolAssumption DEF Tick, PoolInv, Types, TablesAgree, PolicyData, TimePolicy
  <1>8. CASE UNCHANGED vars
    BY <1>0, <1>8 DEF vars, PoolInv, Types, TablesAgree, PolicyData, TimePolicy
  <1> QED
    BY <1>1, <1>2, <1>3, <1>4, <1>5, <1>6, <1>7, <1>8 DEF Next

\* The map, the slots and the stack agree after every sequence of calls: no slot
\* is lost and none is handed out twice.
THEOREM SlotsAccounted == Spec => []TablesAgree
  <1>1. PoolInv => TablesAgree
    BY DEF PoolInv
  <1> QED BY <1>1, InitPoolInv, StepPoolInv, PTL DEF Spec

-----------------------------------------------------------------------------
(* Which slots a policy takes.                                             *)

\* A set of natural numbers that is not empty has a smallest one.
Below == {p \in Nat \X Nat : p[1] < p[2]}

LEMMA LeastOf == ASSUME NEW T \in SUBSET Nat, T # {} PROVE \E x \in T : \A y \in T : x <= y
  <1>1. IsWellFoundedOn(Below, Nat)
    BY NatLessThanWellFounded DEF OpToRel, Below
  <1>2. PICK x \in T : \A y \in T : ~(<<y, x>> \in Below)
    BY <1>1, WFMin
  <1>3. ASSUME NEW y \in T PROVE x <= y
    <2>1. y \in Nat /\ x \in Nat /\ (y < x => <<y, x>> \in Below)
      BY DEF Below
    <2> QED BY <1>2, <2>1
  <1> QED BY <1>3

\* A scan of some slots finds one.
LEMMA ScanFinds ==
  ASSUME PoolInv, NEW S \in SUBSET Slots, S # {}
  PROVE  FirstSmallest(S) # {}
  <1>0. meta \in [Slots -> Nat] /\ Slots \subseteq Nat
    BY PoolAssumption DEF PoolInv, Types, Slots
  <1> DEFINE M == {meta[s] : s \in S}
  <1>1. M \in SUBSET Nat /\ M # {}
    BY <1>0
  <1>2. PICK r \in S : \A q \in S : meta[r] <= meta[q]
    <2>1. PICK x \in M : \A y \in M : x <= y
      BY <1>1, LeastOf
    <2> QED BY <2>1
  <1> DEFINE T == {s \in S : meta[s] = meta[r]}
  <1>3. T \in SUBSET Nat /\ T # {}
    BY <1>0, <1>2
  <1>4. PICK s \in T : \A q \in T : s <= q
    BY <1>3, LeastOf
  <1>5. ASSUME NEW q \in S PROVE meta[s] < meta[q] \/ (meta[s] = meta[q] /\ s <= q)
    <2>1. meta[s] = meta[r] /\ meta[r] <= meta[q] /\ meta[r] \in Nat /\ meta[q] \in Nat
      BY <1>0, <1>2, <1>4
    <2>2. CASE q \in T
      BY <1>4, <2>1, <2>2
    <2>3. CASE q \notin T
      BY <2>1, <2>3
    <2> QED BY <2>2, <2>3
  <1> QED BY <1>4, <1>5 DEF FirstSmallest

\* Of the time policies' slots none is passed over.
LEMMA OldestOfAll == PoolInv /\ TimePolicy => Oldest = LeastAccessed
  BY PoolAssumption
     DEF PoolInv, Types, PolicyData, Oldest, LeastAccessed, Never, Evictable, FirstSmallest

\* Every policy finds a victim when there is a slot it may take.
LEMMA VictimFound == PoolInv /\ Evictable # {} => Victims # {}
  <1> SUFFICES ASSUME PoolInv, Evictable # {} PROVE Victims # {}
    OBVIOUS
  <1>1. LeastAccessed # {}
    BY ScanFinds DEF LeastAccessed, Evictable
  <1> QED BY <1>1, OldestOfAll DEF Victims

-----------------------------------------------------------------------------
(* Refinement of SlotCache.                                                *)

Occupied == {s \in Slots : slotNode[s] # Null}
Cached   == {n \in Nodes : slotOf[n] # Null}
Score    == [n \in Nodes |-> IF slotOf[n] = Null THEN 0 ELSE meta[slotOf[n]]]

\* The instance of SlotCache counts with the same Cardinality.
LEMMA SameCardinality == \A S : Cache!Cardinality(S) = Cardinality(S)
  BY DEF Cache!Cardinality, Cardinality

\* Nodes in the cache and occupied slots belong to each other.
LEMMA SlotsOfNodes ==
  ASSUME PoolInv
  PROVE  /\ \A n \in Cached : slotOf[n] \in Occupied /\ slotNode[slotOf[n]] = n
         /\ \A s \in Occupied : slotNode[s] \in Cached /\ slotOf[slotNode[s]] = s
  BY PoolAssumption DEF PoolInv, Types, TablesAgree, Cached, Occupied

\* The cache is full exactly when the stack is empty.
LEMMA FullWithoutFree ==
  ASSUME PoolInv
  PROVE  /\ Cardinality(Cached) <= NumSlots /\ Cardinality(Cached) \in Nat
         /\ Cardinality(Cached) = NumSlots <=> freeSlots = <<>>
  <1>1. IsFiniteSet(Slots) /\ Cardinality(Slots) = NumSlots
    BY FS_Interval, PoolAssumption DEF Slots
  <1>2. /\ IsFiniteSet(Occupied) /\ Cardinality(Occupied) <= NumSlots
        /\ Cardinality(Occupied) = NumSlots <=> Occupied = Slots
    BY <1>1, FS_Subset DEF Occupied
  <1>3. Cardinality(Cached) = Cardinality(Occupied)
    <2> DEFINE f == [s \in Occupied |-> slotNode[s]]
    <2>1. f \in Bijection(Occupied, Cached)
      <3>1. f \in [Occupied -> Cached]
        BY SlotsOfNodes
      <3>2. \A r, s \in Occupied : f[r] = f[s] => r = s
        BY SlotsOfNodes
      <3>3. \A n \in Cached : \E s \in Occupied : f[s] = n
        BY SlotsOfNodes
      <3> QED BY <3>1, <3>2, <3>3 DEF Bijection, Injection, Surjection, IsInjective
    <2> HIDE DEF f
    <2>2. ExistsBijection(Occupied, Cached)
      BY <2>1 DEF ExistsBijection
    <2> QED BY <1>2, <2>2, FS_Bijection
  <1>4. Occupied = Slots <=> freeSlots = <<>>
    <2>1. freeSlots \in Seq(Slots) /\ ToSet(freeSlots) = Slots \ Occupied
      BY DEF PoolInv, Types, TablesAgree, Occupied
    <2>2. ToSet(freeSlots) = {} <=> freeSlots = <<>>
      BY <2>1 DEF ToSet
    <2> QED BY <2>1, <2>2 DEF Occupied
  <1>5. Cardinality(Occupied) \in Nat
    BY <1>2, FS_CardinalityType
  <1> QED BY <1>2, <1>3, <1>4, <1>5

\* What may be dropped is in the slots that may be taken.
LEMMA DroppableSlots ==
  ASSUME PoolInv
  PROVE  /\ \A n \in Cached \ held : slotOf[n] \in Evictable /\ Score[n] = meta[slotOf[n]]
         /\ \A s \in Evictable : slotNode[s] \in Cached \ held /\ Score[slotNode[s]] = meta[s]
  BY SlotsOfNodes DEF Cached, Occupied, Evictable, Score

\* A victim's node is one with the smallest score.
LEMMA VictimIsColdest ==
  ASSUME PoolInv, NEW s \in Victims
  PROVE  /\ s \in Evictable
         /\ \A n \in Cached \ held : Score[slotNode[s]] <= Score[n]
  <1>1. Evictable \subseteq Slots /\ meta \in [Slots -> Nat]
    BY DEF Evictable, PoolInv, Types
  <1>2. s \in Evictable /\ \A r \in Evictable : meta[s] <= meta[r]
    <2>1. CASE policy \in {"ZipMoE", "LFU"} \/ TimePolicy
      <3>1. s \in LeastAccessed
        BY <2>1, OldestOfAll DEF Victims
      <3> QED BY <1>1, <3>1 DEF LeastAccessed, FirstSmallest
    <2>2. CASE policy = "Marking"
      <3>1. \A r \in Slots : meta[r] \in {0, 1}
        BY <2>2 DEF PoolInv, PolicyData
      <3>2. s \in Evictable /\ (Unmarked # {} => meta[s] # 1)
        BY <2>2 DEF Victims, TimePolicy, Unmarked
      <3>3. Unmarked = {} => \A r \in Evictable : meta[r] = 1
        BY DEF Unmarked
      <3> QED BY <1>1, <3>1, <3>2, <3>3
    <2> QED BY <2>1, <2>2, PoolAssumption DEF PoolInv, Types, TimePolicy
  <1> QED BY <1>2, DroppableSlots

\* At the start nothing is cached.
LEMMA InitCaches == Init => Cache!CacheInit
  <1> SUFFICES ASSUME Init PROVE Cache!CacheInit
    OBVIOUS
  <1>1. Cached = {} /\ Score = [n \in Nodes |-> 0]
    BY DEF Init, FreshMeta, Cached, Score
  <1> QED BY <1>1 DEF Init, FreshMeta, Cache!CacheInit, Cached, Score

\* Every call is a step of the cache.
LEMMA StepCaches == PoolInv /\ PoolInv' /\ [Next]_vars => [Cache!CacheNext]_(Cache!cacheVars)
  <1> SUFFICES ASSUME PoolInv, PoolInv', [Next]_vars
               PROVE  Cache!CacheNext \/ UNCHANGED Cache!cacheVars
    OBVIOUS
  <1>0. Types /\ TablesAgree /\ PolicyData
    BY DEF PoolInv
  <1>1. ASSUME NEW n \in Nodes, RegisterFree(n) PROVE Cache!CacheNext
    <2> DEFINE s == Last(freeSlots)
    <2>1. s \in Slots
      BY <1>1, TopOfStack DEF RegisterFree
    <2>2. /\ n \in held /\ slotOf[n] = Null /\ freeSlots # <<>>
          /\ slotOf' = [slotOf EXCEPT ![n] = s] /\ meta' = [meta EXCEPT ![s] = OnMiss]
          /\ slotNode[s] = Null
          /\ UNCHANGED <<policy, held, clock, failed>>
      BY <1>1, TopOfStack DEF RegisterFree
    <2> HIDE DEF s
    <2>3. Cached' = Cached \cup {n}
      BY <1>0, <2>1, <2>2, PoolAssumption DEF Cached, Types
    <2>4. Score' = [Score EXCEPT ![n] = Cache!FreshScore]
      <3>1. Score'[n] = OnMiss /\ OnMiss = Cache!FreshScore
        BY <1>0, <2>1, <2>2, PoolAssumption
           DEF Score, Types, OnMiss, TimePolicy, Cache!FreshScore
      <3>2. ASSUME NEW m \in Nodes \ {n} PROVE Score'[m] = Score[m]
        <4>1. slotOf'[m] = slotOf[m]
          BY <1>0, <2>2 DEF Types
        <4>2. CASE slotOf[m] = Null
          BY <4>1, <4>2 DEF Score
        <4>3. CASE slotOf[m] # Null
          <5>1. slotOf[m] \in Slots /\ slotOf[m] # s
            BY <1>0, <2>1, <2>2, <4>3, PoolAssumption DEF Types, TablesAgree
          <5> QED BY <1>0, <2>2, <4>1, <5>1 DEF Score, Types
        <4> QED BY <4>2, <4>3
      <3> QED BY <3>1, <3>2 DEF Score
    <2>5. Cache!Insert(n)
      <3>1. n \in held \ Cached /\ Cache!Cardinality(Cached) < NumSlots
        BY <2>2, FullWithoutFree, SameCardinality, PoolAssumption DEF Cached
      <3> QED BY <2>2, <2>3, <2>4, <3>1 DEF Cache!Insert, Cached, Score
    <2> QED BY <2>5 DEF Cache!CacheNext
  <1>2. ASSUME NEW n \in Nodes, RegisterVictim(n) PROVE Cache!CacheNext
    <2>1. PICK s \in Victims :
            /\ slotNode' = [slotNode EXCEPT ![s] = n]
            /\ slotOf' = [slotOf EXCEPT ![slotNode[s]] = Null, ![n] = s]
            /\ meta' = [[AfterSelect EXCEPT ![s] = OnEvict] EXCEPT ![s] = OnMiss]
      BY <1>2 DEF RegisterVictim
    <2> DEFINE v == slotNode[s]
    <2>2. /\ s \in Slots /\ v \in Cached \ held /\ v \in Nodes /\ slotOf[v] = s
          /\ \A m \in Cached \ held : Score[v] <= Score[m]
      BY VictimIsColdest, DroppableSlots, SlotsOfNodes DEF Evictable, Cached, Occupied
    <2>3. /\ n \in held /\ slotOf[n] = Null /\ freeSlots = <<>> /\ v # n
          /\ UNCHANGED <<policy, freeSlots, held, clock, failed>>
      BY <1>2, <2>2 DEF RegisterVictim
    <2>4. slotOf' = [slotOf EXCEPT ![v] = Null, ![n] = s]
          /\ meta' = [AfterSelect EXCEPT ![s] = OnMiss]
      BY <2>1, <2>2, PolicyKeeps
    <2> HIDE DEF v
    <2>5. Cached' = (Cached \ {v}) \cup {n}
      BY <1>0, <2>2, <2>3, <2>4, PoolAssumption DEF Cached, Types
    <2>6. Cache!NewPhase <=> policy = "Marking" /\ Unmarked = {}
      <3>1. Cache!NewPhase <=> policy = "Marking" /\ \A m \in Cached \ held : Score[m] = 1
        BY DEF Cache!NewPhase, Cache!Droppable, Cached, Score
      <3>2. Unmarked = {} <=> \A r \in Evictable : meta[r] = 1
        BY DEF Unmarked
      <3> QED BY <3>1, <3>2, DroppableSlots
    <2>7. ASSUME NEW m \in Nodes
          PROVE  Score'[m] = IF m = n THEN Cache!FreshScore
                             ELSE IF m = v \/ Cache!NewPhase THEN 0 ELSE Score[m]
      <3>1. CASE m = n
        BY <1>0, <2>2, <2>3, <2>4, <3>1, PolicyKeeps, PoolAssumption
           DEF Score, Types, OnMiss, TimePolicy, Cache!FreshScore
      <3>2. CASE m = v
        BY <1>0, <2>2, <2>3, <2>4, <3>2, PoolAssumption DEF Score, Types
      <3>3. CASE m # n /\ m # v /\ slotOf[m] = Null
        BY <1>0, <2>4, <3>3 DEF Score, Types
      <3>4. CASE m # n /\ m # v /\ slotOf[m] # Null
        <4>1. slotOf'[m] = slotOf[m] /\ slotOf[m] \in Slots /\ slotOf[m] # s
          BY <1>0, <2>2, <2>4, <3>4, SlotsOfNodes DEF Types, Cached
        <4>2. Score'[m] = AfterSelect[slotOf[m]]
          BY <2>2, <2>4, <3>4, <4>1, PolicyKeeps DEF Score
        <4>3. AfterSelect[slotOf[m]] = IF Cache!NewPhase THEN 0 ELSE meta[slotOf[m]]
          BY <2>6, <4>1 DEF AfterSelect
        <4> QED BY <3>4, <4>2, <4>3 DEF Score
      <3> QED BY <3>1, <3>2, <3>3, <3>4
    <2>8. Cache!Replace(n)
      <3>1. n \in held \ Cached /\ Cache!Cardinality(Cached) = NumSlots
        BY <2>3, FullWithoutFree, SameCardinality DEF Cached
      <3>2. v \in Cache!Coldest
        BY <2>2 DEF Cache!Coldest, Cache!Droppable, Cached, Score
      <3>3. Score' = [m \in Nodes |-> IF m = n THEN Cache!FreshScore
                                     ELSE IF m = v \/ Cache!NewPhase THEN 0 ELSE Score[m]]
        BY <2>7 DEF Score
      <3> QED BY <2>3, <2>5, <3>1, <3>2, <3>3 DEF Cache!Replace, Cached, Score
    <2> QED BY <2>8 DEF Cache!CacheNext
  <1>3. ASSUME NEW n \in Nodes, RegisterFails(n) PROVE Cache!CacheNext
    <2>1. Cached \ held = {}
      BY <1>3, VictimFound, DroppableSlots DEF RegisterFails
    <2>2. Cache!Cardinality(Cached) = NumSlots /\ n \in held \ Cached
      BY <1>3, FullWithoutFree, SameCardinality DEF RegisterFails, Cached
    <2>3. Cache!NoRoom(n)
      BY <1>3, <2>1, <2>2 DEF RegisterFails, Cache!NoRoom, Cache!Droppable, Cached
    <2> QED BY <2>3 DEF Cache!CacheNext
  <1>4. ASSUME NEW n \in Nodes, Unregister(n) PROVE Cache!CacheNext
    <2>1. /\ n \in held /\ slotOf[n] # Null /\ slotOf' = [slotOf EXCEPT ![n] = Null]
          /\ UNCHANGED <<policy, meta, held, clock, failed>>
      BY <1>4 DEF Unregister
    <2>2. Cached' = Cached \ {n} /\ Score' = [Score EXCEPT ![n] = 0]
      BY <1>0, <2>1 DEF Cached, Score, Types
    <2>3. Cache!Drop(n)
      BY <2>1, <2>2 DEF Cache!Drop, Cached, Score
    <2> QED BY <2>3 DEF Cache!CacheNext
  <1>5. ASSUME NEW n \in Nodes, NEW w \in Weights, UpdateOnHit(n, w) PROVE Cache!CacheNext
    <2> DEFINE h == OnHit(slotOf[n], w)
    <2>1. /\ n \in Cached /\ slotOf[n] \in Slots /\ meta' = [meta EXCEPT ![slotOf[n]] = h]
          /\ UNCHANGED <<policy, slotNode, slotOf, held, clock, failed>>
      BY <1>0, <1>5 DEF UpdateOnHit, Cached, Types
    <2>2. h = Cache!AccessScore(Score[n], w)
      BY <1>0, <2>1, PoolAssumption DEF OnHit, Cache!AccessScore, Score, Cached, Types
    <2> HIDE DEF h
    <2>3. Cached' = Cached
      BY <2>1 DEF Cached
    <2>4. Score' = [Score EXCEPT ![n] = h]
      <3>1. Score'[n] = h
        BY <1>0, <2>1 DEF Score, Cached, Types
      <3>2. ASSUME NEW m \in Nodes \ {n} PROVE Score'[m] = Score[m]
        BY <1>0, <2>1 DEF Score, Cached, Types, TablesAgree
      <3>3. DOMAIN Score = Nodes /\ DOMAIN Score' = Nodes
            /\ Score = [m \in Nodes |-> Score[m]] /\ Score' = [m \in Nodes |-> Score'[m]]
        BY DEF Score
      <3> QED BY <3>1, <3>2, <3>3
    <2>5. Cache!Access(n, w)
      BY <2>1, <2>2, <2>3, <2>4 DEF Cache!Access, Cached, Score
    <2> QED BY <2>1, <2>5 DEF Cache!CacheNext
  <1>6. ASSUME NEW n \in Nodes, Lock(n) \/ Unlock(n) PROVE Cache!CacheNext
    <2>1. Cache!HoldOrLetGo
      BY <1>6 DEF Lock, Unlock, Cache!HoldOrLetGo
    <2> QED BY <2>1 DEF Cache!CacheNext
  <1>7. CASE Tick
    BY <1>7 DEF Tick, Cache!CacheNext, Cache!Pass
  <1>8. CASE UNCHANGED vars
    BY <1>8 DEF vars, Cache!cacheVars
  <1> QED
    BY <1>1, <1>2, <1>3, <1>4, <1>5, <1>6, <1>7, <1>8 DEF Next

\* The pool drops a node only when it is full, and then one that its policy names
\* by what happened since that node came in: what the metadata of slots
\* says is about their nodes, for every policy and any number of slots.
THEOREM PoolCachesByPolicy == Spec => CachesByPolicy
  BY InitPoolInv, StepPoolInv, InitCaches, StepCaches, PTL
     DEF Spec, CachesByPolicy, Cache!CacheSpec
=============================================================================
