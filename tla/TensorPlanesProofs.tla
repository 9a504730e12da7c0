-------------------------- MODULE TensorPlanesProofs --------------------------
(***************************************************************************)
(* Proofs about TensorPlanes: a word survives being taken apart and put    *)
(* together, the chunks of a plane come to lie where they were cut, and    *)
(* the threads of the recovery kernel share the words of an expert out     *)
(* among them exactly: for every length, number of chunks, width and block *)
(* size, and all words.                                                    *)
(***************************************************************************)
EXTENDS TensorPlanes, FiniteSetTheorems, TLAPS

(* Splitting a word into its two bytes and joining them gives the same     *)
(* sixteen bits (split_and_extract_from_tensor and the loop body of        *)
(* cuda_recover_uint16_to_bf16), for every word.                           *)
THEOREM WordRecovered ==
  \A w \in Word : /\ ExponentOf(w) \in Byte
                  /\ SignMantissaOf(w) \in Byte
                  /\ Join(SignMantissaOf(w), ExponentOf(w)) = w % 65536
  <1> SUFFICES ASSUME NEW w \in Word
               PROVE  /\ ExponentOf(w) \in Byte
                      /\ SignMantissaOf(w) \in Byte
                      /\ Join(SignMantissaOf(w), ExponentOf(w)) = w % 65536
    OBVIOUS
  <1> DEFINE q == w \div 128
             m == w % 128
             e == q % 256
             s == IF w < 0 THEN 1 ELSE 0
             sm == s * 128 + m
  <1>0. w \in Int /\ -32768 =< w /\ w =< 32767
    BY DEF Word
  <1>1. q \in Int /\ m \in 0..127 /\ w = 128 * q + m /\ q \in -256..255
    BY <1>0
  <1>2. e = q + 256 * s /\ e \in 0..255
    BY <1>0, <1>1
  <1>3. (w \div 32768) % 2 = s
    <2>1. w \div 32768 = -s
      BY <1>0
    <2> QED
      BY <2>1
  <1>4. w % 65536 = w + 65536 * s
    BY <1>0
  <1>5. sm \in 0..255 /\ sm \div 128 = s /\ sm % 128 = m
    BY <1>1
  <1>6. ExponentOf(w) = e
    BY DEF ExponentOf
  <1>7. SignMantissaOf(w) = sm
    BY <1>3 DEF SignMantissaOf
  <1>8. Join(sm, e) = s * 32768 + e * 128 + m
    BY <1>5 DEF Join
  <1> HIDE DEF e, m, q, sm
  <1>9. s * 32768 + e * 128 + m = w + 65536 * s
    BY <1>0, <1>1, <1>2
  <1> QED
    BY <1>2, <1>4, <1>5, <1>6, <1>7, <1>8, <1>9 DEF Byte

(* The two facts about integer division the grid needs. *)
LEMMA DivBounds ==
  ASSUME NEW a \in Nat, NEW b \in Nat \ {0}
  PROVE  /\ a \div b \in Nat
         /\ b * (a \div b) =< a
         /\ a < b * (a \div b) + b
  BY SMT

(* Two threads of a grid never write the same word. *)
LEMMA RecoversDisjoint ==
  ASSUME NEW n \in Nat, NEW t \in Nat, NEW u \in Nat, t # u
  PROVE  Recovers(t, n) \cap Recovers(u, n) = {}
  <1> DEFINE W == ElementsPerThread
  <1>0. W \in Nat \ {0}
    BY PlanesAssumption
  <1>1. ASSUME NEW x \in Nat, NEW y \in Nat, x < y
        PROVE  x * W + W =< y * W
    <2>1. x + 1 =< y
      BY <1>1
    <2>2. (x + 1) * W =< y * W
      BY <1>0, <2>1
    <2> QED
      BY <1>0, <2>2
  <1>2. \A p \in Recovers(t, n) : p \in Int /\ t * W =< p /\ p < t * W + W
    BY <1>0 DEF Recovers, First, Whole
  <1>3. \A p \in Recovers(u, n) : p \in Int /\ u * W =< p /\ p < u * W + W
    BY <1>0 DEF Recovers, First, Whole
  <1>4. CASE t < u
    BY <1>0, <1>1, <1>2, <1>3, <1>4
  <1>5. CASE u < t
    BY <1>0, <1>1, <1>2, <1>3, <1>5
  <1> QED
    BY <1>4, <1>5

(* No thread writes behind the last word. *)
LEMMA RecoversInside ==
  ASSUME NEW n \in Nat, NEW t \in Nat
  PROVE  Recovers(t, n) \subseteq 0..n - 1
  <1>1. t * ElementsPerThread \in Nat
    BY PlanesAssumption
  <1> QED
    BY <1>1, PlanesAssumption DEF Recovers, First, Whole

(* Every word is written: the grid is rounded up, the last thread takes     *)
(* what is left.                                                            *)
THEOREM RecoversAll ==
  ASSUME NEW n \in Nat, NEW p \in 0..n - 1
  PROVE  \E t \in Grid(n) : p \in Recovers(t, n)
  <1> DEFINE W == ElementsPerThread
             T == ThreadsPerBlock
             t == p \div W
  <1>0. W \in Nat \ {0} /\ T \in Nat \ {0} /\ p \in Nat
    BY PlanesAssumption
  <1>1. t \in Nat /\ W * t =< p /\ p < W * t + W
    BY <1>0, DivBounds
  <1>2. p \in Recovers(t, n)
    <2>1. t * W = W * t
      BY <1>0, <1>1
    <2> HIDE DEF t
    <2> QED
      BY <1>0, <1>1, <2>1 DEF Recovers, First, Whole
  <1>3. t \in Grid(n)
    <2>1. PerBlock \in Nat \ {0} /\ PerBlock = T * W
      BY <1>0 DEF PerBlock
    <2>2. Blocks(n) \in Nat /\ n =< PerBlock * Blocks(n)
      <3> DEFINE a == n + PerBlock - 1
      <3>1. a \in Nat
        BY <2>1
      <3>2. a \div PerBlock \in Nat /\ a < PerBlock * (a \div PerBlock) + PerBlock
        BY <2>1, <3>1, DivBounds
      <3>3. PerBlock * (a \div PerBlock) \in Nat
        BY <2>1, <3>2
      <3> HIDE DEF a
      <3>4. Blocks(n) = a \div PerBlock
        BY DEF a, Blocks
      <3>5. n + PerBlock - 1 < PerBlock * Blocks(n) + PerBlock
        BY <3>2, <3>4 DEF a
      <3> QED
        BY <2>1, <3>2, <3>3, <3>4, <3>5
    <2>3. PerBlock * Blocks(n) = (Blocks(n) * T) * W
      BY <1>0, <2>1, <2>2
    <2>4. Blocks(n) * T \in Nat
      BY <1>0, <2>2
    <2>5. W * t < (Blocks(n) * T) * W
      <3>1. p < PerBlock * Blocks(n)
        BY <2>2, <2>1
      <3> QED
        BY <1>0, <1>1, <2>3, <2>4, <3>1
    <2>6. t < Blocks(n) * T
      <3> HIDE DEF t
      <3>1. SUFFICES ASSUME Blocks(n) * T =< t
                     PROVE  FALSE
        BY <1>1, <2>4
      <3>2. (Blocks(n) * T) * W =< t * W
        BY <1>0, <1>1, <2>4, <3>1
      <3> QED
        BY <1>0, <1>1, <2>4, <2>5, <3>2
    <2> HIDE DEF t
    <2> QED
      BY <1>1, <2>4, <2>6 DEF Grid
  <1> QED
    BY <1>2, <1>3

(* What makes ThreadsDisjoint inductive: before the launch nothing has been *)
(* written, and the grid is one of natural numbers.                        *)
DisjointInv ==
  /\ elements \in Nat
  /\ grid \subseteq Nat
  /\ DOMAIN output = Positions
  /\ ~launched => grid = {} /\ output = [p \in Positions |-> Junk]
  /\ ThreadsDisjoint

(* No kernel runs at first. *)
LEMMA DisjointInit == Init => DisjointInv
  BY PlanesAssumption DEF Init, DisjointInv, ThreadsDisjoint

(* The size of an expert in words. *)
LEMMA SizeIsNat ==
  ASSUME elements \in Nat
  PROVE  NumElements \in Nat
  BY PlanesAssumption DEF NumElements

(* A launch finds the slot unwritten; a thread writes only its own words. *)
LEMMA DisjointStep == DisjointInv /\ [Next]_vars => DisjointInv'
  <1> SUFFICES ASSUME DisjointInv, [Next]_vars
               PROVE  DisjointInv'
    OBVIOUS
  <1> USE DEF DisjointInv
  <1>0. NumElements \in Nat
    BY SizeIsNat
  <1>1. ASSUME UNCHANGED <<elements, launched, grid, output>>
        PROVE  DisjointInv'
    BY <1>1 DEF ThreadsDisjoint, Positions, NumElements
  <1>2. ASSUME NEW t \in Tensors, NEW k \in 0..chunks - 1, Decompress(t, k)
        PROVE  DisjointInv'
    BY <1>1, <1>2 DEF Decompress
  <1>3. ASSUME NEW t \in Tensors, ReadSM(t)
        PROVE  DisjointInv'
    BY <1>1, <1>3 DEF ReadSM
  <1>4. CASE Launch
    <2>1. /\ elements' = elements /\ output' = output /\ launched'
          /\ grid' = Grid(NumElements)
          /\ output = [p \in Positions |-> Junk]
      BY <1>4 DEF Launch
    <2>2. Positions' = Positions /\ NumElements' = NumElements
      BY <2>1 DEF Positions, NumElements
    <2>3. Grid(NumElements) \subseteq Nat
      BY DEF Grid
    <2>4. \A t \in Nat : Recovers(t, NumElements) \subseteq Positions
      BY <1>0, RecoversInside DEF Positions
    <2>5. ThreadsDisjoint'
      BY <2>1, <2>2, <2>3, <2>4 DEF ThreadsDisjoint
    <2> QED
      BY <2>1, <2>2, <2>3, <2>5
  <1>5. ASSUME NEW t \in grid, Thread(t)
        PROVE  DisjointInv'
    <2>1. /\ elements' = elements /\ launched' = launched
          /\ grid' = grid \ {t}
          /\ output' = [p \in Positions |->
               IF p \in Recovers(t, NumElements)
               THEN Join(smDock[p], expDock[p]) ELSE output[p]]
      BY <1>5 DEF Thread
    <2>2. Positions' = Positions /\ NumElements' = NumElements
      BY <2>1 DEF Positions, NumElements
    <2>3. launched
      BY <1>5
    <2>4. ASSUME NEW u \in grid', NEW p \in Recovers(u, NumElements)
          PROVE  p \in Positions /\ output'[p] = Junk
      <3>1. u \in grid /\ u # t
        BY <2>1, <2>4
      <3>2. p \in Positions /\ output[p] = Junk
        BY <3>1, <2>4 DEF ThreadsDisjoint
      <3>3. p \notin Recovers(t, NumElements)
        BY <1>0, <3>1, <2>4, RecoversDisjoint
      <3> QED
        BY <2>1, <3>2, <3>3
    <2>5. ThreadsDisjoint'
      BY <2>2, <2>4 DEF ThreadsDisjoint
    <2> QED
      BY <2>1, <2>2, <2>3, <2>5
  <1>6. CASE UNCHANGED vars
    BY <1>1, <1>6 DEF vars
  <1> QED
    BY <1>2, <1>3, <1>4, <1>5, <1>6 DEF Next

(* The threads of the recovery kernel never write the same word, nor one of *)
(* the next slot of the pool, whatever the sizes.                          *)
THEOREM KernelThreadsDisjoint == Spec => []ThreadsDisjoint
  <1>1. DisjointInv => ThreadsDisjoint
    BY DEF DisjointInv
  <1> QED
    BY DisjointInit, DisjointStep, <1>1, PTL DEF Spec

-----------------------------------------------------------------------------
(* Chunks and their offsets.                                               *)

(* Induction over the naturals, for the set of those with a property. *)
Below == {p \in Nat \X Nat : p[1] < p[2]}

LEMMA NatBySteps == ASSUME NEW S \in SUBSET Nat, 0 \in S, \A n \in S : n + 1 \in S PROVE S = Nat
  <1> DEFINE T == Nat \ S
  <1> SUFFICES ASSUME T # {} PROVE FALSE
    OBVIOUS
  <1>1. IsWellFoundedOn(Below, Nat)
    BY NatLessThanWellFounded DEF OpToRel, Below
  <1>2. T \subseteq Nat
    OBVIOUS
  <1> HIDE DEF T
  <1>3. PICK x \in T : \A y \in T : ~(<<y, x>> \in Below)
    BY <1>1, <1>2, WFMin
  <1> USE DEF T
  <1>4. x \in Nat /\ x # 0 /\ x - 1 \in Nat /\ <<x - 1, x>> \in Below
    BY DEF Below
  <1>5. x - 1 \in S
    BY <1>3, <1>4
  <1> QED BY <1>4, <1>5

(* Where the k-th chunk begins, in a plane of which it may be behind the end. *)
Cut(n, x) == IF n <= x THEN n ELSE x

(* A chunk is the part of the plane between two cuts. *)
LEMMA ChunkCuts ==
  ASSUME NEW n \in Nat, NEW c \in Nat \ {0}, NEW k \in Nat, NEW P, P = PerChunk(n, c)
  PROVE  /\ P \in Nat /\ n <= P * c /\ k * P \in Nat
         /\ ChunkStart(n, c, k) = k * P
         /\ Chunk(n, c, k) = k * P .. Cut(n, k * P + P) - 1
         /\ OriginalSize(n, c, k) \in Nat
         /\ Cut(n, k * P) + OriginalSize(n, c, k) = Cut(n, k * P + P)
         /\ OriginalSize(n, c, k) # 0 =>
              k * P < n /\ k * P + OriginalSize(n, c, k) = Cut(n, k * P + P)
  <1>1. P \in Nat /\ n + c - 1 < c * P + c
    <2>1. n + c - 1 \in Nat
      OBVIOUS
    <2> QED BY <2>1, DivBounds DEF PerChunk
  <1>2. n <= P * c
    <2>1. c * P \in Nat /\ c * P = P * c
      BY <1>1
    <2> QED BY <1>1, <2>1
  <1> DEFINE x == k * P
  <1>3. x \in Nat /\ (k + 1) * P = x + P
    BY <1>1
  <1>4. ChunkStart(n, c, k) = x
    BY DEF ChunkStart
  <1> HIDE DEF x
  <1>5. ChunkEnd(n, c, k) = Cut(n, x + P)
    <2> DEFINE E == {n, x + P}
    <2>1. ChunkEnd(n, c, k) = CHOOSE e \in E : \A f \in E : e <= f
      BY <1>3 DEF ChunkEnd, Min
    <2>2. \E e \in E : \A f \in E : e <= f
      BY <1>1, <1>3
    <2>3. PICK e : e = ChunkEnd(n, c, k) /\ e \in E /\ \A f \in E : e <= f
      BY <2>1, <2>2
    <2> QED BY <1>1, <1>3, <2>3 DEF Cut
  <1>6. Chunk(n, c, k) = x .. Cut(n, x + P) - 1
    BY <1>4, <1>5 DEF Chunk
  <1>7. OriginalSize(n, c, k) = IF x > Cut(n, x + P) - 1 THEN 0 ELSE Cut(n, x + P) - x
    <2>1. x \in Int /\ Cut(n, x + P) - 1 \in Int
      BY <1>1, <1>3 DEF Cut
    <2>2. OriginalSize(n, c, k) = IF x > Cut(n, x + P) - 1 THEN 0 ELSE Cut(n, x + P) - 1 - x + 1
      BY <1>6, <2>1, FS_Interval DEF OriginalSize
    <2> QED BY <1>1, <1>3, <2>2 DEF Cut
  <1>8. OriginalSize(n, c, k) \in Nat /\ Cut(n, x) + OriginalSize(n, c, k) = Cut(n, x + P)
    BY <1>1, <1>3, <1>7 DEF Cut
  <1>9. OriginalSize(n, c, k) # 0 => x < n /\ x + OriginalSize(n, c, k) = Cut(n, x + P)
    BY <1>1, <1>3, <1>7 DEF Cut
  <1> QED BY <1>1, <1>2, <1>3, <1>4, <1>6, <1>8, <1>9 DEF x

(* The sizes before a chunk, added up, are the place it was cut at. *)
LEMMA OffsetIsCut ==
  ASSUME NEW n \in Nat, NEW c \in Nat \ {0}, NEW k \in Nat
  PROVE  ExpOffset(n, c, k) = Cut(n, k * PerChunk(n, c))
  <1> DEFINE P == PerChunk(n, c)
             f == [j \in 0..k |-> Cut(n, j * P)]
             Sums(g) == g = [j \in 0..k |-> IF j = 0 THEN 0
                                            ELSE g[j - 1] + OriginalSize(n, c, j - 1)]
             h == CHOOSE g : Sums(g)
  <1>1. P \in Nat
    BY ChunkCuts
  <1>2. Sums(f)
    <2>1. ASSUME NEW j \in 0..k
          PROVE  f[j] = IF j = 0 THEN 0 ELSE f[j - 1] + OriginalSize(n, c, j - 1)
      <3>1. CASE j = 0
        BY <1>1, <3>1 DEF Cut
      <3>2. CASE j # 0
        <4>1. j - 1 \in Nat /\ j - 1 \in 0..k
          BY <3>2
        <4> HIDE DEF P
        <4>2. (j - 1) * P + P = j * P
          BY <1>1, <4>1
        <4>3. Cut(n, (j - 1) * P) + OriginalSize(n, c, j - 1) = Cut(n, (j - 1) * P + P)
          BY <4>1, ChunkCuts DEF P
        <4> QED BY <3>2, <4>1, <4>2, <4>3
      <3> QED BY <3>1, <3>2
    <2>2. f = [j \in 0..k |-> f[j]]
      OBVIOUS
    <2> HIDE DEF f
    <2> QED BY <2>1, <2>2
  <1>3. Sums(h)
    BY <1>2
  <1>4. ExpOffset(n, c, k) = h[k]
    BY DEF ExpOffset
  <1> HIDE DEF h, P
  <1> DEFINE E == {j \in Nat : j \in 0..k => h[j] = f[j]}
  <1>5. 0 \in E
    BY <1>2, <1>3
  <1>6. ASSUME NEW j \in E PROVE j + 1 \in E
    <2> SUFFICES ASSUME j + 1 \in 0..k PROVE h[j + 1] = f[j + 1]
      OBVIOUS
    <2>0. j \in 0..k /\ h[j] = f[j]
      OBVIOUS
    <2> DEFINE i == j + 1
    <2>1. i \in 0..k /\ i # 0 /\ i - 1 = j
      BY <2>0
    <2> HIDE DEF i, f, E
    <2>2. h[i] = h[i - 1] + OriginalSize(n, c, i - 1)
      BY <1>3, <2>1
    <2>3. f[i] = f[i - 1] + OriginalSize(n, c, i - 1)
      BY <1>2, <2>1
    <2>4. h[i] = f[i]
      BY <2>0, <2>1, <2>2, <2>3
    <2> QED BY <2>4 DEF i
  <1>7. E \subseteq Nat
    OBVIOUS
  <1> HIDE DEF E
  <1>8. E = Nat
    BY <1>5, <1>6, <1>7, NatBySteps
  <1>9. h[k] = f[k]
    <2> HIDE DEF f
    <2>1. k \in 0..k /\ k \in E
      BY <1>8
    <2> QED BY <2>1 DEF E
  <1> QED BY <1>4, <1>9 DEF P

-----------------------------------------------------------------------------
(* The planes.                                                             *)

(* With the planes in place, a word is recovered or some thread still will. *)
PlanesInv ==
  /\ elements \in 1..MaxElements /\ chunks \in Nat \ {0}
  /\ DOMAIN expDock = Positions /\ DOMAIN smDock = Positions
  /\ PlanesInPlace
  /\ launched => /\ chunkOps = {} /\ smOps = {}
                 /\ \A p \in Positions : \/ output[p] = Weight(p) % 65536
                                         \/ \E t \in grid : p \in Recovers(t, NumElements)

(* An element of a tensor has its place in the dock. *)
LEMMA InDock ==
  ASSUME PlanesInv, NEW t \in Tensors
  PROVE  /\ elements \in Nat \ {0} /\ TensorBase(t) \in Nat /\ NumElements \in Nat
         /\ TensorBase(t) + elements <= NumElements
         /\ \A i \in 0..elements - 1 : TensorBase(t) + i \in Positions
  <1>1. elements \in Nat \ {0} /\ NumTensors \in Nat \ {0} /\ t \in 0..NumTensors - 1
    BY PlanesAssumption DEF PlanesInv, Tensors
  <1>2. t * elements \in Nat /\ NumTensors * elements \in Nat
    BY <1>1
  <1>3. (t + 1) * elements <= NumTensors * elements
    <2>1. t + 1 <= NumTensors
      BY <1>1
    <2> QED BY <1>1, <2>1
  <1>4. (t + 1) * elements = t * elements + elements
    BY <1>1
  <1> QED BY <1>1, <1>2, <1>3, <1>4 DEF TensorBase, NumElements, Positions

(* When nothing is left to load, every position has both its bytes. *)
LEMMA DocksFull ==
  ASSUME PlanesInv, chunkOps = {}, smOps = {}, NEW p \in Positions
  PROVE  expDock[p] = ExponentOf(Weight(p)) /\ smDock[p] = SignMantissaOf(Weight(p))
  <1> DEFINE n == elements
             t == p \div n
             i == p - t * n
             P == PerChunk(n, chunks)
             k == i \div P
  <1>1. n \in Nat \ {0} /\ chunks \in Nat \ {0} /\ NumTensors \in Nat \ {0}
    BY PlanesAssumption DEF PlanesInv
  <1>2. p \in Nat /\ p < NumTensors * n /\ NumTensors * n \in Nat
    BY <1>1 DEF Positions, NumElements
  <1>3. t \in Nat /\ n * t <= p /\ p < n * t + n /\ n * t = t * n
    BY <1>1, <1>2, DivBounds
  <1> HIDE DEF n, t
  <1>4. t \in Tensors
    <2>1. SUFFICES ASSUME NumTensors <= t PROVE FALSE
      BY <1>1, <1>3 DEF Tensors
    <2>2. NumTensors * n <= t * n
      BY <1>1, <1>3, <2>1
    <2> QED BY <1>1, <1>2, <1>3, <2>2
  <1>5. i \in 0..n - 1 /\ t * n + i = p
    <2>1. t * n \in Nat
      BY <1>1, <1>3
    <2> QED BY <1>1, <1>2, <1>3, <2>1
  <1>6. P \in Nat \ {0} /\ n <= P * chunks
    <2>1. P \in Nat /\ n <= P * chunks
      BY <1>1, ChunkCuts DEF n
    <2>2. CASE P = 0
      BY <1>1, <2>1, <2>2
    <2> QED BY <2>1, <2>2
  <1> HIDE DEF i, P
  <1>7. k \in Nat /\ P * k <= i /\ i < P * k + P /\ P * k = k * P
    BY <1>5, <1>6, DivBounds
  <1> HIDE DEF k
  <1>8. k \in 0..chunks - 1
    <2>1. SUFFICES ASSUME chunks <= k PROVE FALSE
      BY <1>1, <1>7
    <2>2. P * chunks <= P * k
      BY <1>1, <1>6, <1>7, <2>1
    <2> QED BY <1>1, <1>5, <1>6, <1>7, <2>2
  <1>9. i \in Chunk(n, chunks, k)
    <2>1. Chunk(n, chunks, k) = k * P .. Cut(n, k * P + P) - 1 /\ k * P \in Nat
      BY <1>1, <1>7, ChunkCuts DEF P
    <2>2. i \in Nat /\ i < n /\ k * P <= i /\ i < k * P + P
      BY <1>1, <1>5, <1>7
    <2>3. Cut(n, k * P + P) - 1 \in Int /\ i <= Cut(n, k * P + P) - 1
      BY <1>1, <1>6, <2>1, <2>2 DEF Cut
    <2> QED BY <2>1, <2>2, <2>3
  <1>10. TensorBase(t) + i = p
    BY <1>5 DEF TensorBase, n
  <1>11. PlanesInPlace
    BY DEF PlanesInv
  <1>12. /\ expDock[TensorBase(t) + i] = ExponentOf(Weight(TensorBase(t) + i))
         /\ smDock[TensorBase(t) + i] = SignMantissaOf(Weight(TensorBase(t) + i))
    BY <1>4, <1>5, <1>8, <1>9, <1>11 DEF PlanesInPlace, n
  <1> QED BY <1>10, <1>12

(* The words of the expert are words. *)
LEMMA WordsOfExpert ==
  ASSUME PlanesInv, NEW p \in Positions
  PROVE  Weight(p) \in Word
  <1>1. elements \in 1..MaxElements /\ NumTensors \in Nat \ {0} /\ MaxElements \in Nat
    BY PlanesAssumption DEF PlanesInv
  <1>2. NumTensors * elements <= NumTensors * MaxElements
    BY <1>1
  <1>3. NumTensors * elements \in Nat /\ NumTensors * MaxElements \in Nat
    BY <1>1
  <1>4. p \in 0..NumTensors * MaxElements - 1
    BY <1>2, <1>3 DEF Positions, NumElements
  <1> QED BY <1>4, WeightAssumption

(* A chunk comes to lie where it was cut. *)
LEMMA DecompressInPlace ==
  ASSUME PlanesInv, NEW t \in Tensors, NEW k \in 0..chunks - 1, Decompress(t, k)
  PROVE  /\ DOMAIN expDock' = Positions
         /\ \A p \in Positions : expDock'[p] = expDock[p] \/ expDock'[p] = ExponentOf(Weight(p))
         /\ \A i \in Chunk(elements, chunks, k) :
              expDock'[TensorBase(t) + i] = ExponentOf(Weight(TensorBase(t) + i))
  <1> DEFINE n == elements
             base == TensorBase(t)
             P == PerChunk(n, chunks)
             x == k * P
             size == OriginalSize(n, chunks, k)
             target == base + ExpOffset(n, chunks, k)
             from == base + ChunkStart(n, chunks, k)
  <1>1. /\ n \in Nat \ {0} /\ base \in Nat /\ NumElements \in Nat /\ base + n <= NumElements
        /\ k \in Nat /\ chunks \in Nat \ {0}
    BY InDock DEF PlanesInv
  <1>2. /\ P \in Nat /\ x \in Nat /\ ChunkStart(n, chunks, k) = x
        /\ Chunk(n, chunks, k) = x .. Cut(n, x + P) - 1 /\ size \in Nat
        /\ Cut(n, x) + size = Cut(n, x + P)
        /\ size # 0 => x < n /\ x + size = Cut(n, x + P)
    <2>1. n \in Nat /\ P = PerChunk(n, chunks)
      BY <1>1
    <2> HIDE DEF n, P
    <2> QED BY <1>1, <2>1, ChunkCuts
  <1>3. ExpOffset(n, chunks, k) = Cut(n, x)
    BY <1>1, OffsetIsCut
  <1>4. expDock' = [p \in Positions |-> IF p \in target..target + size - 1
                                        THEN ExponentOf(Weight(from + p - target))
                                        ELSE expDock[p]]
    BY DEF Decompress
  <1> HIDE DEF n, P, x, size, base
  <1>5. CASE size = 0
    <2>1. target \in Nat
      BY <1>1, <1>2, <1>3, <1>5 DEF Cut
    <2>2. target..target + size - 1 = {}
      BY <1>5, <2>1
    <2>3. x .. Cut(n, x + P) - 1 = {}
      BY <1>1, <1>2, <1>5 DEF Cut
    <2> HIDE DEF target, from
    <2> QED BY <1>2, <1>4, <2>2, <2>3 DEF n
  <1>6. CASE size # 0
    <2>1. target = base + x /\ from = base + x /\ target \in Nat
      BY <1>1, <1>2, <1>3, <1>6 DEF Cut
    <2>2. Chunk(n, chunks, k) = x .. x + size - 1 /\ x + size <= n
      BY <1>1, <1>2, <1>6 DEF Cut
    <2> HIDE DEF target, from
    <2>3. \A p \in Positions : p \in Nat /\ from + p - target = p
      BY <1>1, <2>1 DEF Positions
    <2>4. \A p \in Positions : expDock'[p] = IF p \in target..target + size - 1
                                            THEN ExponentOf(Weight(p)) ELSE expDock[p]
      BY <1>4, <2>3
    <2>5. ASSUME NEW i \in x .. x + size - 1
          PROVE  base + i \in Positions /\ base + i \in target..target + size - 1
      <3>1. i \in Nat /\ x <= i /\ i <= x + size - 1
        BY <1>2
      <3>2. base + i \in 0..NumElements - 1
        BY <1>1, <1>2, <2>2, <3>1
      <3>3. base + i \in target..target + size - 1
        BY <1>1, <1>2, <2>1, <3>1
      <3> QED BY <3>2, <3>3 DEF Positions
    <2>6. \A i \in Chunk(n, chunks, k) : expDock'[base + i] = ExponentOf(Weight(base + i))
      BY <2>2, <2>4, <2>5
    <2>7. DOMAIN expDock' = Positions
      BY <1>4
    <2> QED BY <2>4, <2>6, <2>7 DEF n, base
  <1> QED BY <1>5, <1>6

LEMMA PlanesInit == Init => PlanesInv
  <1> SUFFICES ASSUME Init PROVE PlanesInv
    OBVIOUS
  <1>1. chunks \in Nat \ {0} /\ elements \in 1..MaxElements
    BY PlanesAssumption DEF Init
  <1>2. DOMAIN expDock = Positions /\ DOMAIN smDock = Positions /\ ~launched
    BY DEF Init
  <1>3. PlanesInPlace
    BY DEF Init, PlanesInPlace
  <1> QED BY <1>1, <1>2, <1>3 DEF PlanesInv

(* Every operation writes what belongs at its place, so none undoes another. *)
LEMMA PlanesStep == PlanesInv /\ [Next]_vars => PlanesInv'
  <1> SUFFICES ASSUME PlanesInv, [Next]_vars PROVE PlanesInv'
    OBVIOUS
  <1>0. /\ elements \in 1..MaxElements /\ chunks \in Nat \ {0} /\ PlanesInPlace
        /\ DOMAIN expDock = Positions /\ DOMAIN smDock = Positions
    BY DEF PlanesInv
  <1>p. ASSUME UNCHANGED elements
        PROVE  Positions' = Positions /\ NumElements' = NumElements
               /\ \A t : TensorBase(t)' = TensorBase(t)
    BY <1>p DEF Positions, NumElements, TensorBase
  <1>1. ASSUME NEW t \in Tensors, NEW k \in 0..chunks - 1, Decompress(t, k) PROVE PlanesInv'
    <2>1. /\ <<t, k>> \in chunkOps /\ chunkOps' = chunkOps \ {<<t, k>>}
          /\ UNCHANGED <<elements, chunks, smDock, smOps, launched, grid, output>>
      BY <1>1 DEF Decompress
    <2>2. /\ DOMAIN expDock' = Positions
          /\ \A p \in Positions : expDock'[p] = expDock[p] \/ expDock'[p] = ExponentOf(Weight(p))
          /\ \A i \in Chunk(elements, chunks, k) :
               expDock'[TensorBase(t) + i] = ExponentOf(Weight(TensorBase(t) + i))
      BY <1>1, DecompressInPlace
    <2>3. ~launched
      BY <2>1 DEF PlanesInv
    <2>4. ASSUME NEW u \in Tensors, NEW j \in 0..chunks - 1, <<u, j>> \notin chunkOps',
                 NEW i \in Chunk(elements, chunks, j)
          PROVE  expDock'[TensorBase(u) + i] = ExponentOf(Weight(TensorBase(u) + i))
      <3>1. CASE <<u, j>> = <<t, k>>
        BY <2>2, <3>1
      <3>2. CASE <<u, j>> # <<t, k>>
        <4>1. expDock[TensorBase(u) + i] = ExponentOf(Weight(TensorBase(u) + i))
          BY <1>0, <2>1, <2>4, <3>2 DEF PlanesInPlace
        <4>2. TensorBase(u) + i \in Positions
          <5>1. i \in 0..elements - 1
            <6> DEFINE P == PerChunk(elements, chunks)
            <6>1. elements \in Nat /\ j \in Nat
              BY <1>0
            <6>2. /\ Chunk(elements, chunks, j) = j * P .. Cut(elements, j * P + P) - 1
                  /\ j * P \in Nat /\ P \in Nat
              BY <1>0, <6>1, ChunkCuts
            <6> HIDE DEF P
            <6>3. Cut(elements, j * P + P) <= elements
              BY <6>1, <6>2 DEF Cut
            <6> QED BY <6>1, <6>2, <6>3 DEF Cut
          <5> QED BY <5>1, InDock
        <4> QED BY <2>2, <4>1, <4>2
      <3> QED BY <3>1, <3>2
    <2>5. PlanesInPlace'
      BY <1>0, <1>p, <2>1, <2>4 DEF PlanesInPlace
    <2> QED BY <1>0, <1>p, <2>1, <2>2, <2>3, <2>5 DEF PlanesInv
  <1>2. ASSUME NEW t \in Tensors, ReadSM(t) PROVE PlanesInv'
    <2>1. /\ t \in smOps /\ smOps' = smOps \ {t}
          /\ smDock' = [p \in Positions |->
               IF p \in TensorBase(t)..TensorBase(t) + elements - 1
               THEN SignMantissaOf(Weight(p)) ELSE smDock[p]]
          /\ UNCHANGED <<elements, chunks, expDock, chunkOps, launched, grid, output>>
      BY <1>2 DEF ReadSM
    <2>2. ~launched
      BY <2>1 DEF PlanesInv
    <2>3. ASSUME NEW u \in Tensors, u \notin smOps', NEW i \in 0..elements - 1
          PROVE  smDock'[TensorBase(u) + i] = SignMantissaOf(Weight(TensorBase(u) + i))
      <3>1. TensorBase(u) + i \in Positions /\ TensorBase(u) \in Nat /\ elements \in Nat
        BY InDock
      <3>2. CASE u = t
        BY <2>1, <3>1, <3>2
      <3>3. CASE u # t
        <4>1. smDock[TensorBase(u) + i] = SignMantissaOf(Weight(TensorBase(u) + i))
          BY <1>0, <2>1, <2>3, <3>3 DEF PlanesInPlace
        <4> QED BY <2>1, <3>1, <4>1
      <3> QED BY <3>2, <3>3
    <2>4. ASSUME NEW u \in Tensors, NEW j \in 0..chunks - 1, <<u, j>> \notin chunkOps,
                 NEW i \in Chunk(elements, chunks, j)
          PROVE  expDock[TensorBase(u) + i] = ExponentOf(Weight(TensorBase(u) + i))
      BY <1>0, <2>4 DEF PlanesInPlace
    <2>5. PlanesInPlace'
      <3>1. /\ elements' = elements /\ chunks' = chunks /\ chunkOps' = chunkOps
            /\ expDock' = expDock
            /\ \A u \in Tensors : TensorBase(u)' = TensorBase(u)
        BY <1>p, <2>1
      <3>2. \A u \in Tensors : u \notin smOps' => \A i \in 0..elements - 1 :
              smDock'[TensorBase(u) + i] = SignMantissaOf(Weight(TensorBase(u) + i))
        BY <2>3
      <3>3. \A u \in Tensors : \A j \in 0..chunks - 1 : <<u, j>> \notin chunkOps =>
              \A i \in Chunk(elements, chunks, j) :
                expDock[TensorBase(u) + i] = ExponentOf(Weight(TensorBase(u) + i))
        BY <2>4
      <3> HIDE DEF PlanesInv
      <3> QED BY <3>1, <3>2, <3>3, Zenon DEF PlanesInPlace
    <2> QED BY <1>0, <1>p, <2>1, <2>2, <2>5 DEF PlanesInv
  <1>3. CASE Launch
    <2>1. /\ chunkOps = {} /\ smOps = {} /\ grid' = Grid(NumElements)
          /\ UNCHANGED <<elements, chunks, expDock, smDock, chunkOps, smOps, output>>
      BY <1>3 DEF Launch
    <2>2. \A p \in Positions : \E t \in Grid(NumElements) : p \in Recovers(t, NumElements)
      <3>1. NumElements \in Nat
        BY <1>0, PlanesAssumption DEF NumElements
      <3> QED BY <3>1, RecoversAll DEF Positions
    <2>3. PlanesInPlace'
      BY <1>0, <1>p, <2>1 DEF PlanesInPlace
    <2> QED BY <1>0, <1>p, <2>1, <2>2, <2>3 DEF PlanesInv
  <1>4. ASSUME NEW t \in grid, Thread(t), launched PROVE PlanesInv'
    <2>1. /\ grid' = grid \ {t}
          /\ output' = [p \in Positions |-> IF p \in Recovers(t, NumElements)
                                           THEN Join(smDock[p], expDock[p]) ELSE output[p]]
          /\ UNCHANGED <<elements, chunks, expDock, smDock, chunkOps, smOps, launched>>
      BY <1>4 DEF Thread
    <2>2. chunkOps = {} /\ smOps = {}
      BY <1>4 DEF PlanesInv
    <2>3. ASSUME NEW p \in Positions
          PROVE  Join(smDock[p], expDock[p]) = Weight(p) % 65536
      BY <2>2, DocksFull, WordsOfExpert, WordRecovered
    <2>4. ASSUME NEW p \in Positions
          PROVE  \/ output'[p] = Weight(p) % 65536
                 \/ \E u \in grid' : p \in Recovers(u, NumElements)
      <3>1. CASE p \in Recovers(t, NumElements)
        BY <2>1, <2>3, <3>1
      <3>2. CASE p \notin Recovers(t, NumElements)
        <4>1. \/ output[p] = Weight(p) % 65536
              \/ \E u \in grid : p \in Recovers(u, NumElements)
          BY <1>4 DEF PlanesInv
        <4> QED BY <2>1, <3>2, <4>1
      <3> QED BY <3>1, <3>2
    <2>5. PlanesInPlace'
      BY <1>0, <1>p, <2>1 DEF PlanesInPlace
    <2> QED BY <1>0, <1>p, <2>1, <2>2, <2>4, <2>5 DEF PlanesInv
  <1>5. CASE UNCHANGED vars
    <2>1. PlanesInPlace'
      BY <1>0, <1>5, <1>p DEF vars, PlanesInPlace
    <2> QED BY <1>0, <1>5, <1>p, <2>1 DEF vars, PlanesInv
  <1>6. ASSUME NEW t \in grid, Thread(t), ~launched PROVE PlanesInv'
    <2>1. UNCHANGED <<elements, chunks, expDock, smDock, chunkOps, smOps, launched>>
      BY <1>6 DEF Thread
    <2>2. PlanesInPlace'
      BY <1>0, <1>p, <2>1 DEF PlanesInPlace
    <2> QED BY <1>0, <1>6, <1>p, <2>1, <2>2 DEF PlanesInv
  <1> QED BY <1>1, <1>2, <1>3, <1>4, <1>5, <1>6 DEF Next

LEMMA PlanesInvHolds == Spec => []PlanesInv
  BY PlanesInit, PlanesStep, PTL DEF Spec

(* Every chunk lies in the dock where split_and_extract_from_tensor cut it   *)
(* and every sign-mantissa plane beside it, in whatever order the workers    *)
(* and the IO thread write them, for every length and number of chunks.      *)
THEOREM ChunksInPlace == Spec => []PlanesInPlace
  <1>1. PlanesInv => PlanesInPlace
    BY DEF PlanesInv
  <1> QED BY <1>1, PlanesInvHolds, PTL

(* What the kernel leaves in the slot are the words that were offloaded, for *)
(* all words, sizes and orders.                                              *)
THEOREM SlotHoldsOriginal == Spec => []RecoveredIsOriginal
  <1>1. PlanesInv => RecoveredIsOriginal
    BY DEF PlanesInv, RecoveredIsOriginal
  <1> QED BY <1>1, PlanesInvHolds, PTL
=============================================================================
