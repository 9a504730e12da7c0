----------------------------- MODULE TensorPlanes -----------------------------
(***************************************************************************)
(* Splitting bf16 tensors into planes for the offload file and putting     *)
(* them together again on the GPU.                                         *)
(*                                                                         *)
(* split_and_extract_from_tensor takes the words of a tensor apart into a  *)
(* plane of exponent bytes, cut into num_file_chunks chunks, and a plane   *)
(* of sign-mantissa bytes.  To load an expert, the workers decompress the  *)
(* chunks of all its tensors into one dock and the IO thread reads the     *)
(* sign-mantissa planes beside them, in any order; then the threads of one *)
(* CUDA grid, in any order, join the bytes of all tensors to words.        *)
(* Compression is lossless and external; a word is an int16, as numpy sees *)
(* it, and becomes the uint16 with the same bits.                          *)
(***************************************************************************)
EXTENDS Integers, FiniteSets, FiniteSetsExt

CONSTANTS NumTensors,        \* num_tensors_per_expert
          MaxElements,       \* bound: elements of a tensor
          MaxChunks,         \* bound: num_file_chunks
          ElementsPerThread, \* elements_per_thread, 8 in the kernel
          ThreadsPerBlock,   \* threads_per_block, 512 in the launcher
          Weight(_)          \* the words of an expert, one tensor behind the other

ASSUME PlanesAssumption ==
         /\ {NumTensors, MaxElements, MaxChunks} \subseteq Nat \ {0}
         /\ {ElementsPerThread, ThreadsPerBlock} \subseteq Nat \ {0}

\* A word is an int16 in numpy.
Word == {w \in Int : -32768 =< w /\ w =< 32767}

ASSUME WeightAssumption == \A p \in 0..NumTensors * MaxElements - 1 : Weight(p) \in Word

VARIABLES elements,  \* elements of each tensor = shared_mem_size of the dock
          chunks,    \* num_file_chunks
          expDock,   \* get_exp_pinned(0): one byte per element of the expert
          smDock,    \* get_sm_pinned(0)
          chunkOps,  \* <<tensor, chunk>> not yet decompressed into the dock
          smOps,     \* tensors whose sign-mantissa plane is not yet read
          launched,  \* the kernel was launched
          grid,      \* threads of the kernel that have not run
          output     \* the slot of the GPU pool
vars == <<elements, chunks, expDock, smDock, chunkOps, smOps, launched, grid,
          output>>

Tensors == 0..NumTensors - 1

Junk == -1   \* what memory holds before it is written

Byte == 0..255

(* Splitting: on the host, once, when the model is offloaded *)

ExponentOf(w) == (w \div 128) % 256
SignMantissaOf(w) == ((w \div 32768) % 2) * 128 + (w % 128)

\* start and end of each chunk of a plane of n bytes cut into c chunks;
\* Python slices that begin behind the end are empty
PerChunk(n, c) == (n + c - 1) \div c
ChunkStart(n, c, k) == k * PerChunk(n, c)
ChunkEnd(n, c, k) == Min({n, (k + 1) * PerChunk(n, c)})
Chunk(n, c, k) == ChunkStart(n, c, k)..ChunkEnd(n, c, k) - 1

(* Loading: ToWorkers gives every chunk the place behind the chunks before *)

OriginalSize(n, c, k) == Cardinality(Chunk(n, c, k))

\* Mutant: all chunks are taken to be as long as this one.
ExpOffsetByOwnSize(n, c, k) == k * OriginalSize(n, c, k)

ExpOffset(n, c, k) ==
  LET offset[j \in 0..k] == IF j = 0 THEN 0 ELSE offset[j - 1] + OriginalSize(n, c, j - 1)
  IN  offset[k]

(* Recovering: thread t of the grid joins ElementsPerThread words at once,  *)
(* or what is left of them at the end                                      *)

Join(sm, e) == (sm \div 128) * 32768 + e * 128 + (sm % 128)

First(t) == t * ElementsPerThread
\* Mutant: <= for <.
WholeOneTooFar(t, n) == First(t) + ElementsPerThread - 1 =< n

Whole(t, n) == First(t) + ElementsPerThread - 1 < n
Recovers(t, n) ==
  First(t)..(IF Whole(t, n) THEN First(t) + ElementsPerThread - 1 ELSE n - 1)

PerBlock == ThreadsPerBlock * ElementsPerThread
\* Mutant: the last, partial block is not launched.
BlocksRoundedDown(n) == n \div PerBlock

Blocks(n) == (n + PerBlock - 1) \div PerBlock
Grid(n) == 0..Blocks(n) * ThreadsPerBlock - 1

-----------------------------------------------------------------------------
NumElements == NumTensors * elements
Positions == 0..NumElements - 1

Init ==
  /\ elements \in 1..MaxElements
  /\ chunks \in 1..MaxChunks
  /\ expDock = [p \in Positions |-> Junk]
  /\ smDock = [p \in Positions |-> Junk]
  /\ output = [p \in Positions |-> Junk]
  /\ chunkOps = Tensors \X (0..chunks - 1)
  /\ smOps = Tensors
  /\ launched = FALSE
  /\ grid = {}

\* get_exp_pinned(t) and get_sm_pinned(t): tensor t of a dock
TensorBase(t) == t * elements

\* an operation of io_decompress_mov_submit; a chunk without elements makes
\* the decompressor throw, which is caught, and copies nothing either
Decompress(t, k) ==
  /\ <<t, k>> \in chunkOps
  /\ chunkOps' = chunkOps \ {<<t, k>>}
  /\ LET target == TensorBase(t) + ExpOffset(elements, chunks, k)
         from   == TensorBase(t) + ChunkStart(elements, chunks, k)
         size   == OriginalSize(elements, chunks, k)
     IN  expDock' = [p \in Positions |->
           IF p \in target..target + size - 1
           THEN ExponentOf(Weight(from + p - target))
           ELSE expDock[p]]
  /\ UNCHANGED <<elements, chunks, smDock, smOps, launched, grid, output>>

\* an operation of io_sign_mantissa_submit
ReadSM(t) ==
  /\ t \in smOps
  /\ smOps' = smOps \ {t}
  /\ smDock' = [p \in Positions |->
       IF p \in TensorBase(t)..TensorBase(t) + elements - 1
       THEN SignMantissaOf(Weight(p))
       ELSE smDock[p]]
  /\ UNCHANGED <<elements, chunks, expDock, chunkOps, launched, grid, output>>

\* SetModuleMemoryFromDiskGrouped: one grid for all tensors of the expert
Launch ==
  /\ ~launched
  /\ chunkOps = {}
  /\ smOps = {}
  /\ launched' = TRUE
  /\ grid' = Grid(NumElements)
  /\ UNCHANGED <<elements, chunks, expDock, smDock, chunkOps, smOps, output>>

Thread(t) ==
  /\ t \in grid
  /\ grid' = grid \ {t}
  /\ output' = [p \in Positions |->
       IF p \in Recovers(t, NumElements)
       THEN Join(smDock[p], expDock[p])
       ELSE output[p]]
  /\ UNCHANGED <<elements, chunks, expDock, smDock, chunkOps, smOps, launched>>

Next ==
  \/ \E t \in Tensors, k \in 0..chunks - 1 : Decompress(t, k)
  \/ \E t \in Tensors : ReadSM(t)
  \/ Launch
  \/ \E t \in grid : Thread(t)

Spec == Init /\ [][Next]_vars

-----------------------------------------------------------------------------
(* The offsets ToWorkers adds up put every chunk where its words are: an    *)
(* operation that ended has its bytes in place, and no later one of its     *)
(* tensor or of a neighbour in the dock writes over them, for any length    *)
(* and number of chunks, empty chunks included.                             *)
PlanesInPlace ==
  \A t \in Tensors :
    /\ \A k \in 0..chunks - 1 : <<t, k>> \notin chunkOps =>
         \A i \in Chunk(elements, chunks, k) :
           expDock[TensorBase(t) + i] = ExponentOf(Weight(TensorBase(t) + i))
    /\ t \notin smOps =>
         \A i \in 0..elements - 1 :
           smDock[TensorBase(t) + i]
             = SignMantissaOf(Weight(TensorBase(t) + i))

(* A thread of the grid writes words no other thread of it writes, and none *)
(* behind the expert, where the next slot of the pool begins.               *)
ThreadsDisjoint ==
  \A t \in grid :
    /\ Recovers(t, NumElements) \subseteq Positions
    /\ \A p \in Recovers(t, NumElements) : output[p] = Junk

(* When the kernel is done, the slot holds the words that were split: the   *)
(* way through planes, chunks, docks and threads loses and moves nothing.   *)
RecoveredIsOriginal ==
  launched /\ grid = {} => \A p \in Positions : output[p] = Weight(p) % 65536
=============================================================================
