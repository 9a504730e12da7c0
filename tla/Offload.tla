------------------------------ MODULE Offload ------------------------------
(***************************************************************************)
(* The offloading of a model at its first start, and every later start of  *)
(* it.  The Python loop goes through the tensors of the checkpoint; dense  *)
(* tensors are appended to the offload file one by one, those of experts   *)
(* in batches, whose chunks the compute pool compresses in any order while  *)
(* the loop waits for them in turn; after each of these the whole index is *)
(* written again, and after the last tensor the map of names.  The process *)
(* may end at any point and be started again on the files it left.         *)
(*                                                                         *)
(* A crash is the end of the process, not of the machine: what was written *)
(* stays.                                                                  *)
(***************************************************************************)
EXTENDS Integers, SequencesExt

CONSTANTS
  N,            \* tensors of the checkpoint, 0 .. N - 1 in its order
  Sparse,       \* those that belong to experts
  Ends,         \* the last tensors of the checkpoint's files
  NumChunks,    \* num_file_chunks
  MaxBatch,     \* max_batch_size: num_compute_threads / num_file_chunks
  MaxCrashes    \* bound on the number of crashes

Tensors == 0 .. N - 1
Phases  == {"scan", "append", "serialize", "map", "serve"}

ASSUME OffloadAssumption ==
  /\ N \in Nat \ {0} /\ Sparse \subseteq Tensors
  /\ Ends \subseteq Tensors /\ N - 1 \in Ends
  /\ NumChunks \in Nat \ {0} /\ MaxBatch \in Nat
  /\ MaxCrashes \in Nat

SM   == 0         \* the part with the sign-mantissa plane, or a dense tensor
Junk == -1        \* an offset that was not there to be read, or whose size was not
Torn == <<-1, SM>> \* what a crash left of an append

\* A dense tensor is appended in one piece.
DenseParts == <<SM>>

\* The parts of a tensor in the order they are appended: of an expert's tensor
\* the chunks 1 .. NumChunks, then the sign-mantissa plane.
PartSeq(t) == IF t \in Sparse THEN [i \in 1 .. NumChunks + 1 |-> i % (NumChunks + 1)]
                              ELSE DenseParts
Parts(t)   == ToSet(PartSeq(t))

VARIABLES
  file,       \* the offload file: which part of which tensor at each offset
  indexFile,  \* the index file: its state, the entries that are there, and what
              \* there is of one that was cut off
  mapFile,    \* name_id_map.json
  index,      \* kTensorIndex: for each tensor in it, the offsets of its parts
  phase,      \* where the process is; "down" when there is none
  next,       \* the next tensor of the loop
  batch,      \* tensor_id_list
  todo,       \* parts still to be appended before the index is written
  compressed, \* those of them that the compute pool has compressed
  why,        \* why the last process ended
  crashes     \* the phases the crashes so far fell in

vars == <<file, indexFile, mapFile, index, phase, next, batch, todo, compressed,
          why, crashes>>
disk == <<file, indexFile, mapFile>>

NoIndex == [t \in {} |-> Junk]

\* An index and the entries that come to it.
With(ix, more) ==
  [t \in DOMAIN ix \cup DOMAIN more |-> IF t \in DOMAIN ix THEN ix[t] ELSE more[t]]

Init ==
  /\ file = <<>>
  /\ indexFile = [state |-> "absent", entries |-> NoIndex, cut |-> {}]
  /\ mapFile = "absent"
  /\ index = NoIndex /\ phase = "down" /\ next = 0
  /\ batch = <<>> /\ todo = <<>> /\ compressed = {}
  /\ why = "new" /\ crashes = <<>>

\* An abort, or an exception that ends the process: the files stay.
End(reason) ==
  /\ phase' = "down" /\ why' = reason
  /\ index' = NoIndex /\ next' = 0 /\ batch' = <<>> /\ todo' = <<>> /\ compressed' = {}

-----------------------------------------------------------------------------
(* Starting.                                                               *)

\* What Deserialize may make of the index file.  It never looks at the state
\* of the stream: an entry that was cut off is taken for a whole one.
Readable == {indexFile.entries} \cup {With(indexFile.entries, c) : c \in indexFile.cut}

\* Mutant: the existence of the index is enough.
StartIgnoresMap ==
  /\ phase = "down"
  /\ index' \in Readable
  /\ next' = 0 /\ batch' = <<>> /\ todo' = <<>>
  /\ phase' = IF indexFile.state # "absent" THEN "serve" ELSE "scan"
  /\ why' = "running" /\ UNCHANGED <<disk, compressed, crashes>>

\* The index is there and so is the map: "Loading model from offload_path".
StartLoading ==
  /\ phase = "down" /\ indexFile.state # "absent" /\ mapFile = "whole"
  /\ index' \in Readable
  /\ phase' = "serve" /\ why' = "running"
  /\ UNCHANGED <<disk, next, batch, todo, compressed, crashes>>

\* One of them is not: "Creating model from scratch", with ids from 0, but with
\* the index as it was read.
StartScratch ==
  /\ phase = "down" /\ (indexFile.state = "absent" \/ mapFile = "absent")
  /\ index' \in Readable
  /\ phase' = "scan" /\ why' = "running"
  /\ UNCHANGED <<disk, next, batch, todo, compressed, crashes>>

\* A length read from beyond the end of the index makes resize throw, and a map
\* that ends early makes json.load throw.
StartFails ==
  /\ phase = "down"
  /\ \/ indexFile.state = "torn" /\ End("torn index")
     \/ indexFile.state # "absent" /\ mapFile = "torn" /\ End("torn map")
  /\ UNCHANGED <<disk, crashes>>

-----------------------------------------------------------------------------
(* The loop over the tensors.                                              *)

AtEnd == next > 0 /\ next - 1 \in Ends
Flush == batch # <<>> /\ \/ Len(batch) = MaxBatch \/ AtEnd
                         \/ next \in Tensors \ Sparse

BatchTensor ==
  /\ phase = "scan" /\ next \in Sparse /\ ~Flush
  /\ batch' = Append(batch, next) /\ next' = next + 1
  /\ UNCHANGED <<disk, index, phase, todo, compressed, why, crashes>>

\* Mutant: the vectors of offsets are not sized.
NewMetaUnsized(t) == [p \in {SM} |-> 0]

\* The entry StoreTensor makes: all offsets are 0 until their part is written.
NewMeta(t) == [p \in Parts(t) |-> 0]

\* The appends that a list of tensors takes, in their order.
Appends(ts) ==
  FlattenSeq([i \in DOMAIN ts |->
                [j \in DOMAIN PartSeq(ts[i]) |-> <<ts[i], PartSeq(ts[i])[j]>>]])

\* BatchStoreTensor, up to the first append.
StoreBatch ==
  /\ phase = "scan" /\ Flush
  /\ ToSet(batch) \cap DOMAIN index = {}
  /\ index' = With(index, [t \in ToSet(batch) |-> NewMeta(t)])
  /\ todo' = Appends(batch) /\ batch' = <<>>
  /\ phase' = "append"
  /\ UNCHANGED <<disk, next, compressed, why, crashes>>

\* "Tensor {} is offloaded twice !"
StoreBatchTwice ==
  /\ phase = "scan" /\ Flush
  /\ ToSet(batch) \cap DOMAIN index # {}
  /\ End("offloaded twice") /\ UNCHANGED <<disk, crashes>>

\* Mutant: zipmoe_offload_to_disk does not ask whether the tensor is offloaded.
SkipDenseUnasked ==
  /\ phase = "scan" /\ batch = <<>> /\ next \in (Tensors \ Sparse) \cap DOMAIN index
  /\ End("offloaded twice") /\ UNCHANGED <<disk, crashes>>

\* A dense tensor that is in the index is passed over.
SkipDense ==
  /\ phase = "scan" /\ batch = <<>> /\ next \in (Tensors \ Sparse) \cap DOMAIN index
  /\ next' = next + 1
  /\ UNCHANGED <<disk, index, phase, batch, todo, compressed, why, crashes>>

StoreDense ==
  /\ phase = "scan" /\ batch = <<>> /\ next \in Tensors \ (Sparse \cup DOMAIN index)
  /\ index' = With(index, [t \in {next} |-> NewMeta(t)])
  /\ todo' = Appends(<<next>>) /\ next' = next + 1
  /\ phase' = "append"
  /\ UNCHANGED <<disk, batch, compressed, why, crashes>>

\* compress_submit's task for one chunk: its size is in the index entry, and its
\* future is ready.
Compress ==
  \E part \in ToSet(todo) \ compressed :
    /\ part[2] # SM
    /\ compressed' = compressed \cup {part}
    /\ UNCHANGED <<disk, index, phase, next, batch, todo, why, crashes>>

\* There is something to append: Head(todo) needs no compression or has had it.
NextIsThere == todo # <<>> /\ (Head(todo)[2] # SM => Head(todo) \in compressed)

\* Mutant: the size is taken from the entry before the future is waited for.
WritePartUnawaited ==
  LET t == Head(todo)[1]  p == Head(todo)[2] IN
  /\ phase = "append" /\ todo # <<>>
  /\ file' = Append(file, IF NextIsThere THEN Head(todo) ELSE Torn)
  /\ index' = [index EXCEPT ![t][p] = Len(file)]
  /\ todo' = Tail(todo) /\ compressed' = compressed \ {Head(todo)}
  /\ UNCHANGED <<indexFile, mapFile, phase, next, batch, why, crashes>>

\* write_compressed_append of what is compressed: the part begins where the file
\* ended.
WritePart ==
  LET t == Head(todo)[1]  p == Head(todo)[2] IN
  /\ phase = "append" /\ NextIsThere
  /\ file' = Append(file, Head(todo))
  /\ index' = [index EXCEPT ![t][p] = Len(file)]
  /\ todo' = Tail(todo) /\ compressed' = compressed \ {Head(todo)}
  /\ UNCHANGED <<indexFile, mapFile, phase, next, batch, why, crashes>>

\* Serialize opens the index with trunc ...
SerializeBegin ==
  /\ phase = "append" /\ todo = <<>>
  /\ indexFile' = [state |-> "torn", entries |-> NoIndex, cut |-> {}]
  /\ phase' = "serialize"
  /\ UNCHANGED <<file, mapFile, index, next, batch, todo, compressed, why, crashes>>

\* ... and has written all entries.
SerializeEnd ==
  /\ phase = "serialize"
  /\ indexFile' = [state |-> "whole", entries |-> index, cut |-> {}]
  /\ phase' = "scan"
  /\ UNCHANGED <<file, mapFile, index, next, batch, todo, compressed, why, crashes>>

\* The same for name_id_map.json.
MapBegin ==
  /\ phase = "scan" /\ next = N /\ batch = <<>>
  /\ mapFile' = "torn" /\ phase' = "map"
  /\ UNCHANGED <<file, indexFile, index, next, batch, todo, compressed, why, crashes>>

MapEnd ==
  /\ phase = "map"
  /\ mapFile' = "whole" /\ phase' = "serve"
  /\ UNCHANGED <<file, indexFile, index, next, batch, todo, compressed, why, crashes>>

\* The entry of t cut off behind its first k parts: an entry lists them in the order
\* they were appended in, first their offsets, then their sizes.
CutEntry(t, k) ==
  LET read == {PartSeq(t)[i] : i \in 1 .. k}
  IN  [u \in {t} |-> [p \in Parts(t) |-> IF p \in read THEN index[t][p] ELSE Junk]]
CutEntries(T) == UNION {{{CutEntry(t, k)} : k \in 0 .. Len(PartSeq(t)) - 1} : t \in T}

\* What a crash within Serialize may leave: any of the entries, for they are
\* written in the order of a hash table, and perhaps the beginning of one more.
TornIndexes ==
  UNION {{[state |-> "torn", entries |-> Restrict(index, S), cut |-> c]
            : c \in {{}} \cup CutEntries(DOMAIN index \ S)}
         : S \in SUBSET DOMAIN index}

\* The process ends.  An append may be left half done.
Crash ==
  /\ phase # "down" /\ Len(crashes) < MaxCrashes
  /\ End("crash") /\ crashes' = Append(crashes, phase)
  /\ \/ file' = file
     \/ NextIsThere /\ file' = Append(file, Torn)
  /\ indexFile' \in IF phase = "serialize" THEN TornIndexes ELSE {indexFile}
  /\ UNCHANGED mapFile

Run == \/ StartLoading \/ StartScratch \/ StartFails
       \/ BatchTensor \/ StoreBatch \/ StoreBatchTwice \/ SkipDense \/ StoreDense
       \/ Compress \/ WritePart \/ SerializeBegin \/ SerializeEnd \/ MapBegin \/ MapEnd
Next == Run \/ Crash

Spec     == Init /\ [][Next]_vars
FairSpec == Spec /\ WF_vars(Run)

-----------------------------------------------------------------------------
(* Properties.                                                             *)

\* Every variable keeps its type, and the entries of the index have an offset
\* for each part of their tensor.
TypeOK ==
  LET IsIndex(ix) == /\ DOMAIN ix \subseteq Tensors
                     /\ \A t \in DOMAIN ix : ix[t] \in [Parts(t) -> Nat \cup {Junk}]
  IN
  /\ file \in Seq({<<t, p>> : t \in Tensors, p \in 0 .. NumChunks} \cup {Torn})
  /\ indexFile.state \in {"absent", "torn", "whole"} /\ IsIndex(indexFile.entries)
  /\ \A c \in indexFile.cut : IsIndex(c) /\ DOMAIN c \cap DOMAIN indexFile.entries = {}
  /\ mapFile \in {"absent", "torn", "whole"}
  /\ IsIndex(index) /\ phase \in Phases \cup {"down"} /\ next \in 0 .. N
  /\ batch \in Seq(Sparse) /\ ToSet(todo) \subseteq Tensors \X (0 .. NumChunks)
  /\ compressed \subseteq ToSet(todo)
  /\ crashes \in Seq(Phases) /\ Len(crashes) <= MaxCrashes

\* The part is in the file, where the entry says; all parts of the tensor are.
At(ix, t, p)  == ix[t][p] + 1 \in DOMAIN file /\ file[ix[t][p] + 1] = <<t, p>>
Stored(ix, t) == \A p \in Parts(t) : At(ix, t, p)

\* Whatever a start can read of the index on disk is in the offload file, part by
\* part at the offsets it says, whatever appends earlier crashes cut short and
\* however many of the entries, whole or cut off, a crash left; but for the parts
\* of an entry, read now or by an earlier start, that lay behind the cut.
IndexedIsStored ==
  \A ix \in Readable : \A t \in DOMAIN ix : \A p \in Parts(t) : ix[t][p] = Junk \/ At(ix, t, p)

\* A model that is being served has all its tensors, unless a crash fell within
\* the writing of the index.
LoadedIsComplete ==
  phase = "serve" /\ "serialize" \notin ToSet(crashes)
    => \A t \in Tensors : t \in DOMAIN index /\ Stored(index, t)

\* "Tensor {} is offloaded twice !" is never reached.
NeverOffloadedTwice == why # "offloaded twice"

\* The starts that come to an end: the offloading had ended, or has not got to
\* the index of the first expert yet.
Resumable == /\ phase = "down" /\ Len(crashes) = MaxCrashes
             /\ \/ indexFile.state = "whole" /\ mapFile = "whole"
                \/ /\ indexFile.state # "torn" /\ mapFile = "absent"
                   /\ DOMAIN indexFile.entries \cap Sparse = {}

\* Started again on such files, the program comes to serve the model.
Completes == Resumable ~> phase = "serve"
=============================================================================
