--------------------------- MODULE OffloadProofs ---------------------------
(***************************************************************************)
(* Theorems about Offload, for checkpoints of any size and any number of   *)
(* crashes: what the index lists is in the offload file, and a model that  *)
(* is served is complete unless a crash tore the index.                    *)
(***************************************************************************)
EXTENDS Offload, FiniteSetTheorems, SequenceTheorems, TLAPS

-----------------------------------------------------------------------------
(* The inductive invariant.                                                *)

\* An index has an offset for every part of each of its tensors.
IsIndexOf(ix) == /\ DOMAIN ix \subseteq Tensors
                 /\ \A t \in DOMAIN ix : ix[t] \in [Parts(t) -> Nat \cup {Junk}]

\* The entry was not cut off.
Proper(ix, t) == \A p \in Parts(t) : ix[t][p] \in Nat

\* What an index says is true, but for what was cut off.
True(ix) == \A t \in DOMAIN ix : \A p \in Parts(t) : ix[t][p] = Junk \/ At(ix, t, p)

\* Between the appends nothing is left to append, and no process has no state.
Quiet ==
  /\ todo \in Seq(Tensors \X (0 .. NumChunks)) /\ (phase # "append" => todo = <<>>)
  /\ phase = "down" => index = NoIndex /\ next = 0 /\ batch = <<>>

\* What is still to be appended has an entry that was made for it.
TodoEntered ==
  \A x \in ToSet(todo) : /\ x[1] \in DOMAIN index /\ x[2] \in Parts(x[1])
                         /\ Proper(index, x[1])

\* Every part of a tensor in the index is stored or will be, or was cut off.
StoredOrTodo ==
  \A t \in DOMAIN index : \A p \in Parts(t) :
    index[t][p] = Junk \/ At(index, t, p) \/ <<t, p>> \in ToSet(todo)

\* The index is torn only while it is written, the process agrees with it about
\* every tensor behind it, and the map of names comes after the last tensor.
InStep ==
  /\ indexFile.cut = {} /\ (indexFile.state = "torn" <=> phase = "serialize")
  /\ indexFile.state = "absent" => indexFile.entries = NoIndex
  /\ \A t \in DOMAIN indexFile.entries : Proper(indexFile.entries, t)
  /\ \A t \in DOMAIN index : Proper(index, t)
  /\ 0 .. next - 1 \subseteq DOMAIN index \cup ToSet(batch)
  /\ phase \in {"scan", "map", "serve"} => index = indexFile.entries
  /\ mapFile # "absent" =>
       /\ phase \in {"map", "serve", "down"}
       /\ indexFile.state = "whole" /\ DOMAIN indexFile.entries = Tensors
  /\ phase = "map" => mapFile # "absent"
  /\ phase = "serve" => mapFile = "whole"

\* So it is unless a crash fell within Serialize.
Undisturbed == "serialize" \notin ToSet(crashes) => InStep

OffloadInv ==
  TypeOK /\ Quiet /\ TodoEntered /\ StoredOrTodo /\ IndexedIsStored /\ Undisturbed

-----------------------------------------------------------------------------
(* The list of appends.                                                    *)

\* Induction over the naturals, for the set of those that have a property.
Below == {p \in Nat \X Nat : p[1] < p[2]}

LEMMA NatBySteps == ASSUME NEW S \in SUBSET Nat, 0 \in S, \A n \in S : n + 1 \in S PROVE S = Nat
  <1> DEFINE T == Nat \ S
  <1> SUFFICES ASSUME T # {} PROVE FALSE
    OBVIOUS
  <1>1. IsWellFoundedOn(Below, Nat)
    BY NatLessThanWellFounded DEF OpToRel, Below
  <1>2. T \subseteq Nat
    OBVIOUS
  <1> HIDE DEF T
  <1>3. PICK x \in T : \A y \in T : ~(<<y, x>> \in Below)
    BY <1>1, <1>2, WFMin
  <1> USE DEF T
  <1>4. x \in Nat /\ x # 0 /\ x - 1 \in Nat /\ <<x - 1, x>> \in Below
    BY DEF Below
  <1>5. x - 1 \in S
    BY <1>3, <1>4
  <1> QED BY <1>4, <1>5

\* What two sequences hold together.
LEMMA ConcatSet ==
  ASSUME NEW S, NEW a \in Seq(S), NEW b \in Seq(S)
  PROVE  a \o b \in Seq(S) /\ ToSet(a \o b) = ToSet(a) \cup ToSet(b)
  <1> DEFINE h == a \o b
  <1>1. /\ h \in Seq(S) /\ DOMAIN h = 1 .. Len(a) + Len(b)
        /\ DOMAIN a = 1 .. Len(a) /\ DOMAIN b = 1 .. Len(b) /\ Len(a) \in Nat /\ Len(b) \in Nat
        /\ \A i \in 1 .. Len(a) + Len(b) : h[i] = IF i <= Len(a) THEN a[i] ELSE b[i - Len(a)]
    BY ConcatProperties
  <1> HIDE DEF h
  <1>2. ToSet(h) \subseteq ToSet(a) \cup ToSet(b)
    <2>1. ASSUME NEW i \in 1 .. Len(a) + Len(b) PROVE h[i] \in ToSet(a) \cup ToSet(b)
      <3>1. CASE i <= Len(a)
        BY <1>1, <3>1 DEF ToSet
      <3>2. CASE ~(i <= Len(a))
        <4>1. i - Len(a) \in DOMAIN b /\ h[i] = b[i - Len(a)]
          BY <1>1, <3>2
        <4> QED BY <4>1 DEF ToSet
      <3> QED BY <3>1, <3>2
    <2> QED BY <1>1, <2>1 DEF ToSet
  <1>3. ASSUME NEW i \in 1 .. Len(a) PROVE a[i] \in ToSet(h)
    BY <1>1 DEF ToSet
  <1>4. ASSUME NEW i \in 1 .. Len(b) PROVE b[i] \in ToSet(h)
    <2>1. i + Len(a) \in DOMAIN h /\ h[i + Len(a)] = b[i]
      BY <1>1
    <2> QED BY <2>1 DEF ToSet
  <1>5. ToSet(a) \cup ToSet(b) \subseteq ToSet(h)
    BY <1>1, <1>3, <1>4 DEF ToSet
  <1> QED BY <1>1, <1>2, <1>5 DEF h

\* f holds the first k prefixes that FlattenSeq goes through.
Fronts(f, q, k, S) ==
  /\ f \in [1 .. k -> Seq(S)]
  /\ \A i \in 0 .. k - 1 : f[i + 1] = IF i = 0 THEN q[1] ELSE f[i] \o q[i + 1]
  /\ \A i \in 1 .. k : ToSet(f[i]) = UNION {ToSet(q[j]) : j \in 1 .. i}

LEMMA NextPrefix ==
  ASSUME NEW S, NEW q \in Seq(Seq(S)), NEW k \in Nat, k + 1 <= Len(q),
         NEW f, Fronts(f, q, k, S)
  PROVE  \E g : Fronts(g, q, k + 1, S)
  <1> DEFINE more == IF k = 0 THEN q[1] ELSE f[k] \o q[k + 1]
             g == [i \in 1 .. k + 1 |-> IF i <= k THEN f[i] ELSE more]
             All(i) == UNION {ToSet(q[j]) : j \in 1 .. i}
  <1>1. q[k + 1] \in Seq(S) /\ All(k + 1) = All(k) \cup ToSet(q[k + 1])
    <2>1. 1 .. k + 1 = (1 .. k) \cup {k + 1} /\ q[k + 1] \in Seq(S)
      OBVIOUS
    <2> QED BY <2>1
  <1>2. more \in Seq(S) /\ ToSet(more) = All(k + 1)
    <2>1. CASE k = 0
      BY <1>1, <2>1
    <2>2. CASE k # 0
      <3>1. k \in 1 .. k /\ f[k] \in Seq(S) /\ ToSet(f[k]) = All(k)
        BY <2>2 DEF Fronts
      <3>2. more = f[k] \o q[k + 1]
        BY <2>2
      <3> HIDE DEF more, All
      <3>3. more \in Seq(S) /\ ToSet(more) = ToSet(f[k]) \cup ToSet(q[k + 1])
        BY <1>1, <3>1, <3>2, ConcatSet
      <3> QED BY <1>1, <3>1, <3>3
    <2> QED BY <2>1, <2>2
  <1>3. k = 0 => more = q[1]
    OBVIOUS
  <1>4. k # 0 => more = f[k] \o q[k + 1]
    OBVIOUS
  <1> HIDE DEF more
  <1>5. g \in [1 .. k + 1 -> Seq(S)]
    BY <1>2 DEF Fronts
  <1>6. \A i \in 0 .. k : g[i + 1] = IF i = 0 THEN q[1] ELSE g[i] \o q[i + 1]
    <2> SUFFICES ASSUME NEW i \in 0 .. k
                 PROVE  g[i + 1] = IF i = 0 THEN q[1] ELSE g[i] \o q[i + 1]
      OBVIOUS
    <2>1. CASE i < k
      <3>0. i \in 0 .. k - 1
        BY <2>1
      <3>1. g[i + 1] = f[i + 1] /\ (i # 0 => g[i] = f[i])
        BY <2>1
      <3>2. f[i + 1] = IF i = 0 THEN q[1] ELSE f[i] \o q[i + 1]
        BY <3>0 DEF Fronts
      <3> QED BY <3>1, <3>2
    <2>2. CASE i = k
      <3>1. g[i + 1] = more /\ (i # 0 => g[i] = f[i])
        BY <2>2
      <3> QED BY <1>3, <1>4, <2>2, <3>1
    <2> QED BY <2>1, <2>2
  <1>7. \A i \in 1 .. k + 1 : ToSet(g[i]) = All(i)
    <2> SUFFICES ASSUME NEW i \in 1 .. k + 1 PROVE ToSet(g[i]) = All(i)
      OBVIOUS
    <2>1. CASE i <= k
      BY <2>1 DEF Fronts
    <2>2. CASE i = k + 1
      <3>1. g[i] = more
        BY <2>2
      <3> QED BY <1>2, <2>2, <3>1
    <2> QED BY <2>1, <2>2
  <1>8. (k + 1) - 1 = k
    OBVIOUS
  <1> HIDE DEF g
  <1>9. Fronts(g, q, k + 1, S)
    BY <1>5, <1>6, <1>7, <1>8 DEF Fronts
  <1> QED BY <1>9

LEMMA AllPrefixes == ASSUME NEW S, NEW q \in Seq(Seq(S)) PROVE \E f : Fronts(f, q, Len(q), S)
  <1> DEFINE K == {k \in Nat : k <= Len(q) => \E f : Fronts(f, q, k, S)}
  <1>1. 0 \in K
    <2>1. Fronts([i \in 1 .. 0 |-> <<>>], q, 0, S)
      BY DEF Fronts
    <2> QED BY <2>1
  <1>2. ASSUME NEW k \in K PROVE k + 1 \in K
    BY NextPrefix
  <1>3. K \subseteq Nat /\ Len(q) \in Nat
    OBVIOUS
  <1> HIDE DEF K
  <1>4. Len(q) \in K
    BY <1>1, <1>2, <1>3, NatBySteps
  <1> QED BY <1>4 DEF K

\* FlattenSeq gives the elements of the sequences it joins.
LEMMA Flattened ==
  ASSUME NEW S, NEW q \in Seq(Seq(S))
  PROVE  /\ FlattenSeq(q) \in Seq(S)
         /\ ToSet(FlattenSeq(q)) = UNION {ToSet(q[i]) : i \in DOMAIN q}
  <1>0. Len(q) \in Nat /\ DOMAIN q = 1 .. Len(q)
    OBVIOUS
  <1>1. CASE Len(q) = 0
    <2>1. q = <<>> /\ FlattenSeq(q) = <<>> /\ DOMAIN q = {}
      BY <1>1 DEF FlattenSeq
    <2>2. <<>> \in Seq(S) /\ ToSet(<<>>) = {}
      BY DEF ToSet
    <2>3. UNION {ToSet(q[i]) : i \in DOMAIN q} = {}
      BY <2>1
    <2> QED BY <2>1, <2>2, <2>3
  <1>2. CASE Len(q) # 0
    <2>1. PICK f : Fronts(f, q, Len(q), S)
      BY AllPrefixes
    <2> DEFINE G(g) == g = [i \in 1 .. Len(q) |-> IF i = 1 THEN q[i] ELSE g[i - 1] \o q[i]]
               c == CHOOSE g : G(g)
    <2>2. G(f)
      <3>1. ASSUME NEW i \in 1 .. Len(q) PROVE f[i] = IF i = 1 THEN q[i] ELSE f[i - 1] \o q[i]
        <4>1. i - 1 \in 0 .. Len(q) - 1 /\ (i - 1) + 1 = i
          OBVIOUS
        <4>2. f[(i - 1) + 1] = IF i - 1 = 0 THEN q[1] ELSE f[i - 1] \o q[(i - 1) + 1]
          BY <2>1, <4>1 DEF Fronts
        <4> QED BY <4>1, <4>2
      <3>2. f \in [1 .. Len(q) -> Seq(S)]
        BY <2>1 DEF Fronts
      <3> QED BY <3>1, <3>2
    <2>3. G(c)
      BY <2>2
    <2>4. FlattenSeq(q) = c[Len(q)]
      BY <1>2 DEF FlattenSeq
    <2> HIDE DEF c
    <2> DEFINE E == {k \in Nat : k \in 1 .. Len(q) => c[k] = f[k]}
    <2>5. 0 \in E
      OBVIOUS
    <2>6. ASSUME NEW k \in E PROVE k + 1 \in E
      <3> SUFFICES ASSUME k + 1 \in 1 .. Len(q) PROVE c[k + 1] = f[k + 1]
        OBVIOUS
      <3>0. k \in Nat /\ (k # 0 => c[k] = f[k])
        BY <1>0
      <3> DEFINE i == k + 1
      <3>1. i \in 1 .. Len(q) /\ i - 1 = k /\ (i = 1 <=> k = 0)
        BY <3>0
      <3> HIDE DEF i, E
      <3>2. c[i] = IF i = 1 THEN q[i] ELSE c[i - 1] \o q[i]
        BY <2>3, <3>1
      <3>3. f[i] = IF i = 1 THEN q[i] ELSE f[i - 1] \o q[i]
        BY <2>2, <3>1
      <3>4. c[i] = f[i]
        BY <3>0, <3>1, <3>2, <3>3
      <3> QED BY <3>4 DEF i
    <2> HIDE DEF E
    <2>7. E \subseteq Nat
      BY DEF E
    <2>8. E = Nat
      BY <2>5, <2>6, <2>7, NatBySteps
    <2>9. FlattenSeq(q) = f[Len(q)] /\ Len(q) \in 1 .. Len(q)
      BY <1>0, <1>2, <2>4, <2>8 DEF E
    <2> QED BY <1>0, <2>1, <2>9 DEF Fronts
  <1> QED BY <1>1, <1>2

\* What SMT knows of sequences, for expressions that are not plain names.
LEMMA SeqIsFcn ==
  ASSUME NEW S, NEW s \in Seq(S)
  PROVE  Len(s) \in Nat /\ DOMAIN s = 1 .. Len(s) /\ \A i \in DOMAIN s : s[i] \in S
  OBVIOUS

LEMMA FcnIsSeq ==
  ASSUME NEW S, NEW n \in Nat, NEW f \in [1 .. n -> S]
  PROVE  f \in Seq(S) /\ Len(f) = n
  BY SeqDef

\* A tensor's parts are numbered.
LEMMA PartsOf ==
  ASSUME NEW t
  PROVE  PartSeq(t) \in Seq(0 .. NumChunks) /\ Parts(t) \subseteq 0 .. NumChunks
  <1>1. PartSeq(t) \in Seq(0 .. NumChunks)
    <2>1. CASE t \in Sparse
      <3>1. \A i \in 1 .. NumChunks + 1 : i % (NumChunks + 1) \in 0 .. NumChunks
        BY OffloadAssumption
      <3>2. PartSeq(t) = [i \in 1 .. NumChunks + 1 |-> i % (NumChunks + 1)]
        BY <2>1 DEF PartSeq
      <3> QED BY <3>1, <3>2, OffloadAssumption
    <2>2. CASE t \notin Sparse
      BY <2>2, OffloadAssumption DEF PartSeq, DenseParts, SM
    <2> QED BY <2>1, <2>2
  <1>2. \A i \in DOMAIN PartSeq(t) : PartSeq(t)[i] \in 0 .. NumChunks
    BY <1>1, SeqIsFcn
  <1> QED BY <1>1, <1>2 DEF Parts, ToSet

\* The list of appends has each part of each of the tensors, and no others.
LEMMA AppendsOf ==
  ASSUME NEW ts \in Seq(Tensors)
  PROVE  /\ Appends(ts) \in Seq(Tensors \X (0 .. NumChunks))
         /\ \A x \in ToSet(Appends(ts)) : /\ x \in Tensors \X (0 .. NumChunks)
                                          /\ x[1] \in ToSet(ts) /\ x[2] \in Parts(x[1])
         /\ \A t \in ToSet(ts) : \A p \in Parts(t) : <<t, p>> \in ToSet(Appends(ts))
  <1> DEFINE A == Tensors \X (0 .. NumChunks)
             of(t) == [j \in DOMAIN PartSeq(t) |-> <<t, PartSeq(t)[j]>>]
             q == [i \in DOMAIN ts |-> of(ts[i])]
  <1>1. ASSUME NEW t \in Tensors
        PROVE  of(t) \in Seq(A) /\ ToSet(of(t)) = {<<t, p>> : p \in Parts(t)}
    <2>1. PartSeq(t) \in Seq(0 .. NumChunks)
      BY PartsOf
    <2>2. of(t) \in Seq(A)
      <3>1. /\ DOMAIN PartSeq(t) = 1 .. Len(PartSeq(t)) /\ Len(PartSeq(t)) \in Nat
            /\ \A j \in DOMAIN PartSeq(t) : PartSeq(t)[j] \in 0 .. NumChunks
        BY <2>1, SeqIsFcn
      <3>2. of(t) \in [1 .. Len(PartSeq(t)) -> A]
        BY <3>1
      <3> HIDE DEF A, of
      <3> QED BY <3>1, <3>2, FcnIsSeq
    <2>3. DOMAIN of(t) = DOMAIN PartSeq(t) /\ \A j \in DOMAIN PartSeq(t) : of(t)[j] = <<t, PartSeq(t)[j]>>
      OBVIOUS
    <2>4. ToSet(of(t)) = {<<t, p>> : p \in Parts(t)}
      BY <2>3 DEF Parts, ToSet
    <2> QED BY <2>2, <2>4
  <1>2. DOMAIN ts = 1 .. Len(ts) /\ \A i \in DOMAIN ts : ts[i] \in Tensors
    OBVIOUS
  <1>3. Appends(ts) = FlattenSeq(q)
    BY DEF Appends
  <1> HIDE DEF of
  <1>4. q \in Seq(Seq(A)) /\ DOMAIN q = DOMAIN ts /\ \A i \in DOMAIN ts : q[i] = of(ts[i])
    BY <1>1, <1>2
  <1> HIDE DEF q, A
  <1>5. Appends(ts) \in Seq(A) /\ ToSet(Appends(ts)) = UNION {ToSet(q[i]) : i \in DOMAIN q}
    BY <1>3, <1>4, Flattened
  <1>6. ASSUME NEW x \in ToSet(Appends(ts))
        PROVE  x \in A /\ x[1] \in ToSet(ts) /\ x[2] \in Parts(x[1])
    <2>1. PICK i \in DOMAIN ts : x \in ToSet(of(ts[i]))
      BY <1>4, <1>5
    <2>2. PICK p \in Parts(ts[i]) : x = <<ts[i], p>>
      BY <1>1, <1>2, <2>1
    <2> QED BY <1>2, <2>2, PartsOf DEF A, ToSet
  <1>7. ASSUME NEW t \in ToSet(ts), NEW p \in Parts(t) PROVE <<t, p>> \in ToSet(Appends(ts))
    <2>1. PICK i \in DOMAIN ts : t = ts[i]
      BY DEF ToSet
    <2>2. <<t, p>> \in ToSet(of(ts[i]))
      BY <1>1, <1>2, <2>1
    <2> QED BY <1>4, <1>5, <2>2
  <1> QED BY <1>5, <1>6, <1>7 DEF A

-----------------------------------------------------------------------------
(* What a start reads.                                                     *)

\* The entries that are there, and perhaps one that was cut off.
LEMMA ReadIndex ==
  ASSUME OffloadInv, NEW ix \in Readable
  PROVE  /\ IsIndexOf(ix)
         /\ True(ix)
         /\ indexFile.cut = {} => ix = indexFile.entries
  <1>1. IsIndexOf(indexFile.entries)
        /\ \A c \in indexFile.cut : IsIndexOf(c)
    BY DEF OffloadInv, TypeOK, IsIndexOf
  <1>2. True(ix)
    BY DEF OffloadInv, IndexedIsStored, True
  <1>3. CASE ix = indexFile.entries
    BY <1>1, <1>2, <1>3
  <1>4. ASSUME NEW c \in indexFile.cut, ix = With(indexFile.entries, c) PROVE IsIndexOf(ix)
    <2>1. PICK e : e = indexFile.entries /\ IsIndexOf(e) /\ IsIndexOf(c)
      BY <1>1
    <2>2. ix = [t \in DOMAIN e \cup DOMAIN c |-> IF t \in DOMAIN e THEN e[t] ELSE c[t]]
      BY <1>4, <2>1 DEF With
    <2>3. DOMAIN ix = DOMAIN e \cup DOMAIN c
      BY <2>2
    <2>4. ASSUME NEW t \in DOMAIN ix
          PROVE  (t \in DOMAIN e /\ ix[t] = e[t]) \/ (t \in DOMAIN c /\ ix[t] = c[t])
      BY <2>2, <2>3
    <2> QED BY <2>1, <2>3, <2>4 DEF IsIndexOf
  <1> QED BY <1>2, <1>3, <1>4 DEF Readable

-----------------------------------------------------------------------------
(* The invariant holds at the start and is kept.                           *)

Entries == {<<t, p>> : t \in Tensors, p \in 0 .. NumChunks} \cup {Torn}

\* TypeOK with its index predicate by name.
LEMMA TypesUnfold ==
  TypeOK <=>
    /\ file \in Seq(Entries)
    /\ indexFile.state \in {"absent", "torn", "whole"} /\ IsIndexOf(indexFile.entries)
    /\ \A c \in indexFile.cut : IsIndexOf(c) /\ DOMAIN c \cap DOMAIN indexFile.entries = {}
    /\ mapFile \in {"absent", "torn", "whole"}
    /\ IsIndexOf(index) /\ phase \in Phases \cup {"down"} /\ next \in 0 .. N
    /\ batch \in Seq(Sparse) /\ ToSet(todo) \subseteq Tensors \X (0 .. NumChunks)
    /\ compressed \subseteq ToSet(todo)
    /\ crashes \in Seq(Phases) /\ Len(crashes) <= MaxCrashes
  BY DEF TypeOK, IsIndexOf, Entries

LEMMA InitOffloadInv == Init => OffloadInv
  <1> SUFFICES ASSUME Init PROVE OffloadInv
    OBVIOUS
  <1>1. /\ file = <<>> /\ indexFile.state = "absent" /\ indexFile.entries = NoIndex
        /\ indexFile.cut = {} /\ mapFile = "absent" /\ index = NoIndex /\ phase = "down"
        /\ next = 0 /\ batch = <<>> /\ todo = <<>> /\ compressed = {} /\ crashes = <<>>
    BY DEF Init
  <1>2. DOMAIN NoIndex = {} /\ IsIndexOf(NoIndex)
    BY DEF NoIndex, IsIndexOf
  <1>3. ToSet(<<>>) = {}
    BY DEF ToSet
  <1>4. TypeOK
    BY <1>1, <1>2, <1>3, TypesUnfold, OffloadAssumption
  <1>5. Quiet /\ TodoEntered /\ StoredOrTodo
    BY <1>1, <1>2, <1>3 DEF Quiet, TodoEntered, StoredOrTodo
  <1>6. IndexedIsStored
    BY <1>1, <1>2 DEF IndexedIsStored, Readable
  <1>7. 0 .. next - 1 = {}
    BY <1>1
  <1>8. Undisturbed
    BY <1>1, <1>2, <1>7 DEF Undisturbed, InStep
  <1> QED BY <1>4, <1>5, <1>6, <1>8 DEF OffloadInv

\* An index that grows by entries that are in order stays an index.
LEMMA WithIndex ==
  ASSUME NEW ix, IsIndexOf(ix), NEW T \in SUBSET Tensors, T \cap DOMAIN ix = {},
         NEW more, more = [t \in T |-> NewMeta(t)]
  PROVE  /\ IsIndexOf(With(ix, more)) /\ DOMAIN With(ix, more) = DOMAIN ix \cup T
         /\ \A t \in DOMAIN ix : With(ix, more)[t] = ix[t]
         /\ \A t \in T : Proper(With(ix, more), t)
  <1>1. DOMAIN With(ix, more) = DOMAIN ix \cup T
    BY DEF With
  <1>2. \A t \in DOMAIN ix : With(ix, more)[t] = ix[t]
    BY DEF With
  <1>3. \A t \in T : With(ix, more)[t] = [p \in Parts(t) |-> 0]
    BY DEF With, NewMeta
  <1> DEFINE w == With(ix, more)
  <1> HIDE DEF w
  <1>4. ASSUME NEW t \in T PROVE w[t] \in [Parts(t) -> Nat \cup {Junk}] /\ Proper(w, t)
    <2>1. w[t] = [p \in Parts(t) |-> 0]
      BY <1>3 DEF w
    <2> QED BY <2>1 DEF Proper
  <1>5. IsIndexOf(w)
    BY <1>1, <1>2, <1>4 DEF w, IsIndexOf
  <1> QED BY <1>1, <1>2, <1>4, <1>5 DEF w

\* What an end of the process leaves of its state.
LEMMA EndTypes ==
  ASSUME NEW r, End(r)
  PROVE  /\ phase' = "down" /\ index' = NoIndex /\ DOMAIN index' = {} /\ IsIndexOf(index')
         /\ next' = 0 /\ batch' = <<>> /\ todo' = <<>> /\ compressed' = {}
         /\ ToSet(todo') = {} /\ ToSet(batch') = {}
        /\ next' \in 0 .. N /\ batch' \in Seq(Sparse)
  <1>1. /\ phase' = "down" /\ index' = NoIndex /\ next' = 0 /\ batch' = <<>>
        /\ todo' = <<>> /\ compressed' = {}
    BY DEF End
  <1>2. DOMAIN NoIndex = {} /\ IsIndexOf(NoIndex)
    BY DEF NoIndex, IsIndexOf
  <1>3. ToSet(<<>>) = {} /\ <<>> \in Seq(Sparse)
    BY DEF ToSet
  <1> QED BY <1>1, <1>2, <1>3, OffloadAssumption

\* The tensors of a batch.
LEMMA BatchTensors ==
  ASSUME TypeOK
  PROVE  batch \in Seq(Tensors) /\ ToSet(batch) \subseteq Tensors
  <1>1. batch \in Seq(Sparse) /\ Sparse \subseteq Tensors
    BY OffloadAssumption DEF TypeOK
  <1>2. batch \in Seq(Tensors)
    BY <1>1
  <1> QED BY <1>2 DEF ToSet

\* A list is its head and its tail.
LEMMA TailSet ==
  ASSUME NEW S, NEW s \in Seq(S), s # <<>>
  PROVE  /\ Tail(s) \in Seq(S) /\ Head(s) \in ToSet(s)
         /\ ToSet(s) = {Head(s)} \cup ToSet(Tail(s))
  <1>1. /\ Len(s) \in Nat \ {0} /\ DOMAIN s = 1 .. Len(s) /\ Head(s) = s[1]
        /\ Tail(s) \in Seq(S) /\ DOMAIN Tail(s) = 1 .. Len(s) - 1
        /\ \A i \in 1 .. Len(s) - 1 : Tail(s)[i] = s[i + 1]
    OBVIOUS
  <1>2. ASSUME NEW i \in 1 .. Len(s) PROVE s[i] \in {Head(s)} \cup ToSet(Tail(s))
    <2>1. CASE i = 1
      BY <1>1, <2>1
    <2>2. CASE i # 1
      <3>1. i - 1 \in DOMAIN Tail(s) /\ Tail(s)[i - 1] = s[i]
        BY <1>1, <2>2
      <3> QED BY <3>1 DEF ToSet
    <2> QED BY <2>1, <2>2
  <1>3. ASSUME NEW i \in 1 .. Len(s) - 1 PROVE Tail(s)[i] \in ToSet(s)
    <2>1. i + 1 \in DOMAIN s /\ Tail(s)[i] = s[i + 1]
      BY <1>1
    <2> QED BY <2>1 DEF ToSet
  <1>4. Head(s) \in ToSet(s)
    BY <1>1 DEF ToSet
  <1>5. ToSet(s) \subseteq {Head(s)} \cup ToSet(Tail(s))
    BY <1>1, <1>2 DEF ToSet
  <1>6. ToSet(Tail(s)) \subseteq ToSet(s)
    BY <1>1, <1>3 DEF ToSet
  <1> QED BY <1>1, <1>4, <1>5, <1>6

\* What is in the file stays where it is.
LEMMA Appended ==
  ASSUME NEW S, file \in Seq(S), NEW x, file' = Append(file, x)
  PROVE  /\ \A i \in DOMAIN file : i \in DOMAIN file' /\ file'[i] = file[i]
         /\ Len(file) \in Nat /\ Len(file) + 1 \in DOMAIN file' /\ file'[Len(file) + 1] = x
  OBVIOUS

LEMMA StepTypes == OffloadInv /\ Next => TypeOK'
  <1> SUFFICES ASSUME OffloadInv, Next PROVE TypeOK'
    OBVIOUS
  <1> DEFINE TypesNext ==
        /\ file' \in Seq(Entries)
        /\ indexFile'.state \in {"absent", "torn", "whole"} /\ IsIndexOf(indexFile'.entries)
        /\ \A c \in indexFile'.cut : IsIndexOf(c) /\ DOMAIN c \cap DOMAIN indexFile'.entries = {}
        /\ mapFile' \in {"absent", "torn", "whole"}
        /\ IsIndexOf(index') /\ phase' \in Phases \cup {"down"} /\ next' \in 0 .. N
        /\ batch' \in Seq(Sparse) /\ ToSet(todo') \subseteq Tensors \X (0 .. NumChunks)
        /\ compressed' \subseteq ToSet(todo')
        /\ crashes' \in Seq(Phases) /\ Len(crashes') <= MaxCrashes
  <1> SUFFICES TypesNext
    BY DEF TypeOK, IsIndexOf, Entries
  <1>0. /\ file \in Seq(Entries)
        /\ indexFile.state \in {"absent", "torn", "whole"} /\ IsIndexOf(indexFile.entries)
        /\ \A c \in indexFile.cut : IsIndexOf(c) /\ DOMAIN c \cap DOMAIN indexFile.entries = {}
        /\ mapFile \in {"absent", "torn", "whole"}
        /\ IsIndexOf(index) /\ phase \in Phases \cup {"down"} /\ next \in 0 .. N
        /\ batch \in Seq(Sparse) /\ ToSet(todo) \subseteq Tensors \X (0 .. NumChunks)
        /\ compressed \subseteq ToSet(todo)
        /\ crashes \in Seq(Phases) /\ Len(crashes) <= MaxCrashes
    BY TypesUnfold DEF OffloadInv
  <1>q. todo \in Seq(Tensors \X (0 .. NumChunks))
    BY DEF OffloadInv, Quiet
  <1>1. CASE StartLoading \/ StartScratch
    <2>1. index' \in Readable /\ phase' \in Phases
          /\ UNCHANGED <<disk, next, batch, todo, compressed, crashes>>
      BY <1>1 DEF StartLoading, StartScratch, Phases
    <2> QED BY <1>0, <2>1, ReadIndex DEF disk
  <1>2. CASE StartFails
    <2>1. UNCHANGED <<disk, crashes>> /\ (End("torn index") \/ End("torn map"))
      BY <1>2 DEF StartFails
    <2> QED BY <1>0, <2>1, EndTypes DEF disk
  <1>3. CASE BatchTensor
    BY <1>0, <1>3, OffloadAssumption DEF BatchTensor, disk, Tensors
  <1>4. CASE StoreBatch
    <2> DEFINE more == [t \in ToSet(batch) |-> NewMeta(t)]
    <2>1. batch \in Seq(Tensors) /\ ToSet(batch) \subseteq Tensors
      BY BatchTensors DEF OffloadInv
    <2>2. index' = With(index, more) /\ ToSet(batch) \cap DOMAIN index = {}
      BY <1>4 DEF StoreBatch
    <2>3. IsIndexOf(index')
      <3> HIDE DEF more
      <3>1. more = [t \in ToSet(batch) |-> NewMeta(t)]
        BY DEF more
      <3> QED BY <1>0, <2>1, <2>2, <3>1, WithIndex
    <2>4. ToSet(todo') \subseteq Tensors \X (0 .. NumChunks)
      BY <1>4, <2>1, AppendsOf DEF StoreBatch
    <2>5. compressed = {}
      BY <1>0, <1>4 DEF OffloadInv, Quiet, StoreBatch, ToSet
    <2> QED BY <1>0, <1>4, <2>3, <2>4, <2>5 DEF StoreBatch, disk, Phases
  <1>5. CASE StoreBatchTwice
    <2>1. UNCHANGED <<disk, crashes>> /\ End("offloaded twice")
      BY <1>5 DEF StoreBatchTwice
    <2> QED BY <1>0, <2>1, EndTypes DEF disk
  <1>6. CASE SkipDense
    BY <1>0, <1>6, OffloadAssumption DEF SkipDense, disk, Tensors
  <1>7. CASE StoreDense
    <2> DEFINE more == [t \in {next} |-> NewMeta(t)]
    <2>1. next \in Tensors /\ next \notin DOMAIN index /\ index' = With(index, more)
          /\ next' = next + 1
      BY <1>7 DEF StoreDense
    <2>2. IsIndexOf(index')
      <3> HIDE DEF more
      <3>1. more = [t \in {next} |-> NewMeta(t)]
        BY DEF more
      <3>2. {next} \in SUBSET Tensors /\ {next} \cap DOMAIN index = {}
        BY <2>1
      <3>3. IsIndexOf(With(index, more))
        BY <1>0, <3>1, <3>2, WithIndex
      <3> QED BY <2>1, <3>3
    <2>3. ToSet(todo') \subseteq Tensors \X (0 .. NumChunks)
      BY <1>7, <2>1, AppendsOf DEF StoreDense
    <2>4. compressed = {}
      BY <1>0, <1>7 DEF OffloadInv, Quiet, StoreDense, ToSet
    <2>5. next' \in 0 .. N
      BY <2>1, OffloadAssumption DEF Tensors
    <2> QED BY <1>0, <1>7, <2>2, <2>3, <2>4, <2>5 DEF StoreDense, disk, Phases
  <1>8. CASE Compress
    BY <1>0, <1>8 DEF Compress, disk
  <1>9. CASE WritePart
    <2> DEFINE t == Head(todo)[1]
               p == Head(todo)[2]
    <2>1. /\ todo # <<>> /\ file' = Append(file, Head(todo)) /\ todo' = Tail(todo)
          /\ index' = [index EXCEPT ![t][p] = Len(file)]
          /\ compressed' = compressed \ {Head(todo)}
          /\ UNCHANGED <<indexFile, mapFile, phase, next, batch, why, crashes>>
      BY <1>9 DEF WritePart, NextIsThere
    <2>2. /\ Head(todo) \in ToSet(todo) /\ ToSet(todo') \subseteq ToSet(todo)
          /\ ToSet(todo) = {Head(todo)} \cup ToSet(todo')
      BY <1>q, <2>1, TailSet
    <2>3. Head(todo) \in Tensors \X (0 .. NumChunks) /\ Head(todo) = <<t, p>>
      BY <1>0, <2>2
    <2>4. file' \in Seq(Entries)
      <3>1. Head(todo) \in Entries
        BY <2>3 DEF Entries
      <3> QED BY <1>0, <2>1, <3>1
    <2>5. IsIndexOf(index')
      <3>1. t \in DOMAIN index /\ p \in Parts(t)
        BY <2>2 DEF OffloadInv, TodoEntered
      <3>2. Len(file) \in Nat
        BY <1>0
      <3> HIDE DEF t, p
      <3> QED BY <1>0, <2>1, <3>1, <3>2 DEF IsIndexOf
    <2> QED BY <1>0, <2>1, <2>2, <2>4, <2>5
  <1>10. CASE SerializeBegin
    <2>1. IsIndexOf(NoIndex) /\ DOMAIN NoIndex = {}
      BY DEF NoIndex, IsIndexOf
    <2>2. indexFile'.state = "torn" /\ indexFile'.entries = NoIndex /\ indexFile'.cut = {}
      BY <1>10 DEF SerializeBegin
    <2> QED BY <1>0, <1>10, <2>1, <2>2 DEF SerializeBegin, Phases
  <1>11. CASE SerializeEnd
    <2>1. indexFile'.state = "whole" /\ indexFile'.entries = index /\ indexFile'.cut = {}
      BY <1>11 DEF SerializeEnd
    <2> QED BY <1>0, <1>11, <2>1 DEF SerializeEnd, Phases
  <1>12. CASE MapBegin \/ MapEnd
    BY <1>0, <1>12 DEF MapBegin, MapEnd, Phases
  <1>13. CASE Crash
    <2>1. End("crash") /\ crashes' = Append(crashes, phase) /\ phase # "down"
          /\ Len(crashes) < MaxCrashes /\ UNCHANGED mapFile
      BY <1>13 DEF Crash
    <2>2. file' \in Seq(Entries)
      <3>1. file' = file \/ file' = Append(file, Torn)
        BY <1>13 DEF Crash
      <3>2. Torn \in Entries
        BY DEF Entries
      <3>3. file \in Seq(Entries)
        BY <1>0
      <3> QED BY <3>1, <3>2, <3>3
    <2>3. /\ indexFile'.state \in {"absent", "torn", "whole"} /\ IsIndexOf(indexFile'.entries)
          /\ \A c \in indexFile'.cut : IsIndexOf(c) /\ DOMAIN c \cap DOMAIN indexFile'.entries = {}
      <3>1. CASE indexFile' = indexFile
        <4>1. \A c \in indexFile.cut : IsIndexOf(c) /\ DOMAIN c \cap DOMAIN indexFile.entries = {}
          BY <1>0
        <4>2. \A c \in indexFile'.cut : IsIndexOf(c) /\ DOMAIN c \cap DOMAIN indexFile'.entries = {}
          BY Zenon, <3>1, <4>1
        <4> QED BY <1>0, <3>1, <4>2
      <3>2. ASSUME indexFile' \in TornIndexes
            PROVE  /\ indexFile'.state = "torn" /\ IsIndexOf(indexFile'.entries)
                   /\ \A c \in indexFile'.cut : IsIndexOf(c) /\ DOMAIN c \cap DOMAIN indexFile'.entries = {}
        <4>0. PICK S \in SUBSET DOMAIN index :
                \E c \in {{}} \cup CutEntries(DOMAIN index \ S) :
                  indexFile' = [state |-> "torn", entries |-> Restrict(index, S), cut |-> c]
          BY <3>2 DEF TornIndexes
        <4>1. PICK c \in {{}} \cup CutEntries(DOMAIN index \ S) :
                indexFile' = [state |-> "torn", entries |-> Restrict(index, S), cut |-> c]
          BY <4>0
        <4>2. DOMAIN Restrict(index, S) = S /\ \A t \in S : Restrict(index, S)[t] = index[t]
          BY DEF Restrict
        <4>3. IsIndexOf(Restrict(index, S))
          BY <1>0, <4>2 DEF IsIndexOf
        <4>4. ASSUME NEW d \in c PROVE IsIndexOf(d) /\ DOMAIN d \cap S = {}
          <5>1. PICK t \in DOMAIN index \ S : \E k : d = CutEntry(t, k)
            BY DEF CutEntries
          <5>2. t \in Tensors /\ index[t] \in [Parts(t) -> Nat \cup {Junk}]
            BY <1>0 DEF IsIndexOf
          <5>3. DOMAIN d = {t} /\ d[t] \in [Parts(t) -> Nat \cup {Junk}]
            BY <5>1, <5>2 DEF CutEntry
          <5> QED BY <5>2, <5>3 DEF IsIndexOf
        <4> QED BY <4>1, <4>2, <4>3, <4>4
      <3> QED BY <1>13, <3>1, <3>2 DEF Crash
    <2>4. crashes' \in Seq(Phases) /\ Len(crashes') <= MaxCrashes
      BY <1>0, <2>1, OffloadAssumption
    <2> QED BY <1>0, <2>1, <2>2, <2>3, <2>4, EndTypes
  <1> QED
    BY <1>1, <1>2, <1>3, <1>4, <1>5, <1>6, <1>7, <1>8, <1>9, <1>10, <1>11, <1>12, <1>13
       DEF Next, Run

\* Nothing in the offload file is ever moved or overwritten.
LEMMA FileGrows ==
  OffloadInv /\ Next => \A i \in DOMAIN file : i \in DOMAIN file' /\ file'[i] = file[i]
  <1> SUFFICES ASSUME OffloadInv, Next
               PROVE  \A i \in DOMAIN file : i \in DOMAIN file' /\ file'[i] = file[i]
    OBVIOUS
  <1>1. file \in Seq(Entries)
    BY TypesUnfold DEF OffloadInv
  <1>2. file' = file \/ \E x : file' = Append(file, x)
    BY DEF Next, Run, StartLoading, StartScratch, StartFails, BatchTensor, StoreBatch,
           StoreBatchTwice, SkipDense, StoreDense, Compress, WritePart, SerializeBegin,
           SerializeEnd, MapBegin, MapEnd, Crash, disk
  <1> QED BY <1>1, <1>2, Appended

LEMMA StepQuiet == OffloadInv /\ Next => Quiet'
  <1> SUFFICES ASSUME OffloadInv, Next PROVE Quiet'
    OBVIOUS
  <1>0. Quiet /\ TypeOK
    BY DEF OffloadInv
  <1>1. ASSUME NEW r, End(r) PROVE Quiet'
    BY <1>1 DEF End, Quiet
  <1>2. CASE StoreBatch
    <2>1. batch \in Seq(Tensors)
      BY <1>0, BatchTensors
    <2>2. todo' \in Seq(Tensors \X (0 .. NumChunks)) /\ phase' = "append"
      BY <1>2, <2>1, AppendsOf DEF StoreBatch
    <2> QED BY <2>2 DEF Quiet
  <1>3. CASE StoreDense
    <2>1. <<next>> \in Seq(Tensors)
      BY <1>3 DEF StoreDense
    <2>2. todo' \in Seq(Tensors \X (0 .. NumChunks)) /\ phase' = "append"
      BY <1>3, <2>1, AppendsOf DEF StoreDense
    <2> QED BY <2>2 DEF Quiet
  <1>4. CASE WritePart
    <2>1. phase = "append" /\ todo # <<>> /\ todo' = Tail(todo) /\ phase' = phase
      BY <1>4 DEF WritePart, NextIsThere
    <2>2. todo' \in Seq(Tensors \X (0 .. NumChunks))
      BY <1>0, <2>1, TailSet DEF Quiet
    <2> QED BY <2>1, <2>2 DEF Quiet
  <1>5. CASE StartLoading \/ StartScratch \/ BatchTensor \/ SkipDense \/ Compress \/ SerializeBegin
              \/ SerializeEnd \/ MapBegin \/ MapEnd
    BY <1>0, <1>5 DEF Quiet, TypeOK, StartLoading, StartScratch, BatchTensor, SkipDense, Compress,
                      SerializeBegin, SerializeEnd, MapBegin, MapEnd, disk
  <1>6. CASE StartFails \/ StoreBatchTwice \/ Crash
    BY <1>1, <1>6 DEF StartFails, StoreBatchTwice, Crash
  <1> QED BY <1>2, <1>3, <1>4, <1>5, <1>6 DEF Next, Run

\* What an append leaves of the list and of the index.
LEMMA PartWritten ==
  ASSUME OffloadInv, WritePart, NEW t, NEW p, t = Head(todo)[1], p = Head(todo)[2]
  PROVE  /\ <<t, p>> \in ToSet(todo) /\ Head(todo) = <<t, p>>
         /\ t \in DOMAIN index /\ p \in Parts(t) /\ Proper(index, t)
         /\ ToSet(todo) = {<<t, p>>} \cup ToSet(todo')
         /\ DOMAIN index' = DOMAIN index
         /\ \A u \in DOMAIN index \ {t} : index'[u] = index[u]
         /\ DOMAIN index[t] = Parts(t) /\ DOMAIN index'[t] = Parts(t)
         /\ index'[t][p] = Len(file) /\ Len(file) \in Nat
         /\ \A q \in Parts(t) \ {p} : index'[t][q] = index[t][q]
         /\ file' = Append(file, <<t, p>>)
  <1>1. /\ todo # <<>> /\ file' = Append(file, Head(todo)) /\ todo' = Tail(todo)
        /\ index' = [index EXCEPT ![t][p] = Len(file)]
    BY DEF WritePart, NextIsThere
  <1>2. todo \in Seq(Tensors \X (0 .. NumChunks))
    BY DEF OffloadInv, Quiet
  <1>3. Head(todo) \in ToSet(todo) /\ ToSet(todo) = {Head(todo)} \cup ToSet(todo')
    BY <1>1, <1>2, TailSet
  <1>4. Head(todo) = <<t, p>>
    <2>1. Head(todo) \in Tensors \X (0 .. NumChunks)
      BY <1>1, <1>2
    <2> QED BY <2>1
  <1>5. t \in DOMAIN index /\ p \in Parts(t) /\ Proper(index, t)
    BY <1>3 DEF OffloadInv, TodoEntered
  <1>6. IsIndexOf(index) /\ Len(file) \in Nat
    BY TypesUnfold DEF OffloadInv
  <1>7. index[t] \in [Parts(t) -> Nat \cup {Junk}]
    BY <1>5, <1>6 DEF IsIndexOf
  <1> QED BY <1>1, <1>3, <1>4, <1>5, <1>6, <1>7

\* The entries that come to the index, for the tensors of a batch or a dense one.
LEMMA EntriesMade ==
  ASSUME OffloadInv, NEW ts \in Seq(Tensors), ToSet(ts) \cap DOMAIN index = {},
         todo' = Appends(ts), index' = With(index, [t \in ToSet(ts) |-> NewMeta(t)])
  PROVE  /\ DOMAIN index' = DOMAIN index \cup ToSet(ts)
         /\ \A t \in DOMAIN index : index'[t] = index[t]
         /\ \A t \in ToSet(ts) : Proper(index', t)
         /\ \A x \in ToSet(todo') : x[1] \in ToSet(ts) /\ x[2] \in Parts(x[1])
         /\ \A t \in ToSet(ts) : \A p \in Parts(t) : <<t, p>> \in ToSet(todo')
  <1>1. PICK T, more : T = ToSet(ts) /\ more = [t \in T |-> NewMeta(t)]
    OBVIOUS
  <1>2. T \in SUBSET Tensors /\ T \cap DOMAIN index = {} /\ index' = With(index, more)
    BY <1>1 DEF ToSet
  <1>3. PICK ix : ix = index /\ IsIndexOf(ix)
    BY TypesUnfold DEF OffloadInv
  <1>4. /\ DOMAIN With(ix, more) = DOMAIN ix \cup T
        /\ \A t \in DOMAIN ix : With(ix, more)[t] = ix[t]
        /\ \A t \in T : Proper(With(ix, more), t)
    <2>1. DOMAIN With(ix, more) = DOMAIN ix \cup T
      BY <1>1 DEF With
    <2>2. ASSUME NEW t \in DOMAIN ix PROVE With(ix, more)[t] = ix[t]
      BY DEF With
    <2>3. ASSUME NEW t \in T PROVE Proper(With(ix, more), t)
      BY <1>1, <1>2, <1>3, WithIndex
    <2> QED BY <2>1, <2>2, <2>3
  <1>5. /\ \A x \in ToSet(todo') : x[1] \in ToSet(ts) /\ x[2] \in Parts(x[1])
        /\ \A t \in ToSet(ts) : \A p \in Parts(t) : <<t, p>> \in ToSet(todo')
    BY AppendsOf
  <1> QED BY <1>1, <1>2, <1>3, <1>4, <1>5

\* A batch or a dense tensor, as such a list.
LEMMA StoreMakesEntries ==
  ASSUME OffloadInv, StoreBatch \/ StoreDense
  PROVE  \E ts \in Seq(Tensors) :
           /\ ToSet(ts) \cap DOMAIN index = {}
           /\ todo' = Appends(ts) /\ index' = With(index, [t \in ToSet(ts) |-> NewMeta(t)])
           /\ 0 .. next' - 1 \subseteq (0 .. next - 1) \cup ToSet(ts)
           /\ ToSet(batch) \subseteq ToSet(ts) /\ batch' = <<>>
  <1>1. CASE StoreBatch
    <2>1. batch \in Seq(Tensors)
      BY BatchTensors DEF OffloadInv
    <2> QED BY <1>1, <2>1 DEF StoreBatch
  <1>2. CASE StoreDense
    <2>1. next \in Tensors /\ next \notin DOMAIN index /\ next' = next + 1
          /\ batch = <<>> /\ batch' = batch /\ todo' = Appends(<<next>>)
          /\ index' = With(index, [t \in {next} |-> NewMeta(t)])
      BY <1>2 DEF StoreDense
    <2>2. ToSet(<<next>>) = {next} /\ ToSet(<<>>) = {} /\ <<next>> \in Seq(Tensors)
      BY <2>1 DEF ToSet
    <2>3. 0 .. next' - 1 \subseteq (0 .. next - 1) \cup {next}
      BY <2>1, OffloadAssumption DEF Tensors
    <2> QED BY <2>1, <2>2, <2>3
  <1> QED BY <1>1, <1>2

LEMMA StepTodoEntered == OffloadInv /\ Next => TodoEntered'
  <1> SUFFICES ASSUME OffloadInv, Next PROVE TodoEntered'
    OBVIOUS
  <1>0. Quiet /\ TodoEntered
    BY DEF OffloadInv
  <1>1. CASE todo' = <<>>
    BY <1>1 DEF TodoEntered, ToSet
  <1>2. CASE StoreBatch \/ StoreDense
    <2>1. PICK ts \in Seq(Tensors) :
            /\ ToSet(ts) \cap DOMAIN index = {}
            /\ todo' = Appends(ts) /\ index' = With(index, [t \in ToSet(ts) |-> NewMeta(t)])
      BY <1>2, StoreMakesEntries
    <2>2. /\ DOMAIN index' = DOMAIN index \cup ToSet(ts)
          /\ \A t \in ToSet(ts) : Proper(index', t)
          /\ \A x \in ToSet(todo') : x[1] \in ToSet(ts) /\ x[2] \in Parts(x[1])
      BY <2>1, EntriesMade
    <2> QED BY <2>2 DEF TodoEntered, Proper
  <1>3. CASE WritePart
    <2>0. PICK t, p : t = Head(todo)[1] /\ p = Head(todo)[2]
      OBVIOUS
    <2>1. /\ t \in DOMAIN index /\ p \in Parts(t) /\ Proper(index, t)
          /\ ToSet(todo) = {<<t, p>>} \cup ToSet(todo')
          /\ DOMAIN index' = DOMAIN index
          /\ \A u \in DOMAIN index \ {t} : index'[u] = index[u]
          /\ index'[t][p] = Len(file) /\ Len(file) \in Nat
          /\ \A q \in Parts(t) \ {p} : index'[t][q] = index[t][q]
      BY <1>3, <2>0, PartWritten
    <2>2. \A u \in DOMAIN index : Proper(index, u) => Proper(index', u)
      BY <2>1 DEF Proper
    <2> QED BY <1>0, <2>1, <2>2 DEF TodoEntered, Proper
  <1>4. CASE UNCHANGED <<index, todo>>
    BY <1>0, <1>4 DEF TodoEntered, Proper
  <1>5. CASE StartLoading \/ StartScratch \/ BatchTensor \/ SkipDense \/ Compress \/ SerializeBegin
              \/ SerializeEnd \/ MapBegin \/ MapEnd
    BY <1>0, <1>1, <1>4, <1>5 DEF Quiet, StartLoading, StartScratch, BatchTensor, SkipDense, Compress,
                            SerializeBegin, SerializeEnd, MapBegin, MapEnd, disk
  <1>6. CASE StartFails \/ StoreBatchTwice \/ Crash
    BY <1>1, <1>6 DEF StartFails, StoreBatchTwice, Crash, End
  <1> QED BY <1>2, <1>3, <1>5, <1>6 DEF Next, Run

LEMMA StepStoredOrTodo == OffloadInv /\ Next => StoredOrTodo'
  <1> SUFFICES ASSUME OffloadInv, Next PROVE StoredOrTodo'
    OBVIOUS
  <1>0. Quiet /\ TodoEntered /\ StoredOrTodo
    BY DEF OffloadInv
  <1>g. \A i \in DOMAIN file : i \in DOMAIN file' /\ file'[i] = file[i]
    BY FileGrows
  <1>n. ToSet(<<>>) = {}
    BY DEF ToSet
  <1>1. CASE StartLoading \/ StartScratch
    <2>1. index' \in Readable /\ UNCHANGED file
      BY <1>1 DEF StartLoading, StartScratch, disk
    <2>2. True(index')
      BY <2>1, ReadIndex
    <2> QED BY <2>1, <2>2 DEF StoredOrTodo, True, At
  <1>2. CASE StoreBatch \/ StoreDense
    <2>1. PICK ts \in Seq(Tensors) :
            /\ ToSet(ts) \cap DOMAIN index = {}
            /\ todo' = Appends(ts) /\ index' = With(index, [t \in ToSet(ts) |-> NewMeta(t)])
      BY <1>2, StoreMakesEntries
    <2>2. /\ DOMAIN index' = DOMAIN index \cup ToSet(ts)
          /\ \A t \in DOMAIN index : index'[t] = index[t]
          /\ \A t \in ToSet(ts) : \A p \in Parts(t) : <<t, p>> \in ToSet(todo')
      BY <2>1, EntriesMade
    <2>3. todo = <<>> /\ UNCHANGED file
      BY <1>0, <1>2 DEF Quiet, StoreBatch, StoreDense, disk
    <2>4. \A t \in DOMAIN index : \A p \in Parts(t) : index[t][p] = Junk \/ At(index, t, p)
      BY <1>0, <1>n, <2>3 DEF StoredOrTodo
    <2> QED BY <2>2, <2>3, <2>4 DEF StoredOrTodo, At
  <1>3. CASE WritePart
    <2>0. PICK t, p : t = Head(todo)[1] /\ p = Head(todo)[2]
      OBVIOUS
    <2>1. /\ t \in DOMAIN index /\ p \in Parts(t) /\ Proper(index, t)
          /\ ToSet(todo) = {<<t, p>>} \cup ToSet(todo')
          /\ DOMAIN index' = DOMAIN index
          /\ \A u \in DOMAIN index \ {t} : index'[u] = index[u]
          /\ index'[t][p] = Len(file) /\ Len(file) \in Nat
          /\ \A q \in Parts(t) \ {p} : index'[t][q] = index[t][q]
          /\ file' = Append(file, <<t, p>>)
      BY <1>3, <2>0, PartWritten
    <2>2. At(index, t, p)'
      <3>1. Len(file) + 1 \in DOMAIN file' /\ file'[Len(file) + 1] = <<t, p>>
        BY <2>1, Appended, TypesUnfold DEF OffloadInv
      <3> QED BY <2>1, <3>1 DEF At
    <2>3. ASSUME NEW u \in DOMAIN index \ {t}
          PROVE  \A q \in Parts(u) :
                   index'[u][q] = Junk \/ At(index, u, q)' \/ <<u, q>> \in ToSet(todo')
      <3>1. index'[u] = index[u]
        BY <2>1
      <3>2. \A q \in Parts(u) : index[u][q] = Junk \/ At(index, u, q) \/ <<u, q>> \in ToSet(todo)
        BY <1>0 DEF StoredOrTodo
      <3>3. \A q \in Parts(u) : At(index, u, q) => At(index, u, q)'
        BY <1>g, <3>1 DEF At
      <3>4. \A q \in Parts(u) : <<u, q>> \in ToSet(todo) => <<u, q>> \in ToSet(todo')
        BY <2>1
      <3> QED BY <3>1, <3>2, <3>3, <3>4
    <2>4. \A q \in Parts(t) : At(index, t, q)' \/ <<t, q>> \in ToSet(todo')
      <3>1. \A q \in Parts(t) : At(index, t, q) \/ <<t, q>> \in ToSet(todo)
        <4>1. \A q \in Parts(t) : index[t][q] # Junk
          BY <2>1 DEF Proper, Junk
        <4> QED BY <1>0, <2>1, <4>1 DEF StoredOrTodo
      <3>2. \A q \in Parts(t) \ {p} : At(index, t, q) => At(index, t, q)'
        BY <1>g, <2>1 DEF At
      <3>3. \A q \in Parts(t) \ {p} : <<t, q>> \in ToSet(todo) => <<t, q>> \in ToSet(todo')
        BY <2>1
      <3> QED BY <2>2, <3>1, <3>2, <3>3
    <2> QED BY <2>1, <2>3, <2>4 DEF StoredOrTodo
  <1>4. CASE UNCHANGED <<index, todo>>
    <2>1. \A t, p : At(index, t, p) => At(index, t, p)'
      BY <1>g, <1>4 DEF At
    <2> QED BY <1>0, <1>4, <2>1 DEF StoredOrTodo
  <1>5. CASE BatchTensor \/ SkipDense \/ Compress \/ SerializeBegin \/ SerializeEnd \/ MapBegin \/ MapEnd
    BY <1>4, <1>5 DEF BatchTensor, SkipDense, Compress, SerializeBegin, SerializeEnd, MapBegin, MapEnd
  <1>6. CASE StartFails \/ StoreBatchTwice \/ Crash
    <2>1. index' = NoIndex
      BY <1>6 DEF StartFails, StoreBatchTwice, Crash, End
    <2> QED BY <2>1 DEF StoredOrTodo, NoIndex
  <1> QED BY <1>1, <1>2, <1>3, <1>5, <1>6 DEF Next, Run

LEMMA StepIndexed == OffloadInv /\ Next => IndexedIsStored'
  <1> SUFFICES ASSUME OffloadInv, Next PROVE IndexedIsStored'
    OBVIOUS
  <1>0. Quiet /\ StoredOrTodo /\ IndexedIsStored
    BY DEF OffloadInv
  <1>g. \A i \in DOMAIN file : i \in DOMAIN file' /\ file'[i] = file[i]
    BY FileGrows
  \* An index that says no more than one that is true is true in the next state.
  <1>1. ASSUME NEW ix, True(ix), NEW jx,
               \A t \in DOMAIN jx : \A p \in Parts(t) :
                 jx[t][p] = Junk \/ (t \in DOMAIN ix /\ jx[t][p] = ix[t][p])
        PROVE  \A t \in DOMAIN jx : \A p \in Parts(t) : jx[t][p] = Junk \/ At(jx, t, p)'
    <2> SUFFICES ASSUME NEW t \in DOMAIN jx, NEW p \in Parts(t), jx[t][p] # Junk
                 PROVE  jx[t][p] + 1 \in DOMAIN file' /\ file'[jx[t][p] + 1] = <<t, p>>
      BY DEF At
    <2>1. t \in DOMAIN ix /\ jx[t][p] = ix[t][p]
      BY <1>1
    <2>2. At(ix, t, p)
      BY <1>1, <2>1 DEF True
    <2> QED BY <1>g, <2>1, <2>2 DEF At
  <1>2. CASE indexFile' = indexFile
    <2> SUFFICES ASSUME NEW ix \in Readable'
                 PROVE  \A t \in DOMAIN ix : \A p \in Parts(t) : ix[t][p] = Junk \/ At(ix, t, p)'
      BY DEF IndexedIsStored, At
    <2>1. ix \in Readable
      BY <1>2 DEF Readable
    <2>2. True(ix)
      BY <1>0, <2>1 DEF IndexedIsStored, True
    <2> QED BY <1>1, <2>2
  <1>3. ASSUME phase = "serialize",
               \A ix \in Readable' : \A t \in DOMAIN ix : \A p \in Parts(t) :
                 ix[t][p] = Junk \/ (t \in DOMAIN index /\ ix[t][p] = index[t][p])
        PROVE  IndexedIsStored'
    <2>1. todo = <<>> /\ ToSet(<<>>) = {}
      BY <1>0, <1>3 DEF Quiet, ToSet
    <2>2. True(index)
      BY <1>0, <2>1 DEF StoredOrTodo, True
    <2>3. PICK ix : ix = index /\ True(ix)
      BY <2>2
    <2> SUFFICES ASSUME NEW jx \in Readable'
                 PROVE  \A t \in DOMAIN jx : \A p \in Parts(t) : jx[t][p] = Junk \/ At(jx, t, p)'
      BY DEF IndexedIsStored, At
    <2>4. \A t \in DOMAIN jx : \A p \in Parts(t) :
            jx[t][p] = Junk \/ (t \in DOMAIN ix /\ jx[t][p] = ix[t][p])
      BY <1>3, <2>3
    <2> QED BY <1>1, <2>3, <2>4
  <1>4. CASE SerializeBegin
    <2>1. indexFile'.entries = NoIndex /\ indexFile'.cut = {}
      BY <1>4 DEF SerializeBegin
    <2> QED BY <2>1 DEF IndexedIsStored, Readable, NoIndex
  <1>5. CASE SerializeEnd
    <2>1. phase = "serialize" /\ indexFile'.entries = index /\ indexFile'.cut = {}
      BY <1>5 DEF SerializeEnd
    <2>2. Readable' = {index}
      BY <2>1 DEF Readable
    <2> QED BY <1>3, <2>1, <2>2
  <1>6. CASE Crash
    <2>1. CASE phase # "serialize"
      <3>1. indexFile' = indexFile
        BY <1>6, <2>1 DEF Crash
      <3> QED BY <1>2, <3>1
    <2>2. CASE phase = "serialize"
      <3>1. indexFile' \in TornIndexes
        BY <1>6, <2>2 DEF Crash
      <3>2. PICK S \in SUBSET DOMAIN index : \E c \in {{}} \cup CutEntries(DOMAIN index \ S) :
              indexFile' = [state |-> "torn", entries |-> Restrict(index, S), cut |-> c]
        BY <3>1 DEF TornIndexes
      <3>3. PICK c \in {{}} \cup CutEntries(DOMAIN index \ S) :
              indexFile'.entries = Restrict(index, S) /\ indexFile'.cut = c
        BY <3>2
      <3>4. DOMAIN Restrict(index, S) = S /\ \A t \in S : Restrict(index, S)[t] = index[t]
        BY DEF Restrict
      <3>5. ASSUME NEW d \in c, NEW t \in DOMAIN d, NEW p \in Parts(t)
            PROVE  d[t][p] = Junk \/ (t \in DOMAIN index /\ d[t][p] = index[t][p])
        <4>1. PICK u \in DOMAIN index \ S : \E k : d = CutEntry(u, k)
          BY <3>3 DEF CutEntries
        <4>2. PICK k : d = CutEntry(u, k)
          BY <4>1
        <4>3. PICK read : d = [w \in {u} |-> [q \in Parts(u) |->
                                 IF q \in read THEN index[u][q] ELSE Junk]]
          BY Zenon, <4>2 DEF CutEntry
        <4>4. t = u /\ d[t] = [q \in Parts(t) |-> IF q \in read THEN index[t][q] ELSE Junk]
          BY <4>3
        <4> QED BY <4>1, <4>4
      <3>6. ASSUME NEW ix \in Readable', NEW t \in DOMAIN ix, NEW p \in Parts(t)
            PROVE  ix[t][p] = Junk \/ (t \in DOMAIN index /\ ix[t][p] = index[t][p])
        <4> DEFINE e == Restrict(index, S)
        <4>1. ix = e \/ \E d \in c : ix = With(e, d)
          BY <3>3 DEF Readable
        <4>2. (t \in DOMAIN e /\ ix[t] = e[t]) \/ (\E d \in c : t \in DOMAIN d /\ ix[t] = d[t])
          BY <4>1 DEF With
        <4> HIDE DEF e
        <4>3. \A u \in DOMAIN e : u \in DOMAIN index /\ e[u] = index[u]
          BY <3>4 DEF e
        <4> QED BY <3>5, <4>2, <4>3
      <3> QED BY <1>3, <2>2, <3>6
    <2> QED BY <2>1, <2>2
  <1>7. CASE StartLoading \/ StartScratch \/ StartFails \/ BatchTensor \/ StoreBatch \/ StoreBatchTwice
              \/ SkipDense \/ StoreDense \/ Compress \/ WritePart \/ MapBegin \/ MapEnd
    BY <1>2, <1>7 DEF StartLoading, StartScratch, StartFails, BatchTensor, StoreBatch,
                      StoreBatchTwice, SkipDense, StoreDense, Compress, WritePart, MapBegin, MapEnd, disk
  <1> QED BY <1>4, <1>5, <1>6, <1>7 DEF Next, Run

LEMMA StepInStep ==
  ASSUME OffloadInv, InStep, Next, Crash => phase # "serialize" PROVE InStep'
  <1>0. TypeOK /\ Quiet /\ TodoEntered
    BY DEF OffloadInv
  <1>c. indexFile.cut = {} /\ (indexFile.state = "torn" <=> phase = "serialize")
    BY DEF InStep
  <1>i. IsIndexOf(index) /\ next \in 0 .. N /\ batch \in Seq(Sparse)
    BY <1>0, TypesUnfold
  <1>n. ToSet(<<>>) = {} /\ DOMAIN NoIndex = {}
    BY DEF ToSet, NoIndex
  <1>1. CASE StartLoading \/ StartScratch
    <2>1. /\ phase = "down" /\ index' \in Readable /\ phase' \in {"serve", "scan"}
          /\ phase' = "serve" => mapFile = "whole"
          /\ phase' = "scan" => indexFile.state = "absent" \/ mapFile = "absent"
          /\ UNCHANGED <<disk, next, batch>>
      BY <1>1 DEF StartLoading, StartScratch
    <2>2. index' = indexFile.entries
      BY <1>c, <2>1, ReadIndex
    <2>3. 0 .. next' - 1 = {}
      BY <1>0, <2>1 DEF Quiet
    <2>4. phase' = "scan" => mapFile' = "absent"
      BY <2>1 DEF InStep, disk
    <2> QED BY <1>c, <2>1, <2>2, <2>3, <2>4 DEF InStep, disk, Proper
  <1>2. CASE StartFails \/ StoreBatchTwice \/ Crash
    <2>1. /\ phase' = "down" /\ index' = NoIndex /\ next' = 0 /\ UNCHANGED <<indexFile, mapFile>>
          /\ phase # "serialize"
      BY <1>2 DEF StartFails, StoreBatchTwice, Crash, End, disk
    <2>2. 0 .. next' - 1 = {}
      BY <2>1
    <2>3. mapFile' # "absent" => indexFile'.state = "whole" /\ DOMAIN indexFile'.entries = Tensors
      BY <2>1 DEF InStep
    <2> QED BY <1>c, <1>n, <2>1, <2>2, <2>3 DEF InStep, Proper
  <1>3. CASE BatchTensor
    <2>1. /\ phase = "scan" /\ batch' = Append(batch, next) /\ next' = next + 1 /\ next \in Sparse
          /\ UNCHANGED <<disk, index, phase>>
      BY <1>3 DEF BatchTensor
    <2>2. ToSet(batch') = ToSet(batch) \cup {next}
      <3>1. /\ DOMAIN batch = 1 .. Len(batch) /\ DOMAIN batch' = 1 .. Len(batch) + 1
            /\ Len(batch) \in Nat /\ batch'[Len(batch) + 1] = next
            /\ \A i \in 1 .. Len(batch) : batch'[i] = batch[i]
        BY <1>i, <2>1
      <3>2. 1 .. Len(batch) + 1 = (1 .. Len(batch)) \cup {Len(batch) + 1}
        BY <3>1
      <3> QED BY <3>1, <3>2 DEF ToSet
    <2>3. 0 .. next' - 1 \subseteq (0 .. next - 1) \cup {next}
      BY <1>i, <2>1
    <2> QED BY <1>c, <2>1, <2>2, <2>3 DEF InStep, disk, Proper
  <1>4. CASE StoreBatch \/ StoreDense
    <2>1. PICK ts \in Seq(Tensors) :
            /\ ToSet(ts) \cap DOMAIN index = {}
            /\ todo' = Appends(ts) /\ index' = With(index, [t \in ToSet(ts) |-> NewMeta(t)])
            /\ 0 .. next' - 1 \subseteq (0 .. next - 1) \cup ToSet(ts)
            /\ ToSet(batch) \subseteq ToSet(ts) /\ batch' = <<>>
      BY <1>4, StoreMakesEntries
    <2>2. /\ DOMAIN index' = DOMAIN index \cup ToSet(ts)
          /\ \A t \in DOMAIN index : index'[t] = index[t]
          /\ \A t \in ToSet(ts) : Proper(index', t)
      BY <2>1, EntriesMade
    <2>3. phase = "scan" /\ phase' = "append" /\ UNCHANGED disk
      BY <1>4 DEF StoreBatch, StoreDense
    <2>4. \A t \in DOMAIN index' : Proper(index', t)
      BY <2>2 DEF InStep, Proper
    <2>5. 0 .. next' - 1 \subseteq DOMAIN index'
      BY <2>1, <2>2 DEF InStep
    <2> QED BY <1>c, <2>3, <2>4, <2>5 DEF InStep, disk, Proper
  <1>5. CASE SkipDense
    <2>1. /\ phase = "scan" /\ next \in DOMAIN index /\ next' = next + 1
          /\ UNCHANGED <<disk, index, phase, batch>>
      BY <1>5 DEF SkipDense
    <2>2. 0 .. next' - 1 \subseteq (0 .. next - 1) \cup {next}
      BY <1>i, <2>1
    <2> QED BY <1>c, <2>1, <2>2 DEF InStep, disk, Proper
  <1>6. CASE Compress
    <2>1. UNCHANGED <<disk, index, phase, next, batch>>
      BY <1>6 DEF Compress
    <2> QED BY <2>1 DEF InStep, disk, Proper
  <1>7. CASE WritePart
    <2>0. PICK t, p : t = Head(todo)[1] /\ p = Head(todo)[2]
      OBVIOUS
    <2>1. /\ DOMAIN index' = DOMAIN index
          /\ \A u \in DOMAIN index \ {t} : index'[u] = index[u]
          /\ index'[t][p] = Len(file) /\ Len(file) \in Nat
          /\ \A q \in Parts(t) \ {p} : index'[t][q] = index[t][q]
      BY <1>7, <2>0, PartWritten
    <2>2. \A u \in DOMAIN index' : Proper(index', u)
      BY <2>1 DEF InStep, Proper
    <2>3. phase = "append" /\ UNCHANGED <<indexFile, mapFile, phase, next, batch>>
      BY <1>7 DEF WritePart
    <2> QED BY <1>c, <2>1, <2>2, <2>3 DEF InStep, Proper
  <1>8. CASE SerializeBegin
    <2>1. /\ phase = "append" /\ phase' = "serialize"
          /\ indexFile'.state = "torn" /\ indexFile'.entries = NoIndex /\ indexFile'.cut = {}
          /\ UNCHANGED <<mapFile, index, next, batch>>
      BY <1>8 DEF SerializeBegin
    <2> QED BY <1>n, <2>1 DEF InStep, Proper
  <1>9. CASE SerializeEnd
    <2>1. /\ phase = "serialize" /\ phase' = "scan"
          /\ indexFile'.state = "whole" /\ indexFile'.entries = index /\ indexFile'.cut = {}
          /\ UNCHANGED <<mapFile, index, next, batch>>
      BY <1>9 DEF SerializeEnd
    <2> QED BY <2>1 DEF InStep, Proper
  <1>10. CASE MapBegin
    <2>1. /\ phase = "scan" /\ phase' = "map" /\ next = N /\ batch = <<>> /\ mapFile' = "torn"
          /\ UNCHANGED <<indexFile, index, next, batch>>
      BY <1>10 DEF MapBegin
    <2>2. index = indexFile.entries /\ DOMAIN index = Tensors
      BY <1>i, <1>n, <2>1 DEF InStep, IsIndexOf, Tensors
    <2>3. indexFile.state = "whole"
      <3>1. 0 \in Tensors
        BY OffloadAssumption DEF Tensors
      <3>2. indexFile.state # "absent"
        BY <1>n, <2>2, <3>1 DEF InStep
      <3> QED BY <1>0, <1>c, <2>1, <3>2, TypesUnfold
    <2> QED BY <1>c, <2>1, <2>2, <2>3 DEF InStep, Proper
  <1>11. CASE MapEnd
    <2>1. phase = "map" /\ phase' = "serve" /\ mapFile' = "whole"
          /\ UNCHANGED <<indexFile, index, next, batch>>
      BY <1>11 DEF MapEnd
    <2> QED BY <1>c, <2>1 DEF InStep, Proper
  <1> QED
    BY <1>1, <1>2, <1>3, <1>4, <1>5, <1>6, <1>7, <1>8, <1>9, <1>10, <1>11 DEF Next, Run

LEMMA StepUndisturbed == OffloadInv /\ Next => Undisturbed'
  <1> SUFFICES ASSUME OffloadInv, Next, "serialize" \notin ToSet(crashes') PROVE InStep'
    BY DEF Undisturbed
  <1>1. CASE Crash
    <2>1. crashes' = Append(crashes, phase) /\ crashes \in Seq(Phases)
      BY <1>1, TypesUnfold DEF Crash, OffloadInv
    <2>2. /\ DOMAIN crashes = 1 .. Len(crashes) /\ DOMAIN crashes' = 1 .. Len(crashes) + 1
          /\ Len(crashes) \in Nat /\ crashes'[Len(crashes) + 1] = phase
          /\ \A i \in 1 .. Len(crashes) : crashes'[i] = crashes[i]
      BY <2>1
    <2>3. "serialize" \notin ToSet(crashes) /\ phase # "serialize"
      <3>1. \A i \in 1 .. Len(crashes) : i \in 1 .. Len(crashes) + 1
        BY <2>2
      <3>2. Len(crashes) + 1 \in 1 .. Len(crashes) + 1
        BY <2>2
      <3> QED BY <2>2, <3>1, <3>2 DEF ToSet
    <2> QED BY <2>3, StepInStep DEF OffloadInv, Undisturbed
  <1>2. CASE ~Crash
    <2>1. crashes' = crashes
      BY <1>2 DEF Next, Run, StartLoading, StartScratch, StartFails, BatchTensor, StoreBatch,
                  StoreBatchTwice, SkipDense, StoreDense, Compress, WritePart, SerializeBegin,
                  SerializeEnd, MapBegin, MapEnd
    <2> QED BY <1>2, <2>1, StepInStep DEF OffloadInv, Undisturbed
  <1> QED BY <1>1, <1>2

LEMMA StepOffloadInv == OffloadInv /\ [Next]_vars => OffloadInv'
  <1>1. CASE Next
    BY <1>1, StepTypes, StepQuiet, StepTodoEntered, StepStoredOrTodo, StepIndexed, StepUndisturbed
       DEF OffloadInv
  <1>2. CASE UNCHANGED vars
    <2> USE <1>2 DEF vars
    <2>1. TypeOK => TypeOK'
      BY DEF TypeOK
    <2>2. Quiet => Quiet'
      BY DEF Quiet
    <2>3. TodoEntered => TodoEntered'
      BY DEF TodoEntered, Proper
    <2>4. StoredOrTodo => StoredOrTodo'
      BY DEF StoredOrTodo, At
    <2>5. IndexedIsStored => IndexedIsStored'
      BY DEF IndexedIsStored, Readable, At
    <2>6. Undisturbed => Undisturbed'
      BY DEF Undisturbed, InStep, Proper
    <2> QED BY <2>1, <2>2, <2>3, <2>4, <2>5, <2>6 DEF OffloadInv
  <1> QED BY <1>1, <1>2

LEMMA OffloadInvHolds == Spec => []OffloadInv
  BY InitOffloadInv, StepOffloadInv, PTL DEF Spec

-----------------------------------------------------------------------------
(* What they show.                                                         *)

\* Types, for the offloading of any checkpoint (src/csrc/base/): the entries
\* of the index have an offset for each part of their tensor, on the disk and in
\* memory.
THEOREM OffloadTypes == Spec => []TypeOK
  <1>1. OffloadInv => TypeOK
    BY DEF OffloadInv
  <1> QED BY <1>1, OffloadInvHolds, PTL

\* However often the process ends and wherever, each part of a tensor that a start
\* can read of the index file is in the offload file at the offset it says, unless
\* it lay behind the place where an entry was cut off.
THEOREM IndexTellsTheTruth == Spec => []IndexedIsStored
  <1>1. OffloadInv => IndexedIsStored
    BY DEF OffloadInv
  <1> QED BY <1>1, OffloadInvHolds, PTL

\* A model that is served has every part of every tensor where its index says,
\* after any number of crashes outside of Serialize.
THEOREM ServedIsComplete == Spec => []LoadedIsComplete
  <1>1. OffloadInv => LoadedIsComplete
    <2> SUFFICES ASSUME OffloadInv, phase = "serve", "serialize" \notin ToSet(crashes),
                        NEW t \in Tensors
                 PROVE  t \in DOMAIN index /\ Stored(index, t)
      BY DEF LoadedIsComplete
    <2>1. index = indexFile.entries /\ DOMAIN index = Tensors /\ Proper(index, t)
      BY DEF OffloadInv, Undisturbed, InStep
    <2>2. todo = <<>> /\ ToSet(<<>>) = {}
      BY DEF OffloadInv, Quiet, ToSet
    <2>3. \A p \in Parts(t) : index[t][p] # Junk
      BY <2>1 DEF Proper, Junk
    <2> QED BY <2>1, <2>2, <2>3 DEF OffloadInv, StoredOrTodo, Stored
  <1> QED BY <1>1, OffloadInvHolds, PTL
=============================================================================
