--------------------------- MODULE StartUpProofs ---------------------------
(***************************************************************************)
(* The start of the engine, for every model and size of memory: how the    *)
(* parameters are grouped into nodes and the dense ones laid out in their  *)
(* pool, how the hooks of the modules hold the nodes and exchange the      *)
(* pointers, what the planned pools have room for, and what the            *)
(* probabilities are by which the plan is chosen.                          *)
(***************************************************************************)
EXTENDS StartUp, SequenceTheorems, FiniteSetTheorems, TLAPS

-----------------------------------------------------------------------------
(* Induction, and what loops compute.                                      *)

Below == {p \in Nat \X Nat : p[1] < p[2]}

\* Induction over the naturals, for the set of those with a property.
LEMMA NatBySteps == ASSUME NEW S \in SUBSET Nat, 0 \in S, \A n \in S : n + 1 \in S PROVE S = Nat
  <1> DEFINE T == Nat \ S
  <1> SUFFICES ASSUME T # {} PROVE FALSE
    OBVIOUS
  <1>1. IsWellFoundedOn(Below, Nat)
    BY NatLessThanWellFounded DEF OpToRel, Below
  <1>2. T \subseteq Nat
    OBVIOUS
  <1> HIDE DEF T
  <1>3. PICK x \in T : \A y \in T : ~(<<y, x>> \in Below)
    BY <1>1, <1>2, WFMin
  <1> USE DEF T
  <1>4. x \in Nat /\ x # 0 /\ x - 1 \in Nat /\ <<x - 1, x>> \in Below
    BY DEF Below
  <1>5. x - 1 \in S
    BY <1>3, <1>4
  <1> QED BY <1>4, <1>5

\* The same for the naturals up to a bound.
LEMMA UpToBySteps ==
  ASSUME NEW N \in Nat, NEW S, 0 \in S, \A i \in 0 .. N - 1 : i \in S => i + 1 \in S
  PROVE  \A i \in 0 .. N : i \in S
  <1> DEFINE E == {i \in Nat : i <= N => i \in S}
  <1>1. 0 \in E
    OBVIOUS
  <1>2. ASSUME NEW i \in E PROVE i + 1 \in E
    <2>1. i \in Nat /\ i + 1 \in Nat /\ (i <= N => i \in S)
      OBVIOUS
    <2>2. i + 1 <= N => i \in 0 .. N - 1 /\ i <= N
      BY <2>1
    <2> QED BY <2>1, <2>2
  <1>3. E \subseteq Nat
    OBVIOUS
  <1> HIDE DEF E
  <1>4. E = Nat
    BY <1>1, <1>2, <1>3, NatBySteps
  <1> QED BY <1>4 DEF E

\* The turns of a loop whose value stays in D, and its values, from b on.
Turns(N, D) == [D \X (1 .. N) -> D]
Values(g, N, D, b, F) ==
  g \in [0 .. N -> D] /\ g[0] = b /\ \A i \in 1 .. N : g[i] = F[<<g[i - 1], i>>]

\* Such a loop has a value after each turn.
LEMMA Iterates ==
  ASSUME NEW N \in Nat, NEW D, NEW b \in D, NEW F \in Turns(N, D)
  PROVE  \E g : Values(g, N, D, b, F)
  <1> USE DEF Turns
  <1> DEFINE Good(g, m) == g[0] = b /\ \A i \in 1 .. m : g[i] = F[<<g[i - 1], i>>]
             S == {m \in 0 .. N : \E g \in [0 .. m -> D] : Good(g, m)}
  <1>1. 0 \in S
    <2> DEFINE h == [i \in 0 .. 0 |-> b]
    <2>1. h \in [0 .. 0 -> D] /\ Good(h, 0)
      OBVIOUS
    <2>2. 0 \in 0 .. N
      OBVIOUS
    <2> HIDE DEF h
    <2> QED BY <2>1, <2>2
  <1>2. ASSUME NEW m \in 0 .. N - 1, m \in S PROVE m + 1 \in S
    <2>1. PICK g \in [0 .. m -> D] : Good(g, m)
      BY <1>2
    <2> DEFINE h == [i \in 0 .. m + 1 |-> IF i <= m THEN g[i] ELSE F[<<g[m], m + 1>>]]
    <2>2. m \in Nat /\ m + 1 \in 1 .. N /\ g[m] \in D
      OBVIOUS
    <2>3. h \in [0 .. m + 1 -> D]
      BY <2>2
    <2>4. h[0] = b
      BY <2>1, <2>2
    <2>5. ASSUME NEW i \in 1 .. m + 1 PROVE h[i] = F[<<h[i - 1], i>>]
      <3>1. i - 1 \in 0 .. m /\ h[i - 1] = g[i - 1]
        BY <2>2
      <3>2. CASE i <= m
        <4>1. i \in 1 .. m /\ h[i] = g[i]
          BY <2>2, <3>2
        <4> QED BY <2>1, <3>1, <4>1
      <3>3. CASE i = m + 1
        <4>1. h[i] = F[<<g[m], m + 1>>] /\ i - 1 = m
          BY <2>2, <3>3
        <4> QED BY <3>1, <3>3, <4>1
      <3> QED BY <2>2, <3>2, <3>3
    <2>6. m + 1 \in 0 .. N
      BY <2>2
    <2> HIDE DEF h
    <2> QED BY <2>3, <2>4, <2>5, <2>6
  <1> HIDE DEF S
  <1>3. N \in S
    BY <1>1, <1>2, UpToBySteps
  <1>4. \E g \in [0 .. N -> D] : Good(g, N)
    BY <1>3 DEF S
  <1> QED BY <1>4 DEF Values

\* Running sums add up what they run over.
LEMMA SumsAddUp ==
  ASSUME NEW w \in Seq(Nat)
  PROVE  /\ Sums(w) \in [0 .. Len(w) -> Nat]
         /\ Sums(w)[0] = 0
         /\ \A i \in 1 .. Len(w) : Sums(w)[i] = Sums(w)[i - 1] + w[i]
  <1> DEFINE P(g) == g = [i \in 0 .. Len(w) |-> IF i = 0 THEN 0 ELSE g[i - 1] + w[i]]
             F == [x \in Nat \X (1 .. Len(w)) |-> x[1] + w[x[2]]]
  <1>1. Sums(w) = CHOOSE g : P(g)
    BY DEF Sums
  <1>2. Len(w) \in Nat /\ \A i \in 1 .. Len(w) : w[i] \in Nat
    OBVIOUS
  <1>3. F \in [Nat \X (1 .. Len(w)) -> Nat]
    BY <1>2
  <1>4. \A x \in Nat, i \in 1 .. Len(w) : F[<<x, i>>] = x + w[i]
    OBVIOUS
  <1> HIDE DEF F
  <1>5. PICK g : Values(g, Len(w), Nat, 0, F)
    <2>1. 0 \in Nat /\ F \in Turns(Len(w), Nat)
      BY <1>3 DEF Turns
    <2> QED BY <1>2, <2>1, Iterates
  <1>6. P(g)
    <2>1. \A i \in 1 .. Len(w) : g[i - 1] \in Nat /\ g[i] = g[i - 1] + w[i]
      <3> TAKE i \in 1 .. Len(w)
      <3>1. i - 1 \in 0 .. Len(w)
        BY <1>2
      <3> QED BY <1>4, <1>5, <3>1 DEF Values
    <2>2. \A i \in 0 .. Len(w) : g[i] = IF i = 0 THEN 0 ELSE g[i - 1] + w[i]
      BY <1>2, <1>5, <2>1 DEF Values
    <2> QED BY <1>5, <2>2 DEF Values
  <1>7. P(Sums(w))
    BY <1>1, <1>6
  <1>8. \A i \in 0 .. Len(w) : Sums(w)[i] = IF i = 0 THEN 0 ELSE Sums(w)[i - 1] + w[i]
    BY <1>7
  <1>9. Sums(w)[0] = 0 /\ \A i \in 1 .. Len(w) : Sums(w)[i] = Sums(w)[i - 1] + w[i]
    BY <1>2, <1>8
  <1>10. \A i \in 0 .. Len(w) : Sums(w)[i] \in Nat
    <2> DEFINE S == {i \in 0 .. Len(w) : Sums(w)[i] \in Nat}
    <2>1. 0 \in S
      BY <1>2, <1>9
    <2>2. ASSUME NEW i \in 0 .. Len(w) - 1, i \in S PROVE i + 1 \in S
      <3>1. i + 1 \in 1 .. Len(w) /\ (i + 1) - 1 = i
        BY <1>2
      <3>2. Sums(w)[i + 1] = Sums(w)[i] + w[i + 1]
        BY <1>9, <3>1
      <3>3. Sums(w)[i] \in Nat /\ w[i + 1] \in Nat
        BY <1>2, <2>2, <3>1
      <3> QED BY <3>1, <3>2, <3>3
    <2> HIDE DEF S
    <2>3. \A i \in 0 .. Len(w) : i \in S
      BY <1>2, <2>1, <2>2, UpToBySteps
    <2> QED BY <2>3 DEF S
  <1> QED BY <1>7, <1>9, <1>10

\* Where the sequences begin that are joined to one: seqs[i] behind Begin(seqs)[i - 1].
Widths(seqs) == [i \in DOMAIN seqs |-> Len(seqs[i])]
Begin(seqs) == Sums(Widths(seqs))

\* r is the first m of these sequences, one behind the other.
Joined(r, seqs, m) ==
  /\ Len(r) = Begin(seqs)[m]
  /\ \A i \in 1 .. m : \A j \in 1 .. Len(seqs[i]) :
       Begin(seqs)[i - 1] + j \in 1 .. Len(r) /\ r[Begin(seqs)[i - 1] + j] = seqs[i][j]
  /\ \A k \in 1 .. Len(r) : \E i \in 1 .. m : \E j \in 1 .. Len(seqs[i]) :
       k = Begin(seqs)[i - 1] + j

LEMMA BeginAddsUp ==
  ASSUME NEW T, NEW seqs \in Seq(Seq(T))
  PROVE  /\ Begin(seqs) \in [0 .. Len(seqs) -> Nat] /\ Begin(seqs)[0] = 0
         /\ \A i \in 1 .. Len(seqs) : Begin(seqs)[i] = Begin(seqs)[i - 1] + Len(seqs[i])
  <1>1. Len(seqs) \in Nat /\ DOMAIN seqs = 1 .. Len(seqs)
        /\ \A i \in 1 .. Len(seqs) : Len(seqs[i]) \in Nat
    OBVIOUS
  <1>2. Widths(seqs) \in [1 .. Len(seqs) -> Nat]
    BY <1>1 DEF Widths
  <1>3. Widths(seqs) \in Seq(Nat) /\ Len(Widths(seqs)) = Len(seqs)
    <2>1. ASSUME NEW n \in Nat, NEW w \in [1 .. n -> Nat] PROVE w \in Seq(Nat) /\ Len(w) = n
      BY SeqDef
    <2> QED BY <1>1, <1>2, <2>1
  <1>4. \A i \in 1 .. Len(seqs) : Widths(seqs)[i] = Len(seqs[i])
    BY <1>1 DEF Widths
  <1> QED BY <1>3, <1>4, SumsAddUp DEF Begin

\* One more sequence behind those that are joined already.
LEMMA JoinOneMore ==
  ASSUME NEW T, NEW seqs \in Seq(Seq(T)), NEW m \in 0 .. Len(seqs) - 1,
         NEW r \in Seq(T), Joined(r, seqs, m)
  PROVE  r \o seqs[m + 1] \in Seq(T) /\ Joined(r \o seqs[m + 1], seqs, m + 1)
  <1> DEFINE q == r \o seqs[m + 1]
             B == Begin(seqs)
  <1>1. m \in Nat /\ m + 1 \in 1 .. Len(seqs) /\ Len(seqs) \in Nat /\ (m + 1) - 1 = m
    OBVIOUS
  <1>2. seqs[m + 1] \in Seq(T) /\ \A i \in 1 .. Len(seqs) : Len(seqs[i]) \in Nat
    BY <1>1
  <1>3. B[m + 1] = B[m] + Len(seqs[m + 1]) /\ \A i \in 0 .. Len(seqs) : B[i] \in Nat
    BY <1>1, BeginAddsUp
  <1>4. /\ Len(r) = B[m]
        /\ \A i \in 1 .. m : \A j \in 1 .. Len(seqs[i]) :
             B[i - 1] + j \in 1 .. Len(r) /\ r[B[i - 1] + j] = seqs[i][j]
        /\ \A k \in 1 .. Len(r) : \E i \in 1 .. m : \E j \in 1 .. Len(seqs[i]) : k = B[i - 1] + j
    BY DEF Joined
  <1> HIDE DEF B
  <1>a. PICK e \in Nat, w \in Nat : e = Len(r) /\ w = Len(seqs[m + 1])
    BY <1>1, <1>2
  <1>5. /\ q \in Seq(T) /\ Len(q) = Len(r) + Len(seqs[m + 1])
        /\ \A k \in 1 .. Len(q) : q[k] = IF k <= Len(r) THEN r[k] ELSE seqs[m + 1][k - Len(r)]
    BY <1>2
  <1> HIDE DEF q
  <1>b. Len(q) = e + w
    BY <1>5, <1>a
  <1>c. \A k \in 1 .. e : k \in 1 .. Len(q) /\ q[k] = r[k]
    <2> TAKE k \in 1 .. e
    <2>1. k \in 1 .. e + w /\ k <= e
      BY <1>a
    <2> QED BY <1>5, <1>a, <1>b, <2>1
  <1>d. \A j \in 1 .. w : e + j \in 1 .. Len(q) /\ q[e + j] = seqs[m + 1][j]
    <2> TAKE j \in 1 .. w
    <2>1. PICK k \in 1 .. e + w : k = e + j /\ ~(k <= e) /\ k - e = j
      OBVIOUS
    <2> QED BY <1>5, <1>a, <1>b, <2>1
  <1>7. Len(q) = B[m + 1]
    BY <1>3, <1>4, <1>5
  <1>8. ASSUME NEW i \in 1 .. m + 1, NEW j \in 1 .. Len(seqs[i])
        PROVE  B[i - 1] + j \in 1 .. Len(q) /\ q[B[i - 1] + j] = seqs[i][j]
    <2>1. CASE i <= m
      <3>1. i \in 1 .. m
        BY <1>1, <2>1
      <3>2. B[i - 1] + j \in 1 .. Len(r) /\ r[B[i - 1] + j] = seqs[i][j]
        BY <1>4, <3>1
      <3> QED BY <1>a, <1>c, <3>2
    <2>2. CASE i = m + 1
      <3>1. B[i - 1] = Len(r) /\ j \in 1 .. Len(seqs[m + 1])
        BY <1>1, <1>4, <2>2
      <3> HIDE <2>2
      <3>2. Len(r) + j \in 1 .. Len(q) /\ q[Len(r) + j] = seqs[m + 1][j]
        BY <1>a, <1>d, <3>1
      <3> QED BY <2>2, <3>1, <3>2
    <2> QED BY <1>1, <2>1, <2>2
  <1>9. ASSUME NEW k \in 1 .. Len(q)
        PROVE  \E i \in 1 .. m + 1 : \E j \in 1 .. Len(seqs[i]) : k = B[i - 1] + j
    <2>1. CASE k <= Len(r)
      <3>1. k \in 1 .. Len(r)
        BY <1>a, <2>1
      <3>2. PICK i \in 1 .. m : \E j \in 1 .. Len(seqs[i]) : k = B[i - 1] + j
        BY <1>4, <3>1
      <3>3. i \in 1 .. m + 1
        BY <1>1
      <3> QED BY <3>2, <3>3
    <2>2. CASE k > Len(r)
      <3>0. k \in 1 .. e + w /\ k > e
        BY <1>a, <1>b, <2>2
      <3>1. k - e \in 1 .. w /\ k = e + (k - e) /\ e = B[m]
        <4>1. k - e \in 1 .. w /\ k = e + (k - e)
          BY <3>0
        <4> QED BY <1>4, <1>a, <4>1
      <3>2. m + 1 \in 1 .. m + 1
        BY <1>1
      <3> QED BY <1>1, <1>a, <3>1, <3>2
    <2> QED BY <1>a, <1>b, <2>1, <2>2
  <1>10. Joined(q, seqs, m + 1)
    BY <1>7, <1>8, <1>9 DEF Joined, B
  <1> QED BY <1>5, <1>10 DEF q

\* FlattenSeq joins the sequences, and loses and adds nothing.
LEMMA FlattenJoins ==
  ASSUME NEW T, NEW seqs \in Seq(Seq(T))
  PROVE  FlattenSeq(seqs) \in Seq(T) /\ Joined(FlattenSeq(seqs), seqs, Len(seqs))
  <1>1. Len(seqs) \in Nat /\ \A i \in 1 .. Len(seqs) : seqs[i] \in Seq(T)
    OBVIOUS
  <1>2. CASE Len(seqs) = 0
    <2>1. FlattenSeq(seqs) = seqs /\ seqs = <<>>
      BY <1>2 DEF FlattenSeq
    <2>2. Begin(seqs)[0] = 0
      BY BeginAddsUp
    <2>3. Joined(<<>>, seqs, 0)
      BY <2>2 DEF Joined
    <2> QED BY <1>2, <2>1, <2>3
  <1>3. CASE Len(seqs) # 0
    <2> DEFINE P(g) == g = [i \in 1 .. Len(seqs) |->
                              IF i = 1 THEN seqs[i] ELSE g[i - 1] \o seqs[i]]
               N == Len(seqs) - 1
               D == Seq(T)
               F == [x \in D \X (1 .. N) |-> x[1] \o seqs[x[2] + 1]]
               fl == CHOOSE g : P(g)
    <2>1. FlattenSeq(seqs) = fl[Len(seqs)]
      BY <1>3 DEF FlattenSeq
    <2>2. N \in Nat /\ seqs[1] \in D /\ Len(seqs) = N + 1
      BY <1>1, <1>3
    <2>3. \A x \in D, i \in 1 .. N : F[<<x, i>>] = x \o seqs[i + 1] /\ x \o seqs[i + 1] \in D
      <3> TAKE x \in D, i \in 1 .. N
      <3>1. i + 1 \in 1 .. Len(seqs)
        BY <2>2
      <3>2. seqs[i + 1] \in Seq(T)
        BY <1>1, <3>1
      <3>3. F[<<x, i>>] = x \o seqs[i + 1]
        OBVIOUS
      <3>4. x \o seqs[i + 1] \in Seq(T)
        BY <3>2
      <3> QED BY <3>3, <3>4
    <2>4. F \in Turns(N, D)
      BY <2>3 DEF Turns
    <2> HIDE DEF F, D, N
    <2>5. PICK g : Values(g, N, D, seqs[1], F)
      BY <2>2, <2>4, Iterates
    <2> DEFINE h == [i \in 1 .. Len(seqs) |-> g[i - 1]]
    <2>6. P(h)
      <3>1. ASSUME NEW i \in 1 .. Len(seqs)
            PROVE  h[i] = IF i = 1 THEN seqs[i] ELSE h[i - 1] \o seqs[i]
        <4>1. CASE i = 1
          BY <2>5, <4>1 DEF Values
        <4>2. CASE i # 1
          <5>1. i - 1 \in 1 .. N /\ (i - 1) - 1 \in 0 .. N /\ (i - 1) + 1 = i
                /\ i - 1 \in 1 .. Len(seqs)
            BY <2>2, <4>2
          <5>2. g[i - 1] = F[<<g[(i - 1) - 1], i - 1>>] /\ g[(i - 1) - 1] \in D
            BY <2>5, <5>1 DEF Values
          <5>3. g[i - 1] = g[(i - 1) - 1] \o seqs[i]
            BY Zenon, <2>3, <5>1, <5>2
          <5> QED BY <4>2, <5>1, <5>3
        <4> QED BY <4>1, <4>2
      <3> HIDE DEF h
      <3>2. h = [i \in 1 .. Len(seqs) |-> h[i]]
        BY DEF h
      <3> QED BY <3>1, <3>2
    <2> HIDE DEF h
    <2>7. P(fl)
      BY Zenon, <2>6
    <2> HIDE DEF fl
    <2>8. /\ fl[1] = seqs[1]
          /\ \A i \in 1 .. N : fl[i + 1] = fl[i] \o seqs[i + 1]
      <3>1. \A i \in 1 .. Len(seqs) : fl[i] = IF i = 1 THEN seqs[i] ELSE fl[i - 1] \o seqs[i]
        BY <2>7
      <3>2. 1 \in 1 .. Len(seqs)
        BY <2>2
      <3>3. \A i \in 1 .. N : i + 1 \in 1 .. Len(seqs) /\ i + 1 # 1 /\ (i + 1) - 1 = i
        BY <2>2
      <3>4. ASSUME NEW i \in 1 .. N PROVE fl[i + 1] = fl[i] \o seqs[i + 1]
        BY <3>1, <3>3
      <3> QED BY <3>1, <3>2, <3>4
    <2> DEFINE S == {i \in 0 .. N : fl[i + 1] \in Seq(T) /\ Joined(fl[i + 1], seqs, i + 1)}
    <2>9. 0 \in S
      <3>1. Joined(<<>>, seqs, 0)
        BY BeginAddsUp DEF Joined
      <3>2. 0 \in 0 .. Len(seqs) - 1 /\ <<>> \in Seq(T) /\ 0 + 1 = 1
        BY <2>2
      <3>3. <<>> \o seqs[1] = seqs[1]
        BY <2>2 DEF D
      <3>4. <<>> \o seqs[0 + 1] \in Seq(T) /\ Joined(<<>> \o seqs[0 + 1], seqs, 0 + 1)
        BY <3>1, <3>2, JoinOneMore
      <3> QED BY <2>2, <2>8, <3>2, <3>3, <3>4
    <2>10. ASSUME NEW i \in 0 .. N - 1, i \in S PROVE i + 1 \in S
      <3>1. i + 1 \in 0 .. Len(seqs) - 1 /\ i + 1 \in 1 .. N /\ i + 1 \in 0 .. N
        BY <2>2
      <3>2. fl[i + 1] \in Seq(T) /\ Joined(fl[i + 1], seqs, i + 1)
        BY <2>10
      <3>3. /\ fl[i + 1] \o seqs[(i + 1) + 1] \in Seq(T)
            /\ Joined(fl[i + 1] \o seqs[(i + 1) + 1], seqs, (i + 1) + 1)
        BY <3>1, <3>2, JoinOneMore
      <3> QED BY <2>8, <3>1, <3>3
    <2> HIDE DEF S
    <2>11. N \in S
      <3>1. \A i \in 0 .. N : i \in S
        BY <2>2, <2>9, <2>10, UpToBySteps
      <3> QED BY <2>2, <3>1
    <2>12. fl[N + 1] \in Seq(T) /\ Joined(fl[N + 1], seqs, N + 1)
      BY <2>11 DEF S
    <2> QED BY <2>1, <2>2, <2>12
  <1> QED BY <1>2, <1>3

-----------------------------------------------------------------------------
(* The groups.                                                             *)

\* The first of these, which SelectInSeq looks for.
LEMMA FirstOf ==
  ASSUME NEW I \in SUBSET Nat, I # {}
  PROVE  Min(I) \in I /\ \A j \in I : Min(I) <= j
  <1>1. IsWellFoundedOn(Below, Nat)
    BY NatLessThanWellFounded DEF OpToRel, Below
  <1>2. PICK i \in I : \A j \in I : ~(<<j, i>> \in Below)
    BY <1>1, WFMin
  <1>3. ASSUME NEW j \in I PROVE i <= j
    <2>1. i \in Nat /\ j \in Nat /\ <<j, i>> \in Nat \X Nat
      OBVIOUS
    <2>2. ~(j < i)
      BY <1>2, <2>1 DEF Below
    <2> QED BY <2>1, <2>2
  <1> QED BY <1>3 DEF Min

\* What is known of the parameters.
LEMMA ParamsKnown ==
  ASSUME params \in Models
  PROVE  /\ Len(params) \in Nat /\ DOMAIN params = 1 .. Len(params)
         /\ \A i \in 1 .. Len(params) : params[i].size \in Nat \ {0} /\ params[i].module # None
         /\ \A i, j \in 1 .. Len(params) : params[i].id = params[j].id => i = j
         /\ None \notin Nat
  <1>1. params \in Seq(Range(params))
    BY TopologyAssumption
  <1>2. Len(params) \in Nat /\ DOMAIN params = 1 .. Len(params)
    BY <1>1
  <1>3. \A i \in DOMAIN params : params[i].size \in Nat \ {0} /\ params[i].module # None
    BY TopologyAssumption
  <1>4. \A i, j \in DOMAIN params : params[i].id = params[j].id => i = j
    BY TopologyAssumption
  <1>5. None \notin Nat
    BY TopologyAssumption
  <1> QED BY <1>2, <1>3, <1>4, <1>5

LEMMA NamesKnown ==
  ASSUME params \in Models
  PROVE  /\ \A i \in 1 .. Len(params) : params[i].expert # None =>
              /\ params[i].prefix # None
              /\ \E j \in 1 .. Len(params) :
                   params[j].prefix = params[i].prefix
                   /\ params[j].expert \notin {None, params[i].expert}
         /\ \A i, j \in 1 .. Len(params) :
              (/\ params[i].expert = None /\ params[j].expert = None
               /\ params[i].module = params[j].module) => params[i].prefix = params[j].prefix
         /\ 1 <= Len(params) => params[1].expert = None
  <1>1. Len(params) \in Nat /\ DOMAIN params = 1 .. Len(params)
    BY ParamsKnown
  <1>2. 1 <= Len(params) => params # <<>>
    OBVIOUS
  <1>3. \A i \in DOMAIN params : params[i].expert # None =>
              /\ params[i].prefix # None
              /\ \E j \in DOMAIN params :
                   params[j].prefix = params[i].prefix
                   /\ params[j].expert \notin {None, params[i].expert}
    BY NamesAssumption
  <1>4. \A i, j \in DOMAIN params :
              (/\ params[i].expert = None /\ params[j].expert = None
               /\ params[i].module = params[j].module) => params[i].prefix = params[j].prefix
    BY NamesAssumption
  <1>5. params # <<>> => params[1].expert = None
    BY NamesAssumption
  <1> QED BY <1>1, <1>2, <1>3, <1>4, <1>5

\* What get_topology makes of them.
ParamIds == {params[i].id : i \in 1 .. Len(params)}
Lists  == [expert : {params[i].expert : i \in 1 .. Len(params)}, tensors : Seq(ParamIds)]
Groups == [key : {KeyOf(params[i]) : i \in 1 .. Len(params)}, lists : Seq(Lists)]

NewList(p)  == [expert |-> p.expert, tensors |-> <<p.id>>]
NewGroup(p) == [key |-> KeyOf(p), lists |-> <<NewList(p)>>]

\* The three things a parameter can be: of a new group, of a new list, or of a list
\* there is already.
LEMMA AddParamCases ==
  ASSUME NEW topo \in Seq(Groups), NEW p
  PROVE  \/ /\ \A g \in 1 .. Len(topo) : topo[g].key # KeyOf(p)
            /\ AddParam(topo, p) = Append(topo, NewGroup(p))
         \/ \E g \in 1 .. Len(topo) :
              /\ topo[g].key = KeyOf(p)
              /\ \A l \in 1 .. Len(topo[g].lists) : topo[g].lists[l].expert # p.expert
              /\ AddParam(topo, p) = [topo EXCEPT ![g].lists = Append(@, NewList(p))]
         \/ \E g \in 1 .. Len(topo) : \E l \in 1 .. Len(topo[g].lists) :
              /\ topo[g].key = KeyOf(p)
              /\ topo[g].lists[l].expert = p.expert
              /\ AddParam(topo, p) = [topo EXCEPT ![g].lists[l].tensors = Append(@, p.id)]
  <1> DEFINE I == {i \in 1 .. Len(topo) : topo[i].key = KeyOf(p)}
             g == IF I # {} THEN Min(I) ELSE 0
             L == {i \in 1 .. Len(topo[g].lists) : topo[g].lists[i].expert = p.expert}
             l == IF g = 0 THEN 0 ELSE IF L # {} THEN Min(L) ELSE 0
  <1>1. AddParam(topo, p) =
          IF g = 0 THEN Append(topo, NewGroup(p))
          ELSE IF l = 0 THEN [topo EXCEPT ![g].lists = Append(@, NewList(p))]
          ELSE [topo EXCEPT ![g].lists[l].tensors = Append(@, p.id)]
    BY DEF AddParam, SelectInSeq, NewGroup, NewList
  <1>2. I \in SUBSET Nat /\ L \in SUBSET Nat
    OBVIOUS
  <1>3. CASE I = {}
    BY Zenon, <1>1, <1>3
  <1>4. CASE I # {}
    <2>0. Min(I) \in I
      <3> HIDE DEF I
      <3> QED BY <1>2, <1>4, FirstOf
    <2>1. g \in I /\ g # 0
      BY <1>4, <2>0
    <2> HIDE DEF g
    <2>2. g \in 1 .. Len(topo) /\ topo[g].key = KeyOf(p)
      BY <2>1
    <2>3. CASE L = {}
      <3>1. l = 0
        BY <2>3
      <3>2. \A i \in 1 .. Len(topo[g].lists) : topo[g].lists[i].expert # p.expert
        BY <2>3
      <3> HIDE DEF l, L
      <3> QED BY <1>1, <2>1, <2>2, <3>1, <3>2
    <2>4. CASE L # {}
      <3>0. Min(L) \in L
        <4> HIDE DEF L
        <4> QED BY <1>2, <2>4, FirstOf
      <3>1. l \in L /\ l # 0
        BY <2>1, <2>4, <3>0
      <3>2. l \in 1 .. Len(topo[g].lists) /\ topo[g].lists[l].expert = p.expert
        BY <3>1
      <3> HIDE DEF l, L
      <3> QED BY <1>1, <2>1, <2>2, <3>1, <3>2
    <2> QED BY <2>3, <2>4
  <1> QED BY <1>3, <1>4

\* A list holds parameters of one key and one expert, out of the first i, each once.
ListOk(b, key, i) ==
  /\ b \in Lists /\ Len(b.tensors) >= 1
  /\ \A x \in 1 .. Len(b.tensors) : \E j \in 1 .. i :
       /\ params[j].id = b.tensors[x]
       /\ KeyOf(params[j]) = key /\ params[j].expert = b.expert
  /\ \A x, y \in 1 .. Len(b.tensors) : b.tensors[x] = b.tensors[y] => x = y

\* A group has one list for each of its experts.
GroupOk(a, i) ==
  /\ a \in Groups /\ Len(a.lists) >= 1
  /\ \A l, m \in 1 .. Len(a.lists) : a.lists[l].expert = a.lists[m].expert => l = m
  /\ \A l \in 1 .. Len(a.lists) : ListOk(a.lists[l], a.key, i)

Listed(topo, t) ==
  \E g \in 1 .. Len(topo) : \E l \in 1 .. Len(topo[g].lists) :
    \E x \in 1 .. Len(topo[g].lists[l].tensors) : topo[g].lists[l].tensors[x] = t

\* The first i parameters are sorted into one group for each of their keys.
Sorted(topo, i) ==
  /\ topo \in Seq(Groups)
  /\ \A g, h \in 1 .. Len(topo) : topo[g].key = topo[h].key => g = h
  /\ \A g \in 1 .. Len(topo) : GroupOk(topo[g], i)
  /\ \A j \in 1 .. i : Listed(topo, params[j].id)
  /\ i >= 1 => Len(topo) >= 1 /\ topo[1].key = KeyOf(params[1])

\* A parameter with this id, key and expert is among the first i.
Entry(t, key, expert, i) ==
  \E j \in 1 .. i : params[j].id = t /\ KeyOf(params[j]) = key /\ params[j].expert = expert

LEMMA ListEntry ==
  ASSUME NEW b, NEW key, NEW i, ListOk(b, key, i), NEW x \in 1 .. Len(b.tensors)
  PROVE  Entry(b.tensors[x], key, b.expert, i)
  BY Zenon DEF ListOk, Entry

LEMMA ListedHere ==
  ASSUME NEW topo, NEW g \in 1 .. Len(topo), NEW l \in 1 .. Len(topo[g].lists),
         NEW x \in 1 .. Len(topo[g].lists[l].tensors), NEW t, topo[g].lists[l].tensors[x] = t
  PROVE  Listed(topo, t)
  BY Zenon DEF Listed

LEMMA ListOkMore ==
  ASSUME NEW b, NEW key, NEW i \in Nat, ListOk(b, key, i)
  PROVE  ListOk(b, key, i + 1)
  <1>1. ASSUME NEW j \in 1 .. i PROVE j \in 1 .. i + 1
    OBVIOUS
  <1> QED BY <1>1 DEF ListOk

LEMMA GroupOkMore ==
  ASSUME NEW a, NEW i \in Nat, GroupOk(a, i)
  PROVE  GroupOk(a, i + 1)
  BY ListOkMore DEF GroupOk

LEMMA ListOkNew ==
  ASSUME params \in Models, NEW i \in 0 .. Len(params) - 1
  PROVE  ListOk(NewList(params[i + 1]), KeyOf(params[i + 1]), i + 1)
  <1> DEFINE b == NewList(params[i + 1])
  <1>1. i + 1 \in 1 .. Len(params) /\ i + 1 \in 1 .. i + 1
    BY ParamsKnown
  <1>2. b.tensors = <<params[i + 1].id>> /\ b.expert = params[i + 1].expert
    BY DEF NewList
  <1>3. Len(b.tensors) = 1 /\ \A x \in 1 .. Len(b.tensors) : b.tensors[x] = params[i + 1].id /\ x = 1
    BY <1>2
  <1>4. b \in Lists
    <2>1. params[i + 1].id \in ParamIds
      BY <1>1 DEF ParamIds
    <2> QED BY <1>1, <2>1 DEF Lists, NewList
  <1> HIDE DEF b
  <1>5. ListOk(b, KeyOf(params[i + 1]), i + 1)
    BY <1>1, <1>2, <1>3, <1>4 DEF ListOk
  <1> QED BY <1>5 DEF b

Extended(b, t) == [b EXCEPT !.tensors = Append(@, t)]

\* A list that gets one more parameter of its key and expert.
LEMMA ListOkAppend ==
  ASSUME params \in Models, NEW i \in 0 .. Len(params) - 1,
         NEW b, ListOk(b, KeyOf(params[i + 1]), i), b.expert = params[i + 1].expert,
         NEW c, c = Extended(b, params[i + 1].id)
  PROVE  /\ ListOk(c, KeyOf(params[i + 1]), i + 1) /\ c.expert = b.expert
         /\ Len(c.tensors) = Len(b.tensors) + 1
         /\ \A x \in 1 .. Len(b.tensors) : c.tensors[x] = b.tensors[x]
         /\ c.tensors[Len(b.tensors) + 1] = params[i + 1].id
  <1> DEFINE p == params[i + 1]
  <1>1. i + 1 \in 1 .. Len(params) /\ i + 1 \in 1 .. i + 1 /\ i \in Nat
    BY ParamsKnown
  <1>2. b \in Lists /\ b.tensors \in Seq(ParamIds) /\ p.id \in ParamIds
    BY <1>1 DEF ListOk, Lists, ParamIds
  <1>3. c.expert = b.expert /\ c.tensors = Append(b.tensors, p.id) /\ c \in Lists
    <2>1. Append(b.tensors, p.id) \in Seq(ParamIds)
      BY <1>2
    <2>2. c = [b EXCEPT !.tensors = Append(b.tensors, p.id)]
      BY DEF Extended
    <2> HIDE DEF p
    <2> QED BY <1>2, <2>1, <2>2 DEF Lists
  <1> DEFINE n == Len(b.tensors)
  <1>4. /\ Len(c.tensors) = n + 1 /\ n \in Nat
        /\ \A x \in 1 .. n : c.tensors[x] = b.tensors[x]
        /\ c.tensors[n + 1] = p.id
    BY <1>2, <1>3
  <1>5. \A x \in 1 .. n : b.tensors[x] # p.id
    <2> TAKE x \in 1 .. n
    <2>1. PICK j \in 1 .. i : params[j].id = b.tensors[x]
      BY DEF ListOk
    <2>2. j \in 1 .. Len(params) /\ j # i + 1
      BY <1>1, ParamsKnown
    <2> QED BY <1>1, <2>1, <2>2, ParamsKnown
  <1>6. \A x, y \in 1 .. n : b.tensors[x] = b.tensors[y] => x = y
    BY DEF ListOk
  <1>7. ASSUME NEW x \in 1 .. n + 1, NEW y \in 1 .. n + 1, c.tensors[x] = c.tensors[y]
        PROVE  x = y
    <2>1. x \in 1 .. n \/ x = n + 1
      BY <1>4
    <2>2. y \in 1 .. n \/ y = n + 1
      BY <1>4
    <2> HIDE DEF n, p
    <2> QED BY <1>4, <1>5, <1>6, <1>7, <2>1, <2>2
  <1>8. ASSUME NEW x \in 1 .. n + 1
        PROVE  \E j \in 1 .. i + 1 : /\ params[j].id = c.tensors[x]
                                     /\ KeyOf(params[j]) = KeyOf(p) /\ params[j].expert = c.expert
    <2>1. CASE x \in 1 .. n
      <3>1. PICK j \in 1 .. i : /\ params[j].id = b.tensors[x]
                                /\ KeyOf(params[j]) = KeyOf(p) /\ params[j].expert = b.expert
        BY <2>1 DEF ListOk
      <3>2. j \in 1 .. i + 1
        BY <1>1
      <3> QED BY <1>3, <1>4, <2>1, <3>1, <3>2
    <2>2. CASE x = n + 1
      BY <1>1, <1>3, <1>4, <2>2
    <2>3. x \in 1 .. n \/ x = n + 1
      BY <1>4
    <2> QED BY <2>1, <2>2, <2>3
  <1>9. Len(c.tensors) >= 1
    BY <1>4
  <1> HIDE DEF n, p
  <1>10. ListOk(c, KeyOf(p), i + 1)
    BY <1>3, <1>4, <1>7, <1>8, <1>9 DEF ListOk
  <1> QED BY <1>3, <1>4, <1>10 DEF n, p

\* A new group for the next parameter.
LEMMA GroupOkNew ==
  ASSUME params \in Models, NEW i \in 0 .. Len(params) - 1
  PROVE  /\ GroupOk(NewGroup(params[i + 1]), i + 1)
         /\ NewGroup(params[i + 1]).key = KeyOf(params[i + 1])
         /\ NewGroup(params[i + 1]).lists[1].tensors[1] = params[i + 1].id
  <1> DEFINE a == NewGroup(params[i + 1])
             b == NewList(params[i + 1])
  <1>1. i + 1 \in 1 .. Len(params)
    BY ParamsKnown
  <1>2. a.key = KeyOf(params[i + 1]) /\ a.lists = <<b>>
    BY DEF NewGroup
  <1>3. ListOk(b, KeyOf(params[i + 1]), i + 1) /\ b \in Lists
    BY ListOkNew DEF ListOk
  <1>4. b.tensors[1] = params[i + 1].id
    BY DEF NewList
  <1>5. a \in Groups
    <2>1. KeyOf(params[i + 1]) \in {KeyOf(params[j]) : j \in 1 .. Len(params)}
      BY <1>1
    <2> HIDE DEF b
    <2>2. <<b>> \in Seq(Lists)
      BY <1>3
    <2> QED BY <2>1, <2>2 DEF Groups, NewGroup, b
  <1> HIDE DEF a, b
  <1>6. Len(a.lists) = 1 /\ \A l \in 1 .. Len(a.lists) : a.lists[l] = b /\ l = 1
    BY <1>2
  <1>7. GroupOk(a, i + 1)
    BY <1>2, <1>3, <1>5, <1>6 DEF GroupOk
  <1> QED BY <1>2, <1>4, <1>6, <1>7 DEF a

\* A group that gets a list for an expert it did not have.
LEMMA GroupOkAppend ==
  ASSUME params \in Models, NEW i \in 0 .. Len(params) - 1,
         NEW a, GroupOk(a, i), a.key = KeyOf(params[i + 1]),
         \A l \in 1 .. Len(a.lists) : a.lists[l].expert # params[i + 1].expert,
         NEW c, c = [a EXCEPT !.lists = Append(@, NewList(params[i + 1]))]
  PROVE  /\ GroupOk(c, i + 1) /\ c.key = a.key
         /\ Len(c.lists) = Len(a.lists) + 1 /\ Len(a.lists) \in Nat
         /\ \A l \in 1 .. Len(a.lists) : c.lists[l] = a.lists[l]
         /\ c.lists[Len(a.lists) + 1] = NewList(params[i + 1])
  <1> DEFINE b == NewList(params[i + 1])
             n == Len(a.lists)
  <1>1. i \in Nat /\ a \in Groups /\ a.lists \in Seq(Lists) /\ n \in Nat /\ n >= 1
    BY ParamsKnown DEF GroupOk, Groups
  <1>2. ListOk(b, a.key, i + 1) /\ b \in Lists /\ b.expert = params[i + 1].expert
    BY ListOkNew DEF ListOk, NewList
  <1> HIDE DEF b
  <1>3. c.key = a.key /\ c.lists = Append(a.lists, b) /\ c \in Groups
    <2>1. Append(a.lists, b) \in Seq(Lists)
      BY <1>1, <1>2
    <2>2. c = [a EXCEPT !.lists = Append(a.lists, b)]
      BY DEF b
    <2> QED BY <1>1, <2>1, <2>2 DEF Groups
  <1>4. /\ Len(c.lists) = n + 1
        /\ \A l \in 1 .. n : c.lists[l] = a.lists[l]
        /\ c.lists[n + 1] = b
    BY <1>1, <1>3
  <1>5. \A l \in 1 .. n + 1 : l \in 1 .. n \/ l = n + 1
    BY <1>1
  <1>6. /\ \A l, m \in 1 .. n : a.lists[l].expert = a.lists[m].expert => l = m
        /\ \A l \in 1 .. n : ListOk(a.lists[l], a.key, i + 1)
    BY <1>1, ListOkMore DEF GroupOk
  <1>7. \A l \in 1 .. n : a.lists[l].expert # b.expert
    BY <1>2
  <1>8. Len(c.lists) >= 1
    BY <1>1, <1>4
  <1> HIDE DEF n
  <1>9. \A l, m \in 1 .. n + 1 : c.lists[l].expert = c.lists[m].expert => l = m
    <2> TAKE l, m \in 1 .. n + 1
    <2>1. CASE l \in 1 .. n /\ m \in 1 .. n
      BY <1>4, <1>6, <2>1
    <2>2. CASE l = n + 1 \/ m = n + 1
      BY <1>4, <1>5, <1>7, <2>2
    <2> QED BY <1>5, <2>1, <2>2
  <1>10. \A l \in 1 .. n + 1 : ListOk(c.lists[l], c.key, i + 1)
    BY <1>2, <1>3, <1>4, <1>5, <1>6
  <1>11. GroupOk(c, i + 1)
    BY <1>3, <1>4, <1>8, <1>9, <1>10 DEF GroupOk
  <1> QED BY <1>1, <1>3, <1>4, <1>11 DEF n, b

ExtendedAt(a, m, t) == [a EXCEPT !.lists[m].tensors = Append(@, t)]

\* c is a with t at the end of its m-th list.
ExtendsAt(c, a, m, t) ==
  /\ c.key = a.key /\ Len(c.lists) = Len(a.lists)
  /\ \A l \in 1 .. Len(a.lists) : l # m => c.lists[l] = a.lists[l]
  /\ Len(c.lists[m].tensors) = Len(a.lists[m].tensors) + 1
  /\ Len(a.lists[m].tensors) \in Nat
  /\ \A x \in 1 .. Len(a.lists[m].tensors) : c.lists[m].tensors[x] = a.lists[m].tensors[x]
  /\ c.lists[m].tensors[Len(a.lists[m].tensors) + 1] = t

\* A group of which one list gets the next parameter.
LEMMA GroupOkExtend ==
  ASSUME params \in Models, NEW i \in 0 .. Len(params) - 1,
         NEW a, GroupOk(a, i), a.key = KeyOf(params[i + 1]),
         NEW m \in 1 .. Len(a.lists), a.lists[m].expert = params[i + 1].expert,
         NEW c, c = ExtendedAt(a, m, params[i + 1].id)
  PROVE  GroupOk(c, i + 1) /\ ExtendsAt(c, a, m, params[i + 1].id)
  <1> DEFINE n == Len(a.lists)
             b == Extended(a.lists[m], params[i + 1].id)
  <1>1. i \in Nat /\ a \in Groups /\ a.lists \in Seq(Lists) /\ n \in Nat /\ n >= 1
    BY ParamsKnown DEF GroupOk, Groups
  <1>2. /\ ListOk(b, a.key, i + 1) /\ b.expert = a.lists[m].expert
        /\ Len(b.tensors) = Len(a.lists[m].tensors) + 1
        /\ \A x \in 1 .. Len(a.lists[m].tensors) : b.tensors[x] = a.lists[m].tensors[x]
        /\ b.tensors[Len(a.lists[m].tensors) + 1] = params[i + 1].id
    <2> DEFINE o == a.lists[m]
               K == KeyOf(params[i + 1])
    <2>1. ListOk(o, K, i) /\ o.expert = params[i + 1].expert
      BY DEF GroupOk
    <2>2. b = Extended(o, params[i + 1].id)
      OBVIOUS
    <2> HIDE DEF o, b
    <2>3. /\ ListOk(b, K, i + 1) /\ b.expert = o.expert
          /\ Len(b.tensors) = Len(o.tensors) + 1
          /\ \A x \in 1 .. Len(o.tensors) : b.tensors[x] = o.tensors[x]
          /\ b.tensors[Len(o.tensors) + 1] = params[i + 1].id
      BY <2>1, <2>2, ListOkAppend
    <2> QED BY <2>3 DEF o
  <1>3. Len(a.lists[m].tensors) \in Nat
    <2>1. a.lists[m] \in Lists
      BY <1>1
    <2>2. a.lists[m].tensors \in Seq(ParamIds)
      BY <2>1 DEF Lists
    <2> QED BY <2>2
  <1>4. c = [a EXCEPT !.lists = [a.lists EXCEPT ![m] = b]]
    BY DEF Extended, ExtendedAt
  <1> HIDE DEF b
  <1>5. b \in Lists
    BY <1>2 DEF ListOk
  <1>6. /\ [a.lists EXCEPT ![m] = b] \in Seq(Lists)
        /\ Len([a.lists EXCEPT ![m] = b]) = n
        /\ \A l \in 1 .. n : [a.lists EXCEPT ![m] = b][l] = IF l = m THEN b ELSE a.lists[l]
    BY <1>1, <1>5
  <1>7. c \in Groups /\ c.key = a.key /\ c.lists = [a.lists EXCEPT ![m] = b]
    BY <1>1, <1>4, <1>6 DEF Groups
  <1>8. /\ \A l, k \in 1 .. n : a.lists[l].expert = a.lists[k].expert => l = k
        /\ \A l \in 1 .. n : ListOk(a.lists[l], a.key, i + 1)
    BY <1>1, ListOkMore DEF GroupOk
  <1> HIDE DEF n
  <1>9. \A l \in 1 .. n : c.lists[l] = IF l = m THEN b ELSE a.lists[l]
    BY <1>6, <1>7
  <1>10. \A l, k \in 1 .. n : c.lists[l].expert = c.lists[k].expert => l = k
    <2>1. \A l \in 1 .. n : c.lists[l].expert = a.lists[l].expert
      BY <1>2, <1>9
    <2> QED BY <1>8, <2>1
  <1>11. \A l \in 1 .. n : ListOk(c.lists[l], c.key, i + 1)
    <2> TAKE l \in 1 .. n
    <2>1. CASE l = m
      BY <1>2, <1>7, <1>9, <2>1
    <2>2. CASE l # m
      <3>1. c.lists[l] = a.lists[l] /\ ListOk(a.lists[l], a.key, i + 1)
        BY <1>8, <1>9, <2>2
      <3> QED BY <1>7, <3>1
    <2> QED BY <2>1, <2>2
  <1>12. GroupOk(c, i + 1)
    BY <1>1, <1>6, <1>7, <1>10, <1>11 DEF GroupOk
  <1> QED BY <1>2, <1>3, <1>6, <1>7, <1>9, <1>12 DEF n, ExtendsAt

\* One more parameter is sorted.
LEMMA SortedStep ==
  ASSUME params \in Models, NEW i \in 0 .. Len(params) - 1, NEW topo, Sorted(topo, i)
  PROVE  Sorted(AddParam(topo, params[i + 1]), i + 1)
  <1> DEFINE p == params[i + 1]
             q == AddParam(topo, p)
             n == Len(topo)
  <1>1. i \in Nat /\ topo \in Seq(Groups) /\ n \in Nat /\ i + 1 >= 1
    BY ParamsKnown DEF Sorted
  <1>2. /\ \A g, h \in 1 .. n : topo[g].key = topo[h].key => g = h
        /\ \A g \in 1 .. n : GroupOk(topo[g], i) /\ GroupOk(topo[g], i + 1)
        /\ \A j \in 1 .. i : Listed(topo, params[j].id)
        /\ i >= 1 => n >= 1 /\ topo[1].key = KeyOf(params[1])
    BY <1>1, GroupOkMore DEF Sorted
  <1>3. \A j \in 1 .. i + 1 : j \in 1 .. i \/ j = i + 1
    BY <1>1
  <1>4. \A g \in 1 .. n : topo[g] \in Groups
    BY <1>2 DEF GroupOk
  \* It is enough to know where it went.
  <1>5. ASSUME NEW m \in Nat, m >= n, m >= 1,
               q \in Seq(Groups), Len(q) = m,
               \A g \in 1 .. m : GroupOk(q[g], i + 1),
               \A g, h \in 1 .. m : q[g].key = q[h].key => g = h,
               \A g \in 1 .. n : q[g].key = topo[g].key,
               n = 0 => q[1].key = KeyOf(p),
               \A t : Listed(topo, t) => Listed(q, t), Listed(q, p.id)
        PROVE  Sorted(q, i + 1)
    <2>1. \A j \in 1 .. i + 1 : Listed(q, params[j].id)
      BY <1>2, <1>3, <1>5
    <2>2. q[1].key = KeyOf(params[1])
      <3>1. CASE n = 0
        <4>1. i = 0
          BY <1>1, <1>2, <3>1
        <4> QED BY <1>5, <3>1, <4>1
      <3>2. CASE n # 0
        <4>1. 1 \in 1 .. n
          BY <1>1, <3>2
        <4>2. i >= 1
          <5>1. ListOk(topo[1].lists[1], topo[1].key, i) /\ 1 \in 1 .. Len(topo[1].lists[1].tensors)
            <6>1. topo[1].lists \in Seq(Lists) /\ Len(topo[1].lists) >= 1
              BY <1>2, <1>4, <4>1 DEF GroupOk, Groups
            <6>2. 1 \in 1 .. Len(topo[1].lists)
              BY <6>1
            <6>3. ListOk(topo[1].lists[1], topo[1].key, i)
              BY <1>2, <4>1, <6>2 DEF GroupOk
            <6>4. topo[1].lists[1].tensors \in Seq(ParamIds) /\ Len(topo[1].lists[1].tensors) >= 1
              BY <6>3 DEF ListOk, Lists
            <6> QED BY <6>3, <6>4
          <5>2. PICK j \in 1 .. i : TRUE
            BY <5>1 DEF ListOk
          <5> QED BY <1>1, <5>2
        <4> QED BY <1>2, <1>5, <4>1, <4>2
      <3> QED BY <3>1, <3>2
    <2> HIDE DEF q
    <2> QED BY <1>5, <2>1, <2>2 DEF Sorted
  <1> HIDE DEF n
  <1>6. ASSUME \A g \in 1 .. n : topo[g].key # KeyOf(p), q = Append(topo, NewGroup(p))
        PROVE  Sorted(q, i + 1)
    <2> DEFINE a == NewGroup(p)
    <2>1. GroupOk(a, i + 1) /\ a.key = KeyOf(p) /\ a.lists[1].tensors[1] = p.id /\ a \in Groups
      BY GroupOkNew DEF GroupOk
    <2> HIDE DEF a, p
    <2>2. /\ q \in Seq(Groups) /\ Len(q) = n + 1
          /\ \A g \in 1 .. n : q[g] = topo[g]
          /\ q[n + 1] = a
      <3>1. q = Append(topo, a)
        BY <1>6 DEF a
      <3> HIDE DEF q
      <3> QED BY <1>1, <2>1, <3>1 DEF n
    <2>3. \A g \in 1 .. n + 1 : g \in 1 .. n \/ g = n + 1
      BY <1>1
    <2>4. n + 1 \in Nat /\ n + 1 >= n /\ n + 1 >= 1 /\ n + 1 \in 1 .. n + 1
          /\ \A g \in 1 .. n : g \in 1 .. n + 1
      BY <1>1
    <2> HIDE DEF q
    <2>5. \A g \in 1 .. n + 1 : GroupOk(q[g], i + 1)
      BY <1>2, <2>1, <2>2, <2>3
    <2>6. \A g, h \in 1 .. n + 1 : q[g].key = q[h].key => g = h
      BY <1>2, <1>6, <2>1, <2>2, <2>3
    <2>7. n = 0 => q[1].key = KeyOf(p)
      BY <2>1, <2>2
    <2>8. ASSUME NEW t, Listed(topo, t) PROVE Listed(q, t)
      <3>1. PICK g \in 1 .. n : \E l \in 1 .. Len(topo[g].lists) :
              \E x \in 1 .. Len(topo[g].lists[l].tensors) : topo[g].lists[l].tensors[x] = t
        BY <2>8 DEF Listed, n
      <3>2. q[g] = topo[g] /\ g \in 1 .. Len(q)
        BY <2>2, <2>4
      <3> QED BY <3>1, <3>2 DEF Listed
    <2>9. Listed(q, p.id)
      <3>1. 1 \in 1 .. Len(a.lists) /\ 1 \in 1 .. Len(a.lists[1].tensors)
        <4>1. a.lists \in Seq(Lists) /\ Len(a.lists) >= 1
          BY <2>1 DEF GroupOk, Groups
        <4>2. 1 \in 1 .. Len(a.lists)
          BY <4>1
        <4>3. ListOk(a.lists[1], a.key, i + 1)
          BY <2>1, <4>2 DEF GroupOk
        <4>4. a.lists[1].tensors \in Seq(ParamIds) /\ Len(a.lists[1].tensors) >= 1
          BY <4>3 DEF ListOk, Lists
        <4> QED BY <4>2, <4>4
      <3>2. n + 1 \in 1 .. Len(q) /\ 1 \in 1 .. Len(q[n + 1].lists)
            /\ 1 \in 1 .. Len(q[n + 1].lists[1].tensors)
        BY <2>2, <2>4, <3>1
      <3>3. q[n + 1].lists[1].tensors[1] = p.id
        BY Zenon, <2>1, <2>2
      <3> QED BY Zenon, <3>2, <3>3, ListedHere
    <2>10. Sorted(q, i + 1)
      BY <1>5, <2>2, <2>4, <2>5, <2>6, <2>7, <2>8, <2>9
    <2> QED BY <2>10
  \* In both other cases one group changes.
  <1>7. ASSUME NEW g \in 1 .. n, NEW c, q = [topo EXCEPT ![g] = c],
               GroupOk(c, i + 1), c.key = topo[g].key,
               \A l \in 1 .. Len(topo[g].lists) : \A x \in 1 .. Len(topo[g].lists[l].tensors) :
                 \E k \in 1 .. Len(c.lists) : \E y \in 1 .. Len(c.lists[k].tensors) :
                   c.lists[k].tensors[y] = topo[g].lists[l].tensors[x],
               \E k \in 1 .. Len(c.lists) : \E y \in 1 .. Len(c.lists[k].tensors) :
                 c.lists[k].tensors[y] = p.id
        PROVE  Sorted(q, i + 1)
    <2> HIDE DEF p, q
    <2>1. c \in Groups
      BY <1>7 DEF GroupOk
    <2>2. /\ q \in Seq(Groups) /\ Len(q) = n
          /\ \A h \in 1 .. n : q[h] = IF h = g THEN c ELSE topo[h]
      BY <1>1, <1>7, <2>1 DEF n
    <2>3. n >= n /\ n >= 1 /\ n # 0
      BY <1>1
    <2>4. \A h \in 1 .. n : q[h].key = topo[h].key /\ GroupOk(q[h], i + 1)
      BY <1>2, <1>7, <2>2
    <2>5. ASSUME NEW t, Listed(topo, t) PROVE Listed(q, t)
      <3>1. PICK h \in 1 .. n : \E l \in 1 .. Len(topo[h].lists) :
              \E x \in 1 .. Len(topo[h].lists[l].tensors) : topo[h].lists[l].tensors[x] = t
        BY <2>5 DEF Listed, n
      <3>2. CASE h = g
        <4>1. \E k \in 1 .. Len(c.lists) : \E y \in 1 .. Len(c.lists[k].tensors) :
                c.lists[k].tensors[y] = t
          <5>1. PICK l \in 1 .. Len(topo[g].lists) :
                  \E x \in 1 .. Len(topo[g].lists[l].tensors) : topo[g].lists[l].tensors[x] = t
            BY <3>1, <3>2
          <5>2. PICK x \in 1 .. Len(topo[g].lists[l].tensors) : topo[g].lists[l].tensors[x] = t
            BY <5>1
          <5> QED BY <1>7, <5>2
        <4>2. g \in 1 .. Len(q) /\ q[g] = c
          BY <2>2
        <4> QED BY <4>1, <4>2 DEF Listed
      <3>3. CASE h # g
        <4>1. h \in 1 .. Len(q) /\ q[h] = topo[h]
          BY <2>2, <3>3
        <4> QED BY <3>1, <4>1 DEF Listed
      <3> QED BY <3>2, <3>3
    <2>6. Listed(q, p.id)
      BY <1>7, <2>2 DEF Listed
    <2>7. \A h, k \in 1 .. n : q[h].key = q[k].key => h = k
      BY <1>2, <2>4
    <2>8. Sorted(q, i + 1)
      BY <1>1, <1>5, <2>2, <2>3, <2>4, <2>5, <2>6, <2>7
    <2> QED BY <2>8
  <1>8. ASSUME NEW g \in 1 .. n, topo[g].key = KeyOf(p),
               \A l \in 1 .. Len(topo[g].lists) : topo[g].lists[l].expert # p.expert,
               q = [topo EXCEPT ![g].lists = Append(@, NewList(p))]
        PROVE  Sorted(q, i + 1)
    <2> DEFINE a == topo[g]
               c == [a EXCEPT !.lists = Append(@, NewList(p))]
    <2>1. GroupOk(a, i) /\ q = [topo EXCEPT ![g] = c]
      BY <1>2, <1>8
    <2>2. /\ GroupOk(c, i + 1) /\ c.key = a.key
          /\ Len(c.lists) = Len(a.lists) + 1 /\ Len(a.lists) \in Nat
          /\ \A l \in 1 .. Len(a.lists) : c.lists[l] = a.lists[l]
          /\ c.lists[Len(a.lists) + 1] = NewList(p)
      BY <1>8, <2>1, GroupOkAppend
    <2> HIDE DEF a, c, q
    <2>3. Len(NewList(p).tensors) = 1 /\ NewList(p).tensors[1] = p.id /\ 1 \in 1 .. 1
      BY DEF NewList
    <2> HIDE DEF p
    <2>4. /\ \A l \in 1 .. Len(a.lists) : l \in 1 .. Len(c.lists)
          /\ Len(a.lists) + 1 \in 1 .. Len(c.lists)
      BY <2>2
    <2>5. \E k \in 1 .. Len(c.lists) : \E y \in 1 .. Len(c.lists[k].tensors) :
            c.lists[k].tensors[y] = p.id
      BY <2>2, <2>3, <2>4
    <2>6. \A l \in 1 .. Len(a.lists) : \A x \in 1 .. Len(a.lists[l].tensors) :
            \E k \in 1 .. Len(c.lists) : \E y \in 1 .. Len(c.lists[k].tensors) :
              c.lists[k].tensors[y] = a.lists[l].tensors[x]
      BY <2>2, <2>4
    <2> QED BY <1>7, <2>1, <2>2, <2>5, <2>6 DEF a
  <1>9. ASSUME NEW g \in 1 .. n, NEW m \in 1 .. Len(topo[g].lists), topo[g].key = KeyOf(p),
               topo[g].lists[m].expert = p.expert,
               q = [topo EXCEPT ![g].lists[m].tensors = Append(@, p.id)]
        PROVE  Sorted(q, i + 1)
    <2> DEFINE a == topo[g]
               c == ExtendedAt(a, m, p.id)
    <2>1. GroupOk(a, i) /\ q = [topo EXCEPT ![g] = c]
      BY <1>2, <1>9 DEF ExtendedAt
    <2>a. GroupOk(c, i + 1) /\ ExtendsAt(c, a, m, params[i + 1].id)
      <3>1. /\ GroupOk(a, i) /\ a.key = KeyOf(params[i + 1]) /\ m \in 1 .. Len(a.lists)
            /\ a.lists[m].expert = params[i + 1].expert /\ c = ExtendedAt(a, m, params[i + 1].id)
        BY <1>9, <2>1
      <3> HIDE DEF a, c
      <3> QED BY <3>1, GroupOkExtend
    <2>3. m \in 1 .. Len(a.lists)
      OBVIOUS
    <2> HIDE DEF a, c, q
    <2>2. GroupOk(c, i + 1) /\ ExtendsAt(c, a, m, p.id)
      BY <2>a
    <2> HIDE DEF p
    <2>4. /\ \A x \in 1 .. Len(a.lists[m].tensors) : x \in 1 .. Len(c.lists[m].tensors)
          /\ Len(a.lists[m].tensors) + 1 \in 1 .. Len(c.lists[m].tensors)
      <3>1. PICK e \in Nat : e = Len(a.lists[m].tensors) /\ Len(c.lists[m].tensors) = e + 1
        BY <2>2 DEF ExtendsAt
      <3>2. e + 1 \in 1 .. e + 1 /\ \A x \in 1 .. e : x \in 1 .. e + 1
        OBVIOUS
      <3> QED BY <3>1, <3>2
    <2>5. \E k \in 1 .. Len(c.lists) : \E y \in 1 .. Len(c.lists[k].tensors) :
            c.lists[k].tensors[y] = p.id
      BY <2>2, <2>3, <2>4 DEF ExtendsAt
    <2>6. ASSUME NEW l \in 1 .. Len(a.lists), NEW x \in 1 .. Len(a.lists[l].tensors)
          PROVE  \E k \in 1 .. Len(c.lists) : \E y \in 1 .. Len(c.lists[k].tensors) :
                   c.lists[k].tensors[y] = a.lists[l].tensors[x]
      <3>1. CASE l = m
        BY <2>2, <2>3, <2>4, <3>1 DEF ExtendsAt
      <3>2. CASE l # m
        BY <2>2, <3>2 DEF ExtendsAt
      <3> QED BY <3>1, <3>2
    <2> QED BY Zenon, <1>7, <2>1, <2>2, <2>5, <2>6 DEF a, ExtendsAt
  <1>10. \/ /\ \A g \in 1 .. n : topo[g].key # KeyOf(p)
            /\ q = Append(topo, NewGroup(p))
         \/ \E g \in 1 .. n :
              /\ topo[g].key = KeyOf(p)
              /\ \A l \in 1 .. Len(topo[g].lists) : topo[g].lists[l].expert # p.expert
              /\ q = [topo EXCEPT ![g].lists = Append(@, NewList(p))]
         \/ \E g \in 1 .. n : \E l \in 1 .. Len(topo[g].lists) :
              /\ topo[g].key = KeyOf(p)
              /\ topo[g].lists[l].expert = p.expert
              /\ q = [topo EXCEPT ![g].lists[l].tensors = Append(@, p.id)]
    <2> HIDE DEF p
    <2> QED BY <1>1, AddParamCases DEF n
  <1> HIDE DEF p, q
  <1>11. Sorted(q, i + 1)
    BY <1>6, <1>8, <1>9, <1>10
  <1> QED BY <1>11 DEF p, q

\* Whatever the models are, get_topology sorts one of their parameters after the
\* other.
LEMMA GroupedSteps ==
  ASSUME params \in Models
  PROVE  /\ Grouped(params)[0] = <<>>
         /\ \A i \in 0 .. Len(params) - 1 :
              Grouped(params)[i + 1] = AddParam(Grouped(params)[i], params[i + 1])
         /\ \A i \in 0 .. Len(params) : Sorted(Grouped(params)[i], i)
  <1> DEFINE N == Len(params)
             P(g) == g = [i \in 0 .. N |-> IF i = 0 THEN <<>> ELSE AddParam(g[i - 1], params[i])]
             D == Seq(Groups)
             F == [x \in D \X (1 .. N) |->
                     IF Sorted(x[1], x[2] - 1) THEN AddParam(x[1], params[x[2]]) ELSE <<>>]
  <1>1. N \in Nat /\ <<>> \in D
    BY ParamsKnown
  <1>2. Sorted(<<>>, 0)
    BY DEF Sorted
  <1>3. ASSUME NEW x, NEW i \in 1 .. N, Sorted(x, i - 1)
        PROVE  Sorted(AddParam(x, params[i]), i) /\ AddParam(x, params[i]) \in D
    <2>1. i - 1 \in 0 .. N - 1 /\ (i - 1) + 1 = i
      BY <1>1
    <2>2. Sorted(AddParam(x, params[(i - 1) + 1]), (i - 1) + 1)
      BY <1>3, <2>1, SortedStep
    <2> QED BY <2>1, <2>2 DEF Sorted
  <1>4. F \in Turns(N, D)
    <2>1. ASSUME NEW x \in D, NEW i \in 1 .. N
          PROVE  (IF Sorted(x, i - 1) THEN AddParam(x, params[i]) ELSE <<>>) \in D
      BY <1>1, <1>3
    <2> HIDE DEF D, N
    <2> QED BY <2>1 DEF Turns
  <1>5. ASSUME NEW x \in D, NEW i \in 1 .. N, Sorted(x, i - 1)
        PROVE  F[<<x, i>>] = AddParam(x, params[i])
    BY <1>5
  <1> HIDE DEF D, N, F
  <1>6. PICK g : Values(g, N, D, <<>>, F)
    BY <1>1, <1>4, Iterates
  <1>7. \A i \in 0 .. N : Sorted(g[i], i)
    <2> DEFINE S == {i \in 0 .. N : Sorted(g[i], i)}
    <2>1. 0 \in S
      BY <1>1, <1>2, <1>6 DEF Values
    <2>2. ASSUME NEW i \in 0 .. N - 1, i \in S PROVE i + 1 \in S
      <3>1. i + 1 \in 1 .. N /\ (i + 1) - 1 = i /\ i + 1 \in 0 .. N /\ i \in 0 .. N
        BY <1>1
      <3>2. g[i + 1] = F[<<g[i], i + 1>>] /\ g[i] \in D /\ Sorted(g[i], i)
        BY <1>6, <2>2, <3>1 DEF Values
      <3>3. g[i + 1] = AddParam(g[i], params[i + 1])
        BY <1>5, <3>1, <3>2
      <3> QED BY <1>3, <3>1, <3>2, <3>3
    <2> HIDE DEF S
    <2>3. \A i \in 0 .. N : i \in S
      BY <1>1, <2>1, <2>2, UpToBySteps
    <2> QED BY <2>3 DEF S
  <1>8. P(g)
    <2>1. ASSUME NEW i \in 0 .. N PROVE g[i] = IF i = 0 THEN <<>> ELSE AddParam(g[i - 1], params[i])
      <3>1. CASE i = 0
        BY <1>6, <3>1 DEF Values
      <3>2. CASE i # 0
        <4>1. i \in 1 .. N /\ i - 1 \in 0 .. N
          BY <1>1, <3>2
        <4>2. g[i] = F[<<g[i - 1], i>>] /\ g[i - 1] \in D /\ Sorted(g[i - 1], i - 1)
          BY <1>6, <1>7, <4>1 DEF Values
        <4> QED BY <1>5, <3>2, <4>1, <4>2
      <3> QED BY <3>1, <3>2
    <2> QED BY <1>6, <2>1 DEF Values
  <1>9. P(Grouped(params))
    <2>1. Grouped(params) = CHOOSE h : P(h)
      BY DEF Grouped, N
    <2> QED BY <1>8, <2>1
  <1>10. \A i \in 0 .. N : Grouped(params)[i] = IF i = 0 THEN <<>> ELSE AddParam(Grouped(params)[i - 1], params[i])
    BY <1>9
  <1>11. \A i \in 0 .. N : Sorted(Grouped(params)[i], i)
    <2> DEFINE S == {i \in 0 .. N : Sorted(Grouped(params)[i], i)}
    <2>1. 0 \in S
      BY <1>1, <1>2, <1>10
    <2>2. ASSUME NEW i \in 0 .. N - 1, i \in S PROVE i + 1 \in S
      <3>1. i + 1 \in 1 .. N /\ (i + 1) - 1 = i /\ i + 1 \in 0 .. N /\ i + 1 # 0
        BY <1>1
      <3>2. Grouped(params)[i + 1] = AddParam(Grouped(params)[i], params[i + 1])
        BY <1>10, <3>1
      <3> QED BY <1>3, <2>2, <3>1, <3>2
    <2> HIDE DEF S
    <2>3. \A i \in 0 .. N : i \in S
      BY <1>1, <2>1, <2>2, UpToBySteps
    <2> QED BY <2>3 DEF S
  <1>12. 0 \in 0 .. N /\ \A i \in 0 .. N - 1 : i + 1 \in 0 .. N /\ i + 1 # 0 /\ (i + 1) - 1 = i
    BY <1>1
  <1> QED BY <1>10, <1>11, <1>12 DEF N

LEMMA TopologySorted ==
  ASSUME params \in Models
  PROVE  Sorted(GetTopology, Len(params))
  <1>1. Len(params) \in 0 .. Len(params)
    BY ParamsKnown
  <1> QED BY <1>1, GroupedSteps DEF GetTopology

-----------------------------------------------------------------------------
(* The order within the groups.                                            *)

\* Of the keys of the first i parameters the groups are in the order of their first
\* parameters.
FirstsInOrder(topo, i) ==
  \A g, h \in 1 .. Len(topo) : g < h =>
    \A u \in 1 .. i : KeyOf(params[u]) = topo[h].key => \E j \in 1 .. u - 1 : KeyOf(params[j]) = topo[g].key

\* The tensors of a list are in the order of the parameters.
InOrder(ids) ==
  \A x, y \in 1 .. Len(ids) : x < y =>
    \A j, h \in 1 .. Len(params) : params[j].id = ids[x] /\ params[h].id = ids[y] => j < h

\* The experts of a group are in the order of their numbers.
GroupInOrder(a) ==
  /\ a.key[1] = "experts" => \A l \in 1 .. Len(a.lists) : a.lists[l].expert = l - 1
  /\ \A l \in 1 .. Len(a.lists) : InOrder(a.lists[l].tensors)

Ordered(topo, i) ==
  FirstsInOrder(topo, i) /\ \A g \in 1 .. Len(topo) : GroupInOrder(topo[g])

LEMMA NumbersKnown ==
  ASSUME params \in Models
  PROVE  \A i \in 1 .. Len(params) :
           /\ KeyOf(params[i])[1] = "experts" <=> params[i].expert # None
           /\ params[i].expert # None =>
                /\ KeyOf(params[i]) = <<"experts", params[i].prefix>>
                /\ params[i].expert \in Nat
                /\ \/ params[i].expert = 0
                   \/ \E j \in 1 .. i - 1 : /\ params[j].prefix = params[i].prefix
                                            /\ params[j].expert = params[i].expert - 1
  <1>1. Len(params) \in Nat /\ DOMAIN params = 1 .. Len(params)
    BY ParamsKnown
  <1>2. \A i \in DOMAIN params : params[i].expert # None =>
          /\ params[i].prefix # None /\ params[i].expert \in Nat
          /\ \/ params[i].expert = 0
             \/ \E j \in 1 .. i - 1 : /\ params[j].prefix = params[i].prefix
                                      /\ params[j].expert = params[i].expert - 1
    BY NamesAssumption
  <1> QED BY <1>1, <1>2 DEF KeyOf

\* A group comes from a parameter, and each parameter seen is in the group of its key.
LEMMA GroupSeen ==
  ASSUME NEW topo, NEW i \in Nat, Sorted(topo, i), NEW g \in 1 .. Len(topo)
  PROVE  \E j \in 1 .. i : KeyOf(params[j]) = topo[g].key
  <1>1. GroupOk(topo[g], i)
    BY DEF Sorted
  <1>2. topo[g] \in Groups /\ Len(topo[g].lists) >= 1
    BY <1>1 DEF GroupOk
  <1>3. topo[g].lists \in Seq(Lists)
    BY <1>2 DEF Groups
  <1>4. 1 \in 1 .. Len(topo[g].lists) /\ topo[g].lists[1] \in Lists
    BY <1>2, <1>3
  <1>5. ListOk(topo[g].lists[1], topo[g].key, i)
    BY <1>1, <1>4 DEF GroupOk
  <1>6. topo[g].lists[1].tensors \in Seq(ParamIds)
    BY <1>4 DEF Lists
  <1>7. 1 \in 1 .. Len(topo[g].lists[1].tensors)
    BY <1>5, <1>6 DEF ListOk
  <1> QED BY <1>5, <1>7 DEF ListOk

\* The expert of p has a list in the group of its key.
HasList(topo, p) ==
  \E g \in 1 .. Len(topo) : /\ topo[g].key = KeyOf(p)
                            /\ \E l \in 1 .. Len(topo[g].lists) : topo[g].lists[l].expert = p.expert

LEMMA KeyListed ==
  ASSUME params \in Models, NEW topo, NEW i \in 0 .. Len(params), Sorted(topo, i), NEW j \in 1 .. i
  PROVE  HasList(topo, params[j])
  <1>1. Listed(topo, params[j].id)
    BY DEF Sorted
  <1>2. PICK g \in 1 .. Len(topo) : \E l \in 1 .. Len(topo[g].lists) :
          \E x \in 1 .. Len(topo[g].lists[l].tensors) : topo[g].lists[l].tensors[x] = params[j].id
    BY <1>1 DEF Listed
  <1>3. PICK l \in 1 .. Len(topo[g].lists) :
          \E x \in 1 .. Len(topo[g].lists[l].tensors) : topo[g].lists[l].tensors[x] = params[j].id
    BY <1>2
  <1>4. PICK x \in 1 .. Len(topo[g].lists[l].tensors) : topo[g].lists[l].tensors[x] = params[j].id
    BY <1>3
  <1>5. ListOk(topo[g].lists[l], topo[g].key, i)
    BY DEF Sorted, GroupOk
  <1>6. PICK h \in 1 .. i : /\ params[h].id = params[j].id /\ KeyOf(params[h]) = topo[g].key
                            /\ params[h].expert = topo[g].lists[l].expert
    <2>1. Entry(topo[g].lists[l].tensors[x], topo[g].key, topo[g].lists[l].expert, i)
      BY Zenon, <1>4, <1>5, ListEntry
    <2> QED BY Zenon, <1>4, <2>1 DEF Entry
  <1>7. h = j
    <2>1. h \in 1 .. Len(params) /\ j \in 1 .. Len(params)
      BY ParamsKnown
    <2> QED BY <1>6, <2>1, ParamsKnown
  <1> QED BY <1>6, <1>7 DEF HasList

\* The keys of a longer or the same list of groups.
LEMMA FirstsStep ==
  ASSUME params \in Models, NEW i \in 0 .. Len(params) - 1, NEW topo, Sorted(topo, i),
         FirstsInOrder(topo, i), NEW q, Len(topo) \in Nat,
         \A g \in 1 .. Len(topo) : q[g].key = topo[g].key,
         \/ Len(q) = Len(topo)
         \/ /\ Len(q) = Len(topo) + 1 /\ q[Len(topo) + 1].key = KeyOf(params[i + 1])
            /\ \A g \in 1 .. Len(topo) : topo[g].key # KeyOf(params[i + 1])
  PROVE  FirstsInOrder(q, i + 1)
  <1>1. i \in Nat /\ Len(params) \in Nat /\ i \in 0 .. Len(params)
    BY ParamsKnown
  <1> SUFFICES ASSUME NEW g \in 1 .. Len(q), NEW h \in 1 .. Len(q), g < h,
                      NEW u \in 1 .. i + 1, KeyOf(params[u]) = q[h].key
               PROVE  \E j \in 1 .. u - 1 : KeyOf(params[j]) = q[g].key
    BY DEF FirstsInOrder
  <1>2. g \in 1 .. Len(topo)
    OBVIOUS
  <1>3. PICK j \in 1 .. i : KeyOf(params[j]) = q[g].key
    BY <1>1, <1>2, GroupSeen
  <1>4. CASE u = i + 1
    BY <1>1, <1>3, <1>4
  <1>a. \A v \in 1 .. i + 1 : v = i + 1 \/ v \in 1 .. i
    BY <1>1
  <1>5. CASE u # i + 1
    <2>1. u \in 1 .. i
      BY <1>5, <1>a
    <2>2. h \in 1 .. Len(topo)
      <3> SUFFICES ASSUME h \notin 1 .. Len(topo) PROVE FALSE
        OBVIOUS
      <3>1. h = Len(topo) + 1 /\ Len(q) = Len(topo) + 1 /\ Len(q) # Len(topo)
        OBVIOUS
      <3>2. \A f \in 1 .. Len(topo) : topo[f].key # KeyOf(params[u])
        BY <3>1
      <3> QED BY <1>1, <2>1, <3>2, KeyListed DEF HasList
    <2>3. KeyOf(params[u]) = topo[h].key
      BY <2>2
    <2> QED BY <1>2, <2>1, <2>2, <2>3 DEF FirstsInOrder
  <1> QED BY <1>4, <1>5

LEMMA InOrderNew ==
  ASSUME NEW p PROVE InOrder(NewList(p).tensors)
  <1>1. Len(NewList(p).tensors) = 1
    BY DEF NewList
  <1>2. \A x, y \in 1 .. 1 : ~(x < y)
    OBVIOUS
  <1> QED BY <1>1, <1>2 DEF InOrder

\* A list that gets the next parameter.
LEMMA InOrderExtend ==
  ASSUME params \in Models, NEW i \in 0 .. Len(params) - 1,
         NEW b, NEW key, ListOk(b, key, i), InOrder(b.tensors),
         NEW ids, Len(ids) = Len(b.tensors) + 1,
         \A x \in 1 .. Len(b.tensors) : ids[x] = b.tensors[x],
         ids[Len(b.tensors) + 1] = params[i + 1].id
  PROVE  InOrder(ids)
  <1>1. i \in Nat /\ Len(params) \in Nat /\ i + 1 \in 1 .. Len(params)
    BY ParamsKnown
  <1>2. PICK e \in Nat : e = Len(b.tensors)
    <2>1. b.tensors \in Seq(ParamIds)
      BY DEF ListOk, Lists
    <2> QED BY <2>1
  <1> SUFFICES ASSUME NEW x \in 1 .. e + 1, NEW y \in 1 .. e + 1, x < y,
                      NEW j \in 1 .. Len(params), NEW h \in 1 .. Len(params),
                      params[j].id = ids[x], params[h].id = ids[y]
               PROVE  j < h
    BY <1>2 DEF InOrder
  <1>3. x \in 1 .. e /\ ids[x] = b.tensors[x]
    <2>1. x \in 1 .. e
      BY <1>2
    <2> QED BY <1>2, <2>1
  <1>4. CASE y = e + 1
    <2>1. h = i + 1
      BY <1>1, <1>2, <1>4, ParamsKnown
    <2>2. PICK f \in 1 .. i : params[f].id = b.tensors[x]
      BY <1>2, <1>3 DEF ListOk
    <2>3. f \in 1 .. Len(params) /\ f < i + 1
      BY <1>1
    <2>4. f = j
      BY <1>3, <2>2, <2>3, ParamsKnown
    <2> QED BY <2>1, <2>3, <2>4
  <1>5. CASE y # e + 1
    <2>1. y \in 1 .. e
      BY <1>5
    <2>2. ids[y] = b.tensors[y]
      BY <1>2, <2>1
    <2>3. x \in 1 .. Len(b.tensors) /\ y \in 1 .. Len(b.tensors)
      BY <1>2, <1>3, <2>1
    <2> QED BY <1>3, <2>2, <2>3 DEF InOrder
  <1> QED BY <1>4, <1>5

\* The expert of a parameter that has no list yet is the next one.
LEMMA NextNumber ==
  ASSUME params \in Models, NEW i \in 0 .. Len(params) - 1, NEW topo, Sorted(topo, i),
         \A g \in 1 .. Len(topo) : GroupInOrder(topo[g]),
         params[i + 1].expert # None, params[i + 1].expert # 0
  PROVE  \E g \in 1 .. Len(topo) : \E l \in 1 .. Len(topo[g].lists) :
           topo[g].key = KeyOf(params[i + 1]) /\ l = params[i + 1].expert
  <1>1. i \in Nat /\ i + 1 \in 1 .. Len(params) /\ (i + 1) - 1 = i /\ i \in 0 .. Len(params)
    BY ParamsKnown
  <1>2. PICK j \in 1 .. i : /\ params[j].prefix = params[i + 1].prefix
                            /\ params[j].expert = params[i + 1].expert - 1
    BY <1>1, NumbersKnown
  <1>3. j \in 1 .. Len(params)
    BY <1>1
  <1>4. params[i + 1].expert \in Nat
    BY <1>1, NumbersKnown
  <1>5. params[j].expert # None
    BY <1>2, <1>4, ParamsKnown
  <1>6. /\ KeyOf(params[j]) = KeyOf(params[i + 1])
        /\ KeyOf(params[j])[1] = "experts"
    BY <1>1, <1>2, <1>3, <1>5, NumbersKnown
  <1>7. HasList(topo, params[j])
    BY <1>1, KeyListed
  <1>8. PICK g \in 1 .. Len(topo) : /\ topo[g].key = KeyOf(params[j])
                                   /\ \E l \in 1 .. Len(topo[g].lists) : topo[g].lists[l].expert = params[j].expert
    BY <1>7 DEF HasList
  <1>9. PICK l \in 1 .. Len(topo[g].lists) : topo[g].lists[l].expert = params[j].expert
    BY <1>8
  <1>10. topo[g].lists[l].expert = l - 1
    BY <1>6, <1>8, <1>9 DEF GroupInOrder
  <1>11. l = params[i + 1].expert
    BY <1>2, <1>4, <1>10, <1>9
  <1> QED BY <1>6, <1>8, <1>11, <1>9

\* A group for a key that none has: its expert is the first.
LEMMA GroupInOrderNew ==
  ASSUME params \in Models, NEW i \in 0 .. Len(params) - 1, NEW topo, Sorted(topo, i),
         \A g \in 1 .. Len(topo) : GroupInOrder(topo[g]),
         \A g \in 1 .. Len(topo) : topo[g].key # KeyOf(params[i + 1])
  PROVE  GroupInOrder(NewGroup(params[i + 1]))
  <1> DEFINE a == NewGroup(params[i + 1])
             b == NewList(params[i + 1])
  <1>1. i + 1 \in 1 .. Len(params)
    BY ParamsKnown
  <1>2. a.key = KeyOf(params[i + 1]) /\ a.lists = <<b>> /\ b.expert = params[i + 1].expert
    BY DEF NewGroup, NewList
  <1>3. InOrder(b.tensors)
    BY InOrderNew
  <1> HIDE DEF a, b
  <1>4. Len(a.lists) = 1 /\ \A l \in 1 .. Len(a.lists) : a.lists[l] = b /\ l = 1
    BY <1>2
  <1>5. ASSUME a.key[1] = "experts" PROVE b.expert = 0
    <2>1. params[i + 1].expert # None
      BY <1>1, <1>2, <1>5, NumbersKnown
    <2>2. params[i + 1].expert = 0
      BY <2>1, NextNumber
    <2> QED BY <1>2, <2>2
  <1>6. GroupInOrder(a)
    BY <1>3, <1>4, <1>5 DEF GroupInOrder
  <1> QED BY <1>6 DEF a

\* A list for an expert that its group does not have: it is the next one.
LEMMA GroupInOrderAppend ==
  ASSUME params \in Models, NEW i \in 0 .. Len(params) - 1, NEW topo, Sorted(topo, i),
         \A g \in 1 .. Len(topo) : GroupInOrder(topo[g]),
         NEW g \in 1 .. Len(topo), topo[g].key = KeyOf(params[i + 1]),
         \A l \in 1 .. Len(topo[g].lists) : topo[g].lists[l].expert # params[i + 1].expert,
         NEW c, c.key = topo[g].key, Len(c.lists) = Len(topo[g].lists) + 1,
         \A l \in 1 .. Len(topo[g].lists) : c.lists[l] = topo[g].lists[l],
         c.lists[Len(topo[g].lists) + 1] = NewList(params[i + 1])
  PROVE  GroupInOrder(c)
  <1>1. i + 1 \in 1 .. Len(params)
    BY ParamsKnown
  <1>2. GroupOk(topo[g], i) /\ topo[g] \in Groups
    BY DEF Sorted, GroupOk
  <1>3. PICK n \in Nat : n = Len(topo[g].lists) /\ n >= 1
    <2>1. topo[g].lists \in Seq(Lists) /\ Len(topo[g].lists) >= 1
      BY <1>2 DEF GroupOk, Groups
    <2> QED BY <2>1
  <1>4. \A l \in 1 .. n + 1 : l \in 1 .. n \/ l = n + 1
    BY <1>3
  <1>5. NewList(params[i + 1]).expert = params[i + 1].expert
    BY DEF NewList
  <1>6. ASSUME c.key[1] = "experts", NEW l \in 1 .. n + 1 PROVE c.lists[l].expert = l - 1
    <2>1. \A k \in 1 .. n : topo[g].lists[k].expert = k - 1
      BY <1>3, <1>6 DEF GroupInOrder
    <2>2. CASE l \in 1 .. n
      BY <1>3, <2>1, <2>2
    <2>3. CASE l = n + 1
      <3>1. params[i + 1].expert # None
        BY <1>1, <1>6, NumbersKnown
      <3>2. params[i + 1].expert # 0
        <4>1. 1 \in 1 .. n /\ topo[g].lists[1].expert = 0
          BY <1>3, <2>1
        <4> QED BY <1>3, <4>1
      <3>3. PICK h \in 1 .. Len(topo) : \E k \in 1 .. Len(topo[h].lists) :
              topo[h].key = KeyOf(params[i + 1]) /\ k = params[i + 1].expert
        BY <3>1, <3>2, NextNumber
      <3>4. h = g
        BY <3>3 DEF Sorted
      <3>5. PICK v \in 1 .. n : v = params[i + 1].expert
        BY <1>3, <3>3, <3>4
      <3>6. v = n
        <4> SUFFICES ASSUME v # n PROVE FALSE
          OBVIOUS
        <4>1. v + 1 \in 1 .. n /\ (v + 1) - 1 = v
          BY <1>3
        <4>2. topo[g].lists[v + 1].expert = v
          BY <2>1, <4>1
        <4> QED BY <1>3, <3>5, <4>1, <4>2
      <3>7. c.lists[n + 1].expert = n
        BY <1>3, <1>5, <3>5, <3>6
      <3> QED BY <1>3, <2>3, <3>7
    <2> QED BY <1>4, <2>2, <2>3
  <1>7. ASSUME NEW l \in 1 .. n + 1 PROVE InOrder(c.lists[l].tensors)
    <2>1. CASE l \in 1 .. n
      BY <1>3, <2>1 DEF GroupInOrder
    <2>2. CASE l = n + 1
      BY <1>3, <2>2, InOrderNew
    <2> QED BY <1>4, <2>1, <2>2
  <1>8. Len(c.lists) = n + 1
    BY <1>3
  <1> QED BY <1>6, <1>7, <1>8 DEF GroupInOrder

\* A list that gets one more tensor.
LEMMA GroupInOrderExtend ==
  ASSUME params \in Models, NEW i \in 0 .. Len(params) - 1,
         NEW a, GroupOk(a, i), GroupInOrder(a), NEW m \in 1 .. Len(a.lists),
         NEW c, ExtendsAt(c, a, m, params[i + 1].id), c.lists[m].expert = a.lists[m].expert
  PROVE  GroupInOrder(c)
  <1>1. InOrder(c.lists[m].tensors)
    <2>1. ListOk(a.lists[m], a.key, i) /\ InOrder(a.lists[m].tensors)
      BY DEF GroupOk, GroupInOrder
    <2> DEFINE b == a.lists[m]
               ids == c.lists[m].tensors
    <2>2. /\ Len(ids) = Len(b.tensors) + 1
          /\ \A x \in 1 .. Len(b.tensors) : ids[x] = b.tensors[x]
          /\ ids[Len(b.tensors) + 1] = params[i + 1].id
      BY DEF ExtendsAt
    <2> HIDE DEF b, ids
    <2>3. ListOk(b, a.key, i) /\ InOrder(b.tensors)
      BY <2>1 DEF b
    <2>4. InOrder(ids)
      BY <2>2, <2>3, InOrderExtend
    <2> QED BY <2>4 DEF ids
  <1>2. \A l \in 1 .. Len(a.lists) : InOrder(c.lists[l].tensors)
    <2> TAKE l \in 1 .. Len(a.lists)
    <2>1. CASE l = m
      BY <1>1, <2>1
    <2>2. CASE l # m
      BY <2>2 DEF ExtendsAt, GroupInOrder
    <2> QED BY <2>1, <2>2
  <1>3. ASSUME c.key[1] = "experts", NEW l \in 1 .. Len(a.lists) PROVE c.lists[l].expert = l - 1
    <2>1. a.lists[l].expert = l - 1
      BY <1>3 DEF ExtendsAt, GroupInOrder
    <2>2. CASE l = m
      BY <2>1, <2>2
    <2>3. CASE l # m
      BY <2>1, <2>3 DEF ExtendsAt
    <2> QED BY <2>2, <2>3
  <1>4. Len(c.lists) = Len(a.lists)
    BY DEF ExtendsAt
  <1> QED BY <1>2, <1>3, <1>4 DEF GroupInOrder

\* One more parameter leaves the groups in order.
LEMMA OrderedStep ==
  ASSUME params \in Models, NEW i \in 0 .. Len(params) - 1, NEW topo, Sorted(topo, i), Ordered(topo, i)
  PROVE  Ordered(AddParam(topo, params[i + 1]), i + 1)
  <1> DEFINE p == params[i + 1]
             q == AddParam(topo, p)
  <1>1. topo \in Seq(Groups) /\ \A g \in 1 .. Len(topo) : GroupOk(topo[g], i) /\ topo[g] \in Groups
    BY DEF Sorted, GroupOk
  <1>2. PICK n \in Nat : n = Len(topo)
    BY <1>1
  <1>3. FirstsInOrder(topo, i) /\ \A g \in 1 .. Len(topo) : GroupInOrder(topo[g])
    BY DEF Ordered
  <1>4. ASSUME \A g \in 1 .. Len(topo) : topo[g].key # KeyOf(p), q = Append(topo, NewGroup(p))
        PROVE  Ordered(q, i + 1)
    <2> DEFINE a == NewGroup(p)
    <2>1. GroupInOrder(a)
      BY <1>3, <1>4, GroupInOrderNew
    <2>2. a.key = KeyOf(p) /\ q = Append(topo, a)
      BY <1>4, GroupOkNew
    <2> HIDE DEF a, q, p
    <2>3. Len(q) = n + 1 /\ q[n + 1] = a /\ \A g \in 1 .. n : q[g] = topo[g]
      BY <1>1, <1>2, <2>2
    <2>4. /\ Len(topo) \in Nat /\ \A g \in 1 .. Len(topo) : q[g].key = topo[g].key
          /\ Len(q) = Len(topo) + 1 /\ q[Len(topo) + 1].key = KeyOf(p)
      BY <1>2, <2>2, <2>3
    <2>5. FirstsInOrder(q, i + 1)
      BY <1>3, <1>4, <2>4, FirstsStep DEF p
    <2>6. \A g \in 1 .. n + 1 : g \in 1 .. n \/ g = n + 1
      OBVIOUS
    <2>7. \A g \in 1 .. n + 1 : GroupInOrder(q[g])
      BY <1>2, <1>3, <2>1, <2>3, <2>6
    <2> QED BY <2>3, <2>5, <2>7 DEF Ordered
  <1>5. ASSUME NEW g \in 1 .. Len(topo), NEW c, q = [topo EXCEPT ![g] = c],
               c.key = topo[g].key, GroupInOrder(c)
        PROVE  Ordered(q, i + 1)
    <2> HIDE DEF q, p
    <2>1. Len(q) = n /\ \A h \in 1 .. n : q[h] = IF h = g THEN c ELSE topo[h]
      BY <1>1, <1>2, <1>5
    <2>2. /\ Len(topo) \in Nat /\ \A h \in 1 .. Len(topo) : q[h].key = topo[h].key
          /\ Len(q) = Len(topo)
      BY <1>2, <1>5, <2>1
    <2>3. FirstsInOrder(q, i + 1)
      BY <1>3, <2>2, FirstsStep
    <2>4. \A h \in 1 .. n : GroupInOrder(q[h])
      BY <1>2, <1>3, <1>5, <2>1
    <2> QED BY <2>1, <2>3, <2>4 DEF Ordered
  <1>6. ASSUME NEW g \in 1 .. Len(topo), topo[g].key = KeyOf(p),
               \A l \in 1 .. Len(topo[g].lists) : topo[g].lists[l].expert # p.expert,
               q = [topo EXCEPT ![g].lists = Append(@, NewList(p))]
        PROVE  Ordered(q, i + 1)
    <2> DEFINE a == topo[g]
               c == [a EXCEPT !.lists = Append(@, NewList(p))]
    <2>1. GroupOk(a, i) /\ q = [topo EXCEPT ![g] = c]
      BY <1>1, <1>6
    <2>2. /\ c.key = a.key
          /\ Len(c.lists) = Len(a.lists) + 1
          /\ \A l \in 1 .. Len(a.lists) : c.lists[l] = a.lists[l]
          /\ c.lists[Len(a.lists) + 1] = NewList(p)
      BY <1>6, <2>1, GroupOkAppend
    <2> HIDE DEF c, q
    <2>3. GroupInOrder(c)
      BY <1>3, <1>6, <2>2, GroupInOrderAppend
    <2> QED BY <1>5, <2>1, <2>2, <2>3
  <1>7. ASSUME NEW g \in 1 .. Len(topo), NEW m \in 1 .. Len(topo[g].lists), topo[g].key = KeyOf(p),
               topo[g].lists[m].expert = p.expert,
               q = [topo EXCEPT ![g].lists[m].tensors = Append(@, p.id)]
        PROVE  Ordered(q, i + 1)
    <2> DEFINE a == topo[g]
               c == ExtendedAt(a, m, p.id)
    <2>1. GroupOk(a, i) /\ GroupInOrder(a) /\ q = [topo EXCEPT ![g] = c]
      BY <1>1, <1>3, <1>7 DEF ExtendedAt
    <2>2. /\ a.key = KeyOf(params[i + 1]) /\ m \in 1 .. Len(a.lists)
          /\ a.lists[m].expert = params[i + 1].expert /\ c = ExtendedAt(a, m, params[i + 1].id)
      BY <1>7
    <2> HIDE DEF a, c, q
    <2>3. ExtendsAt(c, a, m, params[i + 1].id)
      BY <2>1, <2>2, GroupOkExtend
    <2>4. c.lists[m].expert = a.lists[m].expert
      <3>1. a \in Groups /\ a.lists \in Seq(Lists) /\ a.lists[m] \in Lists
        BY <2>1, <2>2 DEF GroupOk, Groups
      <3>2. c.lists = [a.lists EXCEPT ![m].tensors = Append(@, p.id)]
        BY <2>2, <3>1 DEF ExtendedAt, Groups
      <3> QED BY <2>2, <3>1, <3>2 DEF Lists
    <2>5. GroupInOrder(c)
      BY <2>1, <2>2, <2>3, <2>4, GroupInOrderExtend
    <2>6. c.key = a.key
      BY <2>3 DEF ExtendsAt
    <2> QED BY <1>5, <2>1, <2>5, <2>6 DEF a
  <1>8. \/ /\ \A g \in 1 .. Len(topo) : topo[g].key # KeyOf(p)
           /\ q = Append(topo, NewGroup(p))
        \/ \E g \in 1 .. Len(topo) :
             /\ topo[g].key = KeyOf(p)
             /\ \A l \in 1 .. Len(topo[g].lists) : topo[g].lists[l].expert # p.expert
             /\ q = [topo EXCEPT ![g].lists = Append(@, NewList(p))]
        \/ \E g \in 1 .. Len(topo) : \E l \in 1 .. Len(topo[g].lists) :
             /\ topo[g].key = KeyOf(p)
             /\ topo[g].lists[l].expert = p.expert
             /\ q = [topo EXCEPT ![g].lists[l].tensors = Append(@, p.id)]
    <2> HIDE DEF p
    <2> QED BY <1>1, AddParamCases
  <1> HIDE DEF p, q
  <1>9. Ordered(q, i + 1)
    BY <1>4, <1>6, <1>7, <1>8
  <1> QED BY <1>9 DEF p, q

LEMMA TopologyOrdered ==
  ASSUME params \in Models
  PROVE  Ordered(GetTopology, Len(params))
  <1> DEFINE N == Len(params)
             S == {i \in 0 .. N : Ordered(Grouped(params)[i], i)}
  <1>1. N \in Nat
    BY ParamsKnown
  <1>2. 0 \in S
    <2>1. Len(Grouped(params)[0]) = 0
      BY GroupedSteps
    <2>2. 1 .. 0 = {}
      OBVIOUS
    <2>3. Ordered(Grouped(params)[0], 0)
      BY <2>1, <2>2 DEF Ordered, FirstsInOrder
    <2> QED BY <1>1, <2>3
  <1>3. ASSUME NEW i \in 0 .. N - 1, i \in S PROVE i + 1 \in S
    <2>1. i + 1 \in 0 .. N /\ i \in 0 .. N
      BY <1>1
    <2>2. Ordered(AddParam(Grouped(params)[i], params[i + 1]), i + 1)
      BY <1>3, <2>1, GroupedSteps, OrderedStep
    <2> QED BY <1>3, <2>1, <2>2, GroupedSteps
  <1> HIDE DEF S
  <1>4. \A i \in 0 .. N : i \in S
    BY <1>1, <1>2, <1>3, UpToBySteps
  <1>5. N \in 0 .. N
    BY <1>1
  <1> QED BY <1>4, <1>5 DEF S, N, GetTopology

-----------------------------------------------------------------------------
(* The nodes.                                                              *)

\* The bytes of a tensor, and of the tensors of a node.
LEMMA SizesKnown ==
  ASSUME params \in Models
  PROVE  /\ \A t \in ParamIds : SizeOf(t) \in Nat \ {0}
         /\ \A ids \in Seq(ParamIds) :
              /\ Sizes(ids) \in Seq(Nat) /\ Len(Sizes(ids)) = Len(ids) /\ Bytes(ids) \in Nat
              /\ \A i \in 1 .. Len(ids) : Sizes(ids)[i] = SizeOf(ids[i])
  <1>1. ASSUME NEW t \in ParamIds PROVE SizeOf(t) \in Nat \ {0}
    <2> DEFINE I == {i \in 1 .. Len(params) : params[i].id = t}
    <2>1. SizeOf(t) = params[IF I # {} THEN Min(I) ELSE 0].size
      BY DEF SizeOf, SelectInSeq
    <2>2. I # {} /\ I \in SUBSET Nat
      BY DEF ParamIds
    <2> HIDE DEF I
    <2>3. Min(I) \in I
      BY <2>2, FirstOf
    <2>4. Min(I) \in 1 .. Len(params)
      BY <2>3 DEF I
    <2> QED BY <2>1, <2>2, <2>4, ParamsKnown
  <1>2. ASSUME NEW ids \in Seq(ParamIds)
        PROVE  /\ Sizes(ids) \in Seq(Nat) /\ Len(Sizes(ids)) = Len(ids) /\ Bytes(ids) \in Nat
               /\ \A i \in 1 .. Len(ids) : Sizes(ids)[i] = SizeOf(ids[i])
    <2>1. Len(ids) \in Nat /\ DOMAIN ids = 1 .. Len(ids) /\ \A i \in 1 .. Len(ids) : ids[i] \in ParamIds
      OBVIOUS
    <2>2. Sizes(ids) \in [1 .. Len(ids) -> Nat] /\ \A i \in 1 .. Len(ids) : Sizes(ids)[i] = SizeOf(ids[i])
      BY <1>1, <2>1 DEF Sizes
    <2>3. ASSUME NEW n \in Nat, NEW w \in [1 .. n -> Nat] PROVE w \in Seq(Nat) /\ Len(w) = n
      BY SeqDef
    <2>4. Sizes(ids) \in Seq(Nat) /\ Len(Sizes(ids)) = Len(ids)
      BY <2>1, <2>2, <2>3
    <2>5. Len(ids) \in 0 .. Len(ids)
      BY <2>1
    <2> QED BY <2>2, <2>4, <2>5, SumsAddUp DEF Bytes, SumOf
  <1> QED BY <1>1, <1>2

NodeSet == [id : Nat, layer : Nat, tensors : Seq(ParamIds), size : Nat]

\* The number of the first node of each stage.
FirstIds == Sums([i \in DOMAIN GetTopology |-> Len(GetTopology[i].lists)])

\* The stages are the groups, and their nodes the lists, numbered through.
LEMMA StagesKnown ==
  ASSUME params \in Models, stages = StagesOf(GetTopology)
  PROVE  /\ Len(stages) = Len(GetTopology) /\ DOMAIN stages = 1 .. Len(GetTopology)
         /\ Len(GetTopology) \in Nat
         /\ FirstIds \in [0 .. Len(GetTopology) -> Nat] /\ FirstIds[0] = 0
         /\ \A s \in 1 .. Len(GetTopology) :
              /\ FirstIds[s] = FirstIds[s - 1] + Len(GetTopology[s].lists)
              /\ stages[s].sparse = (Len(GetTopology[s].lists) > 1)
              /\ stages[s].nodes \in Seq(NodeSet)
              /\ Len(stages[s].nodes) = Len(GetTopology[s].lists)
              /\ Len(GetTopology[s].lists) \in Nat
              /\ \A j \in 1 .. Len(GetTopology[s].lists) :
                   /\ stages[s].nodes[j].id = FirstIds[s - 1] + j - 1
                   /\ stages[s].nodes[j].layer = s - 1
                   /\ stages[s].nodes[j].tensors = GetTopology[s].lists[j].tensors
                   /\ stages[s].nodes[j].size = Bytes(GetTopology[s].lists[j].tensors)
  <1> DEFINE T == GetTopology
             n == Len(T)
             w == [i \in DOMAIN T |-> Len(T[i].lists)]
  <1>1. T \in Seq(Groups) /\ n \in Nat /\ DOMAIN T = 1 .. n
    BY TopologySorted DEF Sorted
  <1>2. ASSUME NEW s \in 1 .. n
        PROVE  /\ T[s].lists \in Seq(Lists) /\ Len(T[s].lists) \in Nat
               /\ DOMAIN T[s].lists = 1 .. Len(T[s].lists)
               /\ \A j \in 1 .. Len(T[s].lists) : T[s].lists[j].tensors \in Seq(ParamIds)
    <2>1. T[s] \in Groups
      BY <1>1
    <2>2. T[s].lists \in Seq(Lists)
      BY <2>1 DEF Groups
    <2>3. \A j \in 1 .. Len(T[s].lists) : T[s].lists[j] \in Lists
      BY <2>2
    <2>4. \A j \in 1 .. Len(T[s].lists) : T[s].lists[j].tensors \in Seq(ParamIds)
      BY <2>3 DEF Lists
    <2> QED BY <2>2, <2>4
  <1> HIDE DEF T
  <1>3. FirstIds \in [0 .. n -> Nat] /\ FirstIds[0] = 0
        /\ \A s \in 1 .. n : FirstIds[s] = FirstIds[s - 1] + Len(T[s].lists)
    <2>1. w \in [1 .. n -> Nat] /\ \A s \in 1 .. n : w[s] = Len(T[s].lists)
      BY <1>1, <1>2
    <2>2. ASSUME NEW k \in Nat, NEW v \in [1 .. k -> Nat] PROVE v \in Seq(Nat) /\ Len(v) = k
      BY SeqDef
    <2>3. FirstIds = Sums(w)
      BY DEF FirstIds, T
    <2> HIDE DEF w
    <2>4. w \in Seq(Nat) /\ Len(w) = n
      BY <1>1, <2>1, <2>2
    <2> QED BY <2>1, <2>3, <2>4, SumsAddUp
  <1>4. stages = [s \in 1 .. n |-> [sparse |-> Len(T[s].lists) > 1, nodes |-> NodesOf(T, s)]]
    BY <1>1 DEF StagesOf, T
  <1>5. Len(stages) = n /\ DOMAIN stages = 1 .. n
        /\ \A s \in 1 .. n : stages[s].sparse = (Len(T[s].lists) > 1) /\ stages[s].nodes = NodesOf(T, s)
    BY <1>1, <1>4
  <1>6. ASSUME NEW s \in 1 .. n
        PROVE  NodesOf(T, s) = [j \in 1 .. Len(T[s].lists) |->
                 [id |-> FirstIds[s - 1] + j - 1, layer |-> s - 1, tensors |-> T[s].lists[j].tensors,
                  size |-> Bytes(T[s].lists[j].tensors)]]
    <2>1. FirstIds = Sums(w)
      BY DEF FirstIds, T
    <2> QED BY <1>2, <2>1 DEF NodesOf
  <1>7. ASSUME NEW s \in 1 .. n
        PROVE  /\ NodesOf(T, s) \in Seq(NodeSet) /\ Len(NodesOf(T, s)) = Len(T[s].lists)
               /\ \A j \in 1 .. Len(T[s].lists) :
                    /\ NodesOf(T, s)[j].id = FirstIds[s - 1] + j - 1
                    /\ NodesOf(T, s)[j].layer = s - 1
                    /\ NodesOf(T, s)[j].tensors = T[s].lists[j].tensors
                    /\ NodesOf(T, s)[j].size = Bytes(T[s].lists[j].tensors)
    <2>1. FirstIds[s - 1] \in Nat /\ s - 1 \in Nat
      BY <1>1, <1>3
    <2>2. \A j \in 1 .. Len(T[s].lists) :
            [id |-> FirstIds[s - 1] + j - 1, layer |-> s - 1, tensors |-> T[s].lists[j].tensors,
             size |-> Bytes(T[s].lists[j].tensors)] \in NodeSet
      <3> TAKE j \in 1 .. Len(T[s].lists)
      <3>1. FirstIds[s - 1] + j - 1 \in Nat
        BY <2>1
      <3>2. T[s].lists[j].tensors \in Seq(ParamIds) /\ Bytes(T[s].lists[j].tensors) \in Nat
        BY <1>2, SizesKnown
      <3> QED BY <2>1, <3>1, <3>2 DEF NodeSet
    <2>3. ASSUME NEW k \in Nat, NEW v \in [1 .. k -> NodeSet] PROVE v \in Seq(NodeSet) /\ Len(v) = k
      BY SeqDef
    <2>4. NodesOf(T, s) \in [1 .. Len(T[s].lists) -> NodeSet]
      BY <1>6, <2>2
    <2>5. NodesOf(T, s) \in Seq(NodeSet) /\ Len(NodesOf(T, s)) = Len(T[s].lists)
      BY <1>2, <2>3, <2>4
    <2> QED BY <1>6, <2>5
  <1> QED BY <1>1, <1>2, <1>3, <1>5, <1>7 DEF T

\* The k-th of all nodes is the j-th of stage s.
NodeAt(k, s, j) ==
  /\ s \in 1 .. Len(GetTopology) /\ j \in 1 .. Len(GetTopology[s].lists)
  /\ k \in 1 .. Len(AllNodes) /\ k = FirstIds[s - 1] + j
  /\ AllNodes[k] = stages[s].nodes[j]

LEMMA AllNodesKnown ==
  ASSUME params \in Models, stages = StagesOf(GetTopology)
  PROVE  /\ AllNodes \in Seq(NodeSet)
         /\ \A k \in 1 .. Len(AllNodes) : \E s, j : NodeAt(k, s, j)
         /\ \A s \in 1 .. Len(GetTopology) : \A j \in 1 .. Len(GetTopology[s].lists) :
              NodeAt(FirstIds[s - 1] + j, s, j)
  <1> DEFINE n == Len(GetTopology)
             q == [s \in DOMAIN stages |-> stages[s].nodes]
  <1>1. /\ n \in Nat /\ DOMAIN stages = 1 .. n
        /\ \A s \in 1 .. n : /\ stages[s].nodes \in Seq(NodeSet)
                             /\ Len(stages[s].nodes) = Len(GetTopology[s].lists)
    BY StagesKnown
  <1>2. q \in [1 .. n -> Seq(NodeSet)] /\ \A s \in 1 .. n : q[s] = stages[s].nodes
    BY <1>1
  <1>3. AllNodes = FlattenSeq(q)
    BY DEF AllNodes
  <1>4. DOMAIN q = 1 .. n
    BY <1>1
  <1> HIDE DEF q
  <1>5. q \in Seq(Seq(NodeSet)) /\ Len(q) = n
    <2>1. ASSUME NEW k \in Nat, NEW S, NEW v \in [1 .. k -> S] PROVE v \in Seq(S) /\ Len(v) = k
      BY SeqDef
    <2> QED BY <1>1, <1>2, <2>1
  <1>6. Begin(q) = FirstIds
    <2>1. DOMAIN GetTopology = 1 .. n
      BY TopologySorted DEF Sorted
    <2>2. Widths(q) = [i \in 1 .. n |-> Len(GetTopology[i].lists)]
      BY <1>1, <1>2, <1>4 DEF Widths
    <2> QED BY <2>1, <2>2 DEF Begin, FirstIds
  <1>7. AllNodes \in Seq(NodeSet) /\ Joined(AllNodes, q, n)
    BY <1>3, <1>5, FlattenJoins
  <1>8. ASSUME NEW s \in 1 .. n, NEW j \in 1 .. Len(GetTopology[s].lists)
        PROVE  NodeAt(FirstIds[s - 1] + j, s, j)
    <2>1. j \in 1 .. Len(q[s]) /\ q[s][j] = stages[s].nodes[j]
      BY <1>1, <1>2
    <2>2. FirstIds[s - 1] + j \in 1 .. Len(AllNodes) /\ AllNodes[FirstIds[s - 1] + j] = q[s][j]
      BY <1>6, <1>7, <2>1 DEF Joined
    <2> QED BY <2>1, <2>2 DEF NodeAt
  <1>9. ASSUME NEW k \in 1 .. Len(AllNodes) PROVE \E s, j : NodeAt(k, s, j)
    <2>1. PICK s \in 1 .. n : \E j \in 1 .. Len(q[s]) : k = FirstIds[s - 1] + j
      BY <1>6, <1>7 DEF Joined
    <2>2. PICK j \in 1 .. Len(q[s]) : k = FirstIds[s - 1] + j
      BY <2>1
    <2> QED BY <1>1, <1>2, <1>8, <2>2
  <1> QED BY <1>7, <1>8, <1>9

\* The parameter t is in list j of group s.
ListedAt(t, s, j) ==
  /\ s \in 1 .. Len(GetTopology) /\ j \in 1 .. Len(GetTopology[s].lists)
  /\ \E x \in 1 .. Len(GetTopology[s].lists[j].tensors) : GetTopology[s].lists[j].tensors[x] = t

\* Every parameter is listed, under its key and its expert.
LEMMA AllListed ==
  ASSUME params \in Models
  PROVE  /\ \A i \in 1 .. Len(params) : \E s, j : ListedAt(params[i].id, s, j)
         /\ \A t, s, j : ListedAt(t, s, j) =>
              \E i \in 1 .. Len(params) :
                /\ params[i].id = t /\ KeyOf(params[i]) = GetTopology[s].key
                /\ params[i].expert = GetTopology[s].lists[j].expert
  <1>1. Sorted(GetTopology, Len(params))
    BY TopologySorted
  <1>2. ASSUME NEW t, NEW s, NEW j, ListedAt(t, s, j)
        PROVE  \E i \in 1 .. Len(params) :
                 /\ params[i].id = t /\ KeyOf(params[i]) = GetTopology[s].key
                 /\ params[i].expert = GetTopology[s].lists[j].expert
    <2>1. GroupOk(GetTopology[s], Len(params))
      BY <1>1, <1>2 DEF Sorted, ListedAt
    <2>2. ListOk(GetTopology[s].lists[j], GetTopology[s].key, Len(params))
      BY <1>2, <2>1 DEF GroupOk, ListedAt
    <2>3. PICK x \in 1 .. Len(GetTopology[s].lists[j].tensors) : GetTopology[s].lists[j].tensors[x] = t
      BY <1>2 DEF ListedAt
    <2>4. PICK i \in 1 .. Len(params) :
            /\ params[i].id = GetTopology[s].lists[j].tensors[x] /\ KeyOf(params[i]) = GetTopology[s].key
            /\ params[i].expert = GetTopology[s].lists[j].expert
      <3>1. Entry(GetTopology[s].lists[j].tensors[x], GetTopology[s].key,
                  GetTopology[s].lists[j].expert, Len(params))
        BY Zenon, <2>2, <2>3, ListEntry
      <3> QED BY Zenon, <3>1 DEF Entry
    <2> QED BY Zenon, <2>3, <2>4
  <1>3. ASSUME NEW i \in 1 .. Len(params) PROVE \E s, j : ListedAt(params[i].id, s, j)
    <2>1. Listed(GetTopology, params[i].id)
      BY <1>1 DEF Sorted
    <2>2. PICK s \in 1 .. Len(GetTopology) : \E j \in 1 .. Len(GetTopology[s].lists) :
            \E x \in 1 .. Len(GetTopology[s].lists[j].tensors) :
              GetTopology[s].lists[j].tensors[x] = params[i].id
      BY <2>1 DEF Listed
    <2>3. PICK j \in 1 .. Len(GetTopology[s].lists) :
            \E x \in 1 .. Len(GetTopology[s].lists[j].tensors) :
              GetTopology[s].lists[j].tensors[x] = params[i].id
      BY <2>2
    <2>4. ListedAt(params[i].id, s, j)
      BY <2>3 DEF ListedAt
    <2> QED BY <2>4
  <1> QED BY <1>2, <1>3

\* No parameter is in two lists.
LEMMA ListedOnce ==
  ASSUME params \in Models, NEW t, NEW s, NEW j, NEW g, NEW l,
         ListedAt(t, s, j), ListedAt(t, g, l)
  PROVE  g = s /\ l = j
  <1>1. Sorted(GetTopology, Len(params)) /\ s \in 1 .. Len(GetTopology)
        /\ g \in 1 .. Len(GetTopology) /\ j \in 1 .. Len(GetTopology[s].lists)
        /\ l \in 1 .. Len(GetTopology[g].lists)
    BY TopologySorted DEF ListedAt
  <1>2. PICK i \in 1 .. Len(params) :
          /\ params[i].id = t /\ KeyOf(params[i]) = GetTopology[s].key
          /\ params[i].expert = GetTopology[s].lists[j].expert
    BY AllListed
  <1>3. PICK k \in 1 .. Len(params) :
          /\ params[k].id = t /\ KeyOf(params[k]) = GetTopology[g].key
          /\ params[k].expert = GetTopology[g].lists[l].expert
    BY AllListed
  <1>4. i = k
    BY <1>2, <1>3, ParamsKnown
  <1>5. g = s
    BY <1>1, <1>2, <1>3, <1>4 DEF Sorted
  <1>6. GroupOk(GetTopology[s], Len(params))
    BY <1>1 DEF Sorted
  <1>7. l = j
    BY <1>1, <1>2, <1>3, <1>4, <1>5, <1>6 DEF GroupOk
  <1> QED BY <1>5, <1>7

\* The parameters of no expert.
DenseIds == {params[i].id : i \in {j \in DOMAIN params : params[j].expert = None}}

\* A group that has one of them is one list of them, and the others have more lists.
LEMMA DenseGroups ==
  ASSUME params \in Models, NEW t, NEW s, NEW j, ListedAt(t, s, j)
  PROVE  /\ t \in DenseIds => Len(GetTopology[s].lists) = 1 /\ j = 1
         /\ Len(GetTopology[s].lists) = 1 => t \in DenseIds
  <1> DEFINE T == GetTopology
  <1>1. Sorted(T, Len(params)) /\ s \in 1 .. Len(T) /\ j \in 1 .. Len(T[s].lists)
    BY TopologySorted DEF ListedAt
  <1>2. GroupOk(T[s], Len(params)) /\ T[s].lists \in Seq(Lists) /\ Len(T[s].lists) \in Nat
    <2>1. GroupOk(T[s], Len(params))
      BY <1>1 DEF Sorted
    <2>2. T[s] \in Groups
      BY <2>1 DEF GroupOk
    <2>3. T[s].lists \in Seq(Lists)
      BY <2>2 DEF Groups
    <2> QED BY <2>1, <2>3
  <1>3. PICK i \in 1 .. Len(params) :
          /\ params[i].id = t /\ KeyOf(params[i]) = T[s].key
          /\ params[i].expert = T[s].lists[j].expert
    BY AllListed
  <1>4. DOMAIN params = 1 .. Len(params)
    BY ParamsKnown
  <1>5. \A k \in 1 .. Len(params) : (KeyOf(params[k])[1] = "experts") = (params[k].expert # None)
    BY NamesKnown DEF KeyOf
  <1>6. ASSUME t \in DenseIds PROVE Len(T[s].lists) = 1 /\ j = 1
    <2>1. params[i].expert = None
      BY <1>3, <1>4, <1>6, ParamsKnown DEF DenseIds
    <2>2. ASSUME NEW l \in 1 .. Len(T[s].lists) PROVE T[s].lists[l].expert = None
      <3>1. ListOk(T[s].lists[l], T[s].key, Len(params))
        BY <1>2 DEF GroupOk
      <3>2. 1 \in 1 .. Len(T[s].lists[l].tensors)
        <4>1. T[s].lists[l] \in Lists
          BY <1>2
        <4>2. T[s].lists[l].tensors \in Seq(ParamIds)
          BY <4>1 DEF Lists
        <4>3. PICK v : v = T[s].lists[l].tensors
          OBVIOUS
        <4>4. v \in Seq(ParamIds)
          BY Zenon, <4>2, <4>3
        <4>5. Len(v) \in Nat
          BY <4>4
        <4>6. Len(v) >= 1
          BY Zenon, <3>1, <4>3 DEF ListOk
        <4> QED BY <4>3, <4>5, <4>6
      <3>3. PICK k \in 1 .. Len(params) :
              KeyOf(params[k]) = T[s].key /\ params[k].expert = T[s].lists[l].expert
        BY <3>1, <3>2 DEF ListOk
      <3> QED BY <1>3, <1>5, <2>1, <3>3
    <2>3. \A l, m \in 1 .. Len(T[s].lists) : l = m
      BY <1>2, <2>2 DEF GroupOk
    <2>4. PICK e \in Nat : e = Len(T[s].lists) /\ e >= 1
      BY <1>2 DEF GroupOk
    <2>5. 1 \in 1 .. e /\ e \in 1 .. e
      BY <2>4
    <2> QED BY <1>1, <2>3, <2>4, <2>5
  <1>7. ASSUME Len(T[s].lists) = 1 PROVE t \in DenseIds
    <2> SUFFICES ASSUME params[i].expert # None PROVE FALSE
      BY <1>3, <1>4 DEF DenseIds
    <2>1. PICK k \in 1 .. Len(params) :
            params[k].prefix = params[i].prefix /\ params[k].expert \notin {None, params[i].expert}
      BY NamesKnown
    <2>2. KeyOf(params[k]) = KeyOf(params[i])
      BY <2>1, NamesKnown DEF KeyOf
    <2>3. PICK g, l : ListedAt(params[k].id, g, l)
      BY AllListed
    <2>4. PICK o \in 1 .. Len(params) :
            /\ params[o].id = params[k].id /\ KeyOf(params[o]) = T[g].key
            /\ params[o].expert = T[g].lists[l].expert
      <3> DEFINE u == params[k].id
      <3>1. ListedAt(u, g, l)
        BY <2>3
      <3> HIDE DEF u
      <3>2. PICK o \in 1 .. Len(params) :
              /\ params[o].id = u /\ KeyOf(params[o]) = GetTopology[g].key
              /\ params[o].expert = GetTopology[g].lists[l].expert
        BY <3>1, AllListed
      <3> QED BY <3>2 DEF u
    <2>5. o = k /\ g \in 1 .. Len(T) /\ l \in 1 .. Len(T[g].lists)
      BY <2>3, <2>4, ParamsKnown DEF ListedAt
    <2>6. g = s
      BY <1>1, <1>3, <2>2, <2>4, <2>5 DEF Sorted
    <2>7. l = 1 /\ j = 1
      <3>1. l \in 1 .. 1 /\ j \in 1 .. 1
        BY <1>1, <1>7, <2>5, <2>6
      <3> QED BY <3>1
    <2> QED BY <1>3, <2>1, <2>4, <2>5, <2>6, <2>7
  <1> QED BY <1>6, <1>7

\* The node of a parameter is that of its list.
LEMMA NodeKnown ==
  ASSUME params \in Models, stages = StagesOf(GetTopology),
         NEW t, NEW s, NEW j, ListedAt(t, s, j)
  PROVE  /\ NodeOf(t) \in Nat /\ NodeOf(t) = FirstIds[s - 1] + j - 1
         /\ NodeAt(NodeOf(t) + 1, s, j)
         /\ LayerOf(NodeOf(t)) = s - 1
         /\ \A u : u \in TensorsOf(NodeOf(t)) <=> ListedAt(u, s, j)
  <1> DEFINE T == GetTopology
             I == {k \in 1 .. Len(AllNodes) : t \in Range(AllNodes[k].tensors)}
             k0 == FirstIds[s - 1] + j
  <1>1. s \in 1 .. Len(T) /\ j \in 1 .. Len(T[s].lists) /\ Sorted(T, Len(params))
    BY TopologySorted DEF ListedAt
  <1>2. ASSUME NEW k, NEW g, NEW l, NodeAt(k, g, l)
        PROVE  /\ g \in 1 .. Len(T) /\ l \in 1 .. Len(T[g].lists)
               /\ AllNodes[k].id = k - 1 /\ AllNodes[k].layer = g - 1
               /\ \A u : u \in Range(AllNodes[k].tensors) <=> ListedAt(u, g, l)
    <2>1. g \in 1 .. Len(T) /\ l \in 1 .. Len(T[g].lists) /\ AllNodes[k] = stages[g].nodes[l]
          /\ k = FirstIds[g - 1] + l
      BY <1>2 DEF NodeAt
    <2>2. /\ stages[g].nodes[l].id = FirstIds[g - 1] + l - 1
          /\ stages[g].nodes[l].layer = g - 1
          /\ stages[g].nodes[l].tensors = T[g].lists[l].tensors
      BY <2>1, StagesKnown
    <2>3. DOMAIN T[g].lists[l].tensors = 1 .. Len(T[g].lists[l].tensors)
      <3>1. T[g] \in Groups
        BY <1>1, <2>1 DEF Sorted
      <3>2. T[g].lists \in Seq(Lists)
        BY <3>1 DEF Groups
      <3>3. T[g].lists[l] \in Lists
        BY <2>1, <3>2
      <3>4. T[g].lists[l].tensors \in Seq(ParamIds)
        BY <3>3 DEF Lists
      <3> QED BY <3>4
    <2>4. \A u : u \in Range(T[g].lists[l].tensors) <=> ListedAt(u, g, l)
      BY <2>1, <2>3 DEF Range, ListedAt
    <2>5. AllNodes[k].id = k - 1 /\ AllNodes[k].layer = g - 1
          /\ AllNodes[k].tensors = T[g].lists[l].tensors
      <3>1. FirstIds[g - 1] \in Nat /\ l \in Nat
        <4>1. /\ FirstIds \in [0 .. Len(GetTopology) -> Nat] /\ Len(GetTopology) \in Nat
              /\ Len(GetTopology[g].lists) \in Nat
          BY <2>1, StagesKnown
        <4>2. g - 1 \in 0 .. Len(GetTopology)
          BY <2>1, <4>1
        <4>3. FirstIds[g - 1] \in Nat
          BY <4>1, <4>2
        <4>4. l \in Nat
          BY <2>1, <4>1
        <4> QED BY <4>3, <4>4
      <3> HIDE DEF T
      <3> QED BY <2>1, <2>2, <3>1
    <2> QED BY <2>1, <2>4, <2>5
  <1>3. NodeAt(k0, s, j)
    BY <1>1, AllNodesKnown
  <1>4. \A k \in I : k = k0
    <2> TAKE k \in I
    <2>1. PICK g, l : NodeAt(k, g, l)
      BY AllNodesKnown
    <2>2. ListedAt(t, g, l)
      BY <1>2, <2>1
    <2>3. g = s /\ l = j
      BY <2>2, ListedOnce
    <2> QED BY <2>1, <2>3 DEF NodeAt
  <1>5. k0 \in I /\ k0 \in Nat
    <2>1. k0 \in I
      BY <1>2, <1>3 DEF NodeAt
    <2> QED BY <2>1
  <1>6. NodeOf(t) = AllNodes[IF I # {} THEN Min(I) ELSE 0].id
    BY DEF NodeOf, GetNodeFromTensorID, SelectInSeq
  <1>7. I \in SUBSET Nat
    OBVIOUS
  <1> HIDE DEF I, k0
  <1>8. Min(I) = k0
    BY <1>4, <1>5, <1>7, FirstOf
  <1>9. NodeOf(t) = k0 - 1
    BY <1>2, <1>3, <1>5, <1>6, <1>8
  <1>10. k0 - 1 \in Nat /\ (k0 - 1) + 1 = k0
    BY <1>3, <1>5 DEF NodeAt
  <1>11. AllNodes[NodeOf(t) + 1] = AllNodes[k0]
    BY <1>9, <1>10
  <1>12. /\ AllNodes[k0].layer = s - 1
         /\ \A u : u \in Range(AllNodes[k0].tensors) <=> ListedAt(u, s, j)
    BY <1>2, <1>3
  <1>13. NodeOf(t) \in Nat /\ NodeOf(t) = FirstIds[s - 1] + j - 1
    <2>1. s - 1 \in 0 .. Len(GetTopology) /\ j \in Nat
      BY <1>1, StagesKnown
    <2>2. FirstIds[s - 1] \in Nat
      BY <2>1, StagesKnown
    <2> QED BY <1>9, <1>10, <2>1, <2>2 DEF k0
  <1>14. NodeAt(NodeOf(t) + 1, s, j)
    BY <1>3, <1>9, <1>10
  <1>15. LayerOf(NodeOf(t)) = s - 1 /\ \A u : u \in TensorsOf(NodeOf(t)) <=> ListedAt(u, s, j)
    BY <1>11, <1>12 DEF LayerOf, TensorsOf
  <1> QED BY <1>13, <1>14, <1>15

-----------------------------------------------------------------------------
(* The groups of experts.                                                  *)

\* A group of experts has the key of one of their parameters.
LEMMA ExpertKeys ==
  ASSUME params \in Models, NEW s \in 1 .. Len(GetTopology), IsExpertKey(GetTopology[s])
  PROVE  /\ GetTopology[s].key = <<"experts", GetTopology[s].key[2]>>
         /\ \A i \in 1 .. Len(params) : KeyOf(params[i]) = GetTopology[s].key <=>
              params[i].expert # None /\ params[i].prefix = GetTopology[s].key[2]
  <1>1. Len(params) \in Nat /\ Sorted(GetTopology, Len(params))
    BY ParamsKnown, TopologySorted
  <1>2. PICK j \in 1 .. Len(params) : KeyOf(params[j]) = GetTopology[s].key
    BY <1>1, GroupSeen
  <1>3. params[j].expert # None
    BY <1>2, NumbersKnown DEF IsExpertKey
  <1>4. GetTopology[s].key = <<"experts", params[j].prefix>>
    BY <1>2, <1>3, NumbersKnown
  <1> QED BY <1>4, NumbersKnown

\* The prefixes of the groups of experts among the first s groups.
PrefixesTo(s) == {GetTopology[g].key[2] : g \in {h \in 1 .. s : IsExpertKey(GetTopology[h])}}

\* The blocks that begin before that of group s are the groups of experts before it.
LEMMA BlocksBefore ==
  ASSUME params \in Models, NEW s \in 1 .. Len(GetTopology), IsExpertKey(GetTopology[s])
  PROVE  BlockOf(GetTopology[s].key[2]) = Cardinality(PrefixesTo(s - 1))
  <1> DEFINE T == GetTopology
             N == Len(params)
             P == T[s].key[2]
             H == {h \in ExpertParams : \A i \in ExpertParams : params[i].prefix = P => h < i}
  <1>1. N \in Nat /\ Sorted(T, N) /\ Len(T) \in Nat /\ Ordered(T, N) /\ N \in 0 .. N
    <2>1. N \in Nat /\ Sorted(T, N) /\ Ordered(T, N)
      BY ParamsKnown, TopologySorted, TopologyOrdered
    <2> HIDE DEF N, T
    <2>2. T \in Seq(Groups)
      BY <2>1 DEF Sorted
    <2> QED BY <2>1, <2>2
  <1>2. ExpertParams = {i \in 1 .. N : params[i].expert # None}
    BY ParamsKnown DEF ExpertParams
  <1>3. \A i \in ExpertParams : params[i].prefix = P => KeyOf(params[i]) = T[s].key
    BY <1>2, ExpertKeys
  <1>4. ASSUME NEW h \in H PROVE params[h].prefix \in PrefixesTo(s - 1)
    <2>1. h \in 1 .. N /\ params[h].expert # None /\ h \in ExpertParams
          /\ \A i \in ExpertParams : params[i].prefix = P => h < i
      BY <1>2
    <2>2. HasList(T, params[h])
      BY <1>1, <2>1, KeyListed
    <2>3. PICK g \in 1 .. Len(T) : T[g].key = KeyOf(params[h])
      BY <2>2 DEF HasList
    <2>4. IsExpertKey(T[g]) /\ T[g].key = <<"experts", params[h].prefix>>
      BY <2>1, <2>3, NumbersKnown DEF IsExpertKey
    <2>5. g # s
      <3> SUFFICES ASSUME g = s PROVE FALSE
        OBVIOUS
      <3>1. params[h].prefix = P
        BY <2>4
      <3>2. h < h
        BY <2>1, <3>1
      <3> QED BY <2>1, <3>2
    <2>6. ~(s < g)
      <3> SUFFICES ASSUME s < g PROVE FALSE
        OBVIOUS
      <3>1. PICK u \in 1 .. h - 1 : KeyOf(params[u]) = T[s].key
        BY <1>1, <2>1, <2>3 DEF Ordered, FirstsInOrder
      <3>2. u \in 1 .. N /\ ~(h < u)
        BY <1>1, <2>1
      <3>3. u \in ExpertParams /\ params[u].prefix = P
        BY <1>2, <3>1, <3>2, ExpertKeys
      <3> QED BY <2>1, <3>2, <3>3
    <2>7. g \in 1 .. s - 1
      BY <1>1, <2>5, <2>6
    <2>8. T[g].key[2] = params[h].prefix
      BY <2>4
    <2> QED BY <2>4, <2>7, <2>8 DEF PrefixesTo
  <1>5. ASSUME NEW g \in 1 .. s - 1, IsExpertKey(T[g])
        PROVE  \E h \in H : params[h].prefix = T[g].key[2]
    <2> DEFINE I == {i \in 1 .. N : KeyOf(params[i]) = T[g].key}
    <2>1. g \in 1 .. Len(T) /\ g < s
      BY <1>1
    <2>2. I # {} /\ I \in SUBSET Nat
      <3>1. \E j \in 1 .. N : KeyOf(params[j]) = T[g].key
        BY <1>1, <2>1, GroupSeen
      <3> QED BY <3>1
    <2>3. PICK h \in I : \A i \in I : h <= i
      <3> HIDE DEF I
      <3> QED BY <2>2, FirstOf
    <2>4. h \in ExpertParams /\ params[h].prefix = T[g].key[2]
      BY <1>2, <1>5, <2>1, ExpertKeys
    <2>5. ASSUME NEW i \in ExpertParams, params[i].prefix = P PROVE h < i
      <3>1. i \in 1 .. N /\ KeyOf(params[i]) = T[s].key
        BY <1>2, <1>3, <2>5
      <3>2. PICK j \in 1 .. i - 1 : KeyOf(params[j]) = T[g].key
        BY <1>1, <2>1, <3>1 DEF Ordered, FirstsInOrder
      <3>3. j \in I /\ j < i /\ j \in Nat
        BY <1>1, <3>1, <3>2
      <3>4. h <= j /\ h \in Nat
        BY <2>3, <3>3
      <3> QED BY <3>1, <3>3, <3>4
    <2> QED BY <2>4, <2>5
  <1>6. {params[j].prefix : j \in H} = PrefixesTo(s - 1)
    <2>1. PrefixesTo(s - 1) = {T[g].key[2] : g \in {h \in 1 .. s - 1 : IsExpertKey(T[h])}}
      BY DEF PrefixesTo
    <2> HIDE DEF H, T
    <2> QED BY <1>4, <1>5, <2>1
  <1> QED BY <1>6 DEF BlockOf

\* How many groups of experts there are among the first s groups.
OneEach == [s \in DOMAIN GetTopology |->
              IF IsExpertKey(GetTopology[s]) THEN <<GetTopology[s]>> ELSE <<>>]

LEMMA OneEachKnown ==
  ASSUME params \in Models
  PROVE  /\ Len(GetTopology) \in Nat /\ OneEach \in Seq(Seq(Groups)) /\ Len(OneEach) = Len(GetTopology)
         /\ \A s \in 1 .. Len(GetTopology) :
              /\ IsExpertKey(GetTopology[s]) => Len(OneEach[s]) = 1 /\ OneEach[s][1] = GetTopology[s]
              /\ ~IsExpertKey(GetTopology[s]) => Len(OneEach[s]) = 0
  <1> DEFINE T == GetTopology
             n == Len(T)
             q == OneEach
  <1>1. T \in Seq(Groups) /\ n \in Nat /\ DOMAIN T = 1 .. n /\ \A s \in 1 .. n : T[s] \in Groups
    <2>1. T \in Seq(Groups)
      BY TopologySorted DEF Sorted
    <2> HIDE DEF T
    <2> QED BY <2>1
  <1>2. DOMAIN q = 1 .. n /\ \A s \in 1 .. n : q[s] = IF IsExpertKey(T[s]) THEN <<T[s]>> ELSE <<>>
    BY <1>1 DEF OneEach
  <1> HIDE DEF T, q
  <1>3. \A s \in 1 .. n : /\ q[s] \in Seq(Groups)
                          /\ IsExpertKey(T[s]) => Len(q[s]) = 1 /\ q[s][1] = T[s]
                          /\ ~IsExpertKey(T[s]) => Len(q[s]) = 0
    <2> TAKE s \in 1 .. n
    <2>1. CASE IsExpertKey(T[s])
      <3>1. PICK a \in Groups : a = T[s] /\ q[s] = <<a>>
        BY <1>1, <1>2, <2>1
      <3> QED BY <2>1, <3>1
    <2>2. CASE ~IsExpertKey(T[s])
      <3>1. q[s] = <<>>
        BY <1>2, <2>2
      <3> QED BY <2>2, <3>1
    <2> QED BY <2>1, <2>2
  <1>4. q \in [1 .. n -> Seq(Groups)]
    <2>1. q = [s \in DOMAIN q |-> q[s]]
      BY DEF q, OneEach
    <2> QED BY <1>2, <1>3, <2>1
  <1>5. q \in Seq(Seq(Groups)) /\ Len(q) = n
    <2>1. ASSUME NEW k \in Nat, NEW S, NEW v \in [1 .. k -> S] PROVE v \in Seq(S) /\ Len(v) = k
      BY SeqDef
    <2> QED BY <1>1, <1>4, <2>1
  <1> QED BY <1>1, <1>3, <1>5 DEF T, q

\* They are as many as their prefixes.
LEMMA PrefixesCounted ==
  ASSUME params \in Models, NEW s \in 0 .. Len(GetTopology)
  PROVE  IsFiniteSet(PrefixesTo(s)) /\ Cardinality(PrefixesTo(s)) = Begin(OneEach)[s]
  <1> DEFINE T == GetTopology
             n == Len(T)
             B == Begin(OneEach)
             S == {m \in 0 .. n : IsFiniteSet(PrefixesTo(m)) /\ Cardinality(PrefixesTo(m)) = B[m]}
  <1>1. n \in Nat /\ B \in [0 .. n -> Nat] /\ B[0] = 0
        /\ \A m \in 1 .. n : B[m] = B[m - 1] + Len(OneEach[m])
    BY OneEachKnown, BeginAddsUp
  <1>2. 0 \in S
    <2>1. PrefixesTo(0) = {}
      BY DEF PrefixesTo
    <2>2. IsFiniteSet(PrefixesTo(0)) /\ Cardinality(PrefixesTo(0)) = 0
      BY <2>1, FS_EmptySet
    <2>3. 0 \in 0 .. n /\ B[0] = 0
      BY <1>1
    <2> QED BY <2>2, <2>3
  <1>3. ASSUME NEW m \in 0 .. n - 1, m \in S PROVE m + 1 \in S
    <2>1. m \in 0 .. n /\ m + 1 \in 1 .. n /\ (m + 1) - 1 = m /\ m + 1 \in 0 .. n
      BY <1>1
    <2>2. IsFiniteSet(PrefixesTo(m)) /\ Cardinality(PrefixesTo(m)) = B[m] /\ B[m] \in Nat
      BY <1>1, <1>3, <2>1
    <2>3. B[m + 1] = B[m] + Len(OneEach[m + 1])
      BY <1>1, <2>1
    <2>4. \A g : g \in 1 .. m + 1 <=> g \in 1 .. m \/ g = m + 1
      BY <2>1
    <2>5. CASE ~IsExpertKey(T[m + 1])
      <3>1. PrefixesTo(m + 1) = PrefixesTo(m)
        BY <2>4, <2>5 DEF PrefixesTo
      <3>2. Len(OneEach[m + 1]) = 0
        BY <2>1, <2>5, OneEachKnown
      <3>3. B[m + 1] = B[m]
        BY <2>2, <2>3, <3>2
      <3> QED BY <2>1, <2>2, <3>1, <3>3
    <2>6. CASE IsExpertKey(T[m + 1])
      <3> DEFINE x == T[m + 1].key[2]
      <3>1. PrefixesTo(m + 1) = PrefixesTo(m) \cup {x}
        BY <2>4, <2>6 DEF PrefixesTo
      <3>2. x \notin PrefixesTo(m)
        <4> SUFFICES ASSUME NEW g \in 1 .. m, IsExpertKey(T[g]), T[g].key[2] = x PROVE FALSE
          BY DEF PrefixesTo
        <4>1. g \in 1 .. n /\ g # m + 1
          BY <2>1
        <4>2. T[g].key = T[m + 1].key
          BY <2>1, <2>6, <4>1, ExpertKeys
        <4> QED BY <2>1, <4>1, <4>2, TopologySorted DEF Sorted
      <3> HIDE DEF x
      <3>3. Len(OneEach[m + 1]) = 1
        BY <2>1, <2>6, OneEachKnown
      <3>4. IsFiniteSet(PrefixesTo(m + 1)) /\ Cardinality(PrefixesTo(m + 1)) = Cardinality(PrefixesTo(m)) + 1
        BY <2>2, <3>1, <3>2, FS_AddElement
      <3>5. B[m + 1] = Cardinality(PrefixesTo(m + 1))
        BY <2>2, <2>3, <3>3, <3>4
      <3> QED BY <2>1, <3>4, <3>5
    <2> QED BY <2>5, <2>6
  <1> HIDE DEF S
  <1>4. \A m \in 0 .. n : m \in S
    BY <1>1, <1>2, <1>3, UpToBySteps
  <1> QED BY <1>4 DEF S

\* The m-th group of experts is group s, of the block that comes m-th in the model.
ExpertAt(m, s) ==
  /\ s \in 1 .. Len(GetTopology) /\ IsExpertKey(GetTopology[s])
  /\ m \in 1 .. Len(ExpertGroups) /\ ExpertGroups[m] = GetTopology[s]
  /\ m - 1 = BlockOf(GetTopology[s].key[2])

LEMMA ExpertGroupsKnown ==
  ASSUME params \in Models
  PROVE  /\ Len(ExpertGroups) \in Nat
         /\ \A m \in 1 .. Len(ExpertGroups) : \E s : ExpertAt(m, s)
         /\ \A s \in 1 .. Len(GetTopology) : IsExpertKey(GetTopology[s]) => \E m : ExpertAt(m, s)
  <1> DEFINE T == GetTopology
             n == Len(T)
             B == Begin(OneEach)
             E == ExpertGroups
  <1>1. n \in Nat /\ B \in [0 .. n -> Nat]
    BY OneEachKnown, BeginAddsUp
  <1>2. E \in Seq(Groups) /\ Joined(E, OneEach, n)
    BY OneEachKnown, FlattenJoins DEF OneEach, ExpertGroups
  <1>3. Len(E) \in Nat
    <2> HIDE DEF E
    <2> QED BY <1>2
  <1>4. ASSUME NEW s \in 1 .. n, IsExpertKey(T[s]) PROVE ExpertAt(B[s - 1] + 1, s)
    <2>1. s - 1 \in 0 .. n /\ B[s - 1] \in Nat /\ (B[s - 1] + 1) - 1 = B[s - 1]
      <3>1. s - 1 \in 0 .. n
        BY <1>1
      <3>2. B[s - 1] \in Nat
        BY <1>1, <3>1
      <3> HIDE DEF B
      <3> QED BY <3>1, <3>2
    <2>2. 1 \in 1 .. Len(OneEach[s]) /\ OneEach[s][1] = T[s]
      BY <1>4, OneEachKnown
    <2>3. B[s - 1] + 1 \in 1 .. Len(E) /\ E[B[s - 1] + 1] = T[s]
      BY <1>2, <2>2 DEF Joined
    <2>4. B[s - 1] = BlockOf(T[s].key[2])
      BY <1>4, <2>1, BlocksBefore, PrefixesCounted
    <2> HIDE DEF B
    <2> QED BY <1>4, <2>1, <2>3, <2>4 DEF ExpertAt
  <1>5. ASSUME NEW m \in 1 .. Len(E) PROVE \E s : ExpertAt(m, s)
    <2>1. PICK s \in 1 .. n : \E j \in 1 .. Len(OneEach[s]) : m = B[s - 1] + j
      BY <1>2 DEF Joined
    <2>2. PICK j \in 1 .. Len(OneEach[s]) : m = B[s - 1] + j
      BY <2>1
    <2>3. IsExpertKey(T[s]) /\ j = 1
      <3>1. CASE IsExpertKey(T[s])
        <4>1. j \in 1 .. 1
          BY <3>1, OneEachKnown
        <4> QED BY <3>1, <4>1
      <3>2. CASE ~IsExpertKey(T[s])
        <4>1. j \in 1 .. 0
          BY <3>2, OneEachKnown
        <4> QED BY <4>1
      <3> QED BY <3>1, <3>2
    <2> QED BY <1>4, <2>2, <2>3
  <1> QED BY <1>3, <1>4, <1>5

-----------------------------------------------------------------------------
(* What the hooks rely on.                                                 *)

Own(m) == Range(ParamsOf(m))

\* The dense nodes are the groups of dense parameters, one of each layer, and the
\* parameters of a module are of one of them; the first module is of the first layer.
LEMMA DenseNodesKnown ==
  ASSUME params \in Models, stages = StagesOf(GetTopology)
  PROVE  /\ \A t \in DenseIds : /\ NodeOf(t) \in Nat /\ t \in TensorsOf(NodeOf(t))
                                /\ TensorsOf(NodeOf(t)) \subseteq DenseIds
         /\ \A t, u \in DenseIds : u \in TensorsOf(NodeOf(t)) => NodeOf(u) = NodeOf(t)
         /\ \A t, u \in DenseIds : LayerOf(NodeOf(u)) = LayerOf(NodeOf(t)) => NodeOf(u) = NodeOf(t)
         /\ \A i, j \in 1 .. Len(params) :
              /\ params[i].expert = None /\ params[j].expert = None
              /\ params[i].module = params[j].module
              => NodeOf(params[i].id) = NodeOf(params[j].id)
         /\ 1 <= Len(params) => LayerOf(NodeOf(params[1].id)) = 0
  <1> DEFINE OnlyAt(t, s) ==
               /\ s \in Nat /\ ListedAt(t, s, 1)
               /\ NodeOf(t) \in Nat /\ LayerOf(NodeOf(t)) = s - 1
               /\ \A u : u \in TensorsOf(NodeOf(t)) <=> ListedAt(u, s, 1)
               /\ NodeOf(t) = FirstIds[s - 1] + 1 - 1
               /\ \A v : ListedAt(v, s, 1) => v \in DenseIds
  <1>1. DOMAIN params = 1 .. Len(params)
    BY ParamsKnown
  <1>2. ASSUME NEW t \in DenseIds PROVE \E s : OnlyAt(t, s)
    <2>1. PICK i \in 1 .. Len(params) : params[i].id = t
      BY <1>1 DEF DenseIds
    <2>2. PICK s, j : ListedAt(t, s, j)
      BY <2>1, AllListed
    <2>3. j = 1 /\ Len(GetTopology[s].lists) = 1
      BY <2>2, DenseGroups
    <2>4. \A u : ListedAt(u, s, 1) => u \in DenseIds
      BY <2>3, DenseGroups
    <2>5. s \in Nat
      BY <2>2, StagesKnown DEF ListedAt
    <2>6. /\ NodeOf(t) \in Nat /\ LayerOf(NodeOf(t)) = s - 1
          /\ NodeOf(t) = FirstIds[s - 1] + 1 - 1
          /\ \A u : u \in TensorsOf(NodeOf(t)) <=> ListedAt(u, s, 1)
      BY <2>2, <2>3, NodeKnown
    <2>7. OnlyAt(t, s)
      BY <2>2, <2>3, <2>4, <2>5, <2>6
    <2> QED BY <2>7
  <1> HIDE DEF OnlyAt
  <1>3. ASSUME NEW t \in DenseIds
        PROVE  /\ NodeOf(t) \in Nat /\ t \in TensorsOf(NodeOf(t))
               /\ TensorsOf(NodeOf(t)) \subseteq DenseIds
    <2>1. PICK s : OnlyAt(t, s)
      BY <1>2
    <2> QED BY <2>1 DEF OnlyAt
  <1>4. ASSUME NEW t \in DenseIds, NEW u \in DenseIds, u \in TensorsOf(NodeOf(t))
        PROVE  NodeOf(u) = NodeOf(t)
    <2>1. PICK s : OnlyAt(t, s)
      BY <1>2
    <2>2. PICK g : OnlyAt(u, g)
      BY <1>2
    <2>3. ListedAt(u, s, 1) /\ ListedAt(u, g, 1)
      BY <1>4, <2>1, <2>2 DEF OnlyAt
    <2>4. s = g
      BY <2>3, ListedOnce
    <2> QED BY <2>1, <2>2, <2>4 DEF OnlyAt
  <1>5. ASSUME NEW t \in DenseIds, NEW u \in DenseIds, LayerOf(NodeOf(u)) = LayerOf(NodeOf(t))
        PROVE  NodeOf(u) = NodeOf(t)
    <2>1. PICK s : OnlyAt(t, s)
      BY <1>2
    <2>2. PICK g : OnlyAt(u, g)
      BY <1>2
    <2>3. s = g
      BY <1>5, <2>1, <2>2 DEF OnlyAt
    <2> QED BY <2>1, <2>2, <2>3 DEF OnlyAt
  <1>6. ASSUME NEW i \in 1 .. Len(params), NEW j \in 1 .. Len(params),
               params[i].expert = None, params[j].expert = None, KeyOf(params[i]) = KeyOf(params[j])
        PROVE  \E s \in Nat : /\ ListedAt(params[i].id, s, 1) /\ ListedAt(params[j].id, s, 1)
                              /\ GetTopology[s].key = KeyOf(params[i])
    <2> DEFINE t == params[i].id
               u == params[j].id
    <2>1. t \in DenseIds /\ u \in DenseIds
      BY <1>1, <1>6 DEF DenseIds
    <2>2. t = params[i].id /\ u = params[j].id
      OBVIOUS
    <2> HIDE DEF t, u
    <2>a. PICK s : OnlyAt(t, s)
      BY <1>2, <2>1
    <2>b. PICK g : OnlyAt(u, g)
      BY <1>2, <2>1
    <2>3. s \in Nat /\ ListedAt(t, s, 1)
      BY <2>a DEF OnlyAt
    <2>4. g \in Nat /\ ListedAt(u, g, 1)
      BY <2>b DEF OnlyAt
    <2>5. PICK k \in 1 .. Len(params) : params[k].id = t /\ KeyOf(params[k]) = GetTopology[s].key
      BY <2>3, AllListed
    <2>6. PICK l \in 1 .. Len(params) : params[l].id = u /\ KeyOf(params[l]) = GetTopology[g].key
      BY <2>4, AllListed
    <2>7. k = i /\ l = j
      BY <2>2, <2>5, <2>6, ParamsKnown
    <2>8. s = g
      BY <1>6, <2>3, <2>4, <2>5, <2>6, <2>7, TopologySorted DEF Sorted, ListedAt
    <2> QED BY <2>2, <2>3, <2>4, <2>5, <2>7, <2>8
  <1>7. ASSUME NEW i \in 1 .. Len(params), NEW j \in 1 .. Len(params),
               params[i].expert = None, params[j].expert = None, params[i].module = params[j].module
        PROVE  NodeOf(params[i].id) = NodeOf(params[j].id)
    <2>1. KeyOf(params[i]) = KeyOf(params[j])
      BY <1>7, NamesKnown DEF KeyOf
    <2>2. PICK s \in Nat : ListedAt(params[i].id, s, 1) /\ ListedAt(params[j].id, s, 1)
      BY <1>6, <1>7, <2>1
    <2>3. NodeOf(params[i].id) = FirstIds[s - 1] + 1 - 1
      BY <2>2, NodeKnown
    <2>4. NodeOf(params[j].id) = FirstIds[s - 1] + 1 - 1
      BY <2>2, NodeKnown
    <2> QED BY <2>3, <2>4
  <1>8. ASSUME 1 <= Len(params) PROVE LayerOf(NodeOf(params[1].id)) = 0
    <2>1. 1 \in 1 .. Len(params) /\ params[1].expert = None
      BY <1>8, ParamsKnown, NamesKnown
    <2>2. PICK s \in Nat : ListedAt(params[1].id, s, 1) /\ GetTopology[s].key = KeyOf(params[1])
      BY <1>6, <2>1
    <2>3. Len(GetTopology) >= 1 /\ GetTopology[1].key = KeyOf(params[1])
      BY <1>8, TopologySorted, ParamsKnown DEF Sorted
    <2>4. 1 \in 1 .. Len(GetTopology)
      BY <2>3, StagesKnown
    <2>5. s = 1
      BY <2>2, <2>3, <2>4, TopologySorted DEF Sorted, ListedAt
    <2>6. LayerOf(NodeOf(params[1].id)) = s - 1
      BY <2>2, NodeKnown
    <2> QED BY <2>5, <2>6
  <1> QED BY <1>3, <1>4, <1>5, <1>7, <1>8

\* The parameters of a module, in the order of the model.
LEMMA OwnKnown ==
  ASSUME params \in Models, NEW m
  PROVE  /\ ParamsOf(m) \in Seq(DenseIds)
         /\ \A k, l \in 1 .. Len(ParamsOf(m)) : ParamsOf(m)[k] = ParamsOf(m)[l] => k = l
         /\ \A t : t \in Own(m) <=>
              \E i \in 1 .. Len(params) :
                params[i].id = t /\ params[i].module = m /\ params[i].expert = None
  <1> DEFINE n == Len(params)
             Is(i) == params[i].module = m /\ params[i].expert = None
             q == [i \in DOMAIN params |-> IF Is(i) THEN <<params[i].id>> ELSE <<>>]
             r == ParamsOf(m)
  <1>1. n \in Nat /\ DOMAIN params = 1 .. n
    BY ParamsKnown
  <1>2. \A i \in 1 .. n : /\ q[i] \in Seq(DenseIds)
                          /\ Is(i) => Len(q[i]) = 1 /\ q[i][1] = params[i].id
                          /\ ~Is(i) => Len(q[i]) = 0
    <2> TAKE i \in 1 .. n
    <2>1. q[i] = IF Is(i) THEN <<params[i].id>> ELSE <<>>
      BY <1>1
    <2> HIDE DEF q
    <2>2. CASE Is(i)
      <3>1. params[i].id \in DenseIds /\ q[i] = <<params[i].id>>
        BY <1>1, <2>1, <2>2 DEF DenseIds
      <3> HIDE DEF Is
      <3> QED BY <2>2, <3>1
    <2>3. CASE ~Is(i)
      <3>1. q[i] = <<>>
        BY <2>1, <2>3
      <3> HIDE DEF Is
      <3> QED BY <2>3, <3>1
    <2> QED BY <2>2, <2>3
  <1>3. q \in [1 .. n -> Seq(DenseIds)] /\ r = FlattenSeq(q)
    BY <1>1, <1>2 DEF ParamsOf
  <1> HIDE DEF q, r
  <1>4. q \in Seq(Seq(DenseIds)) /\ Len(q) = n
    <2>1. ASSUME NEW k \in Nat, NEW S, NEW v \in [1 .. k -> S] PROVE v \in Seq(S) /\ Len(v) = k
      BY SeqDef
    <2> QED BY <1>1, <1>3, <2>1
  <1>5. r \in Seq(DenseIds) /\ Joined(r, q, n)
    BY <1>3, <1>4, FlattenJoins
  <1> HIDE DEF Is
  <1>6. ASSUME NEW k \in 1 .. Len(r)
        PROVE  \E i \in 1 .. n : Is(i) /\ r[k] = params[i].id /\ k = Begin(q)[i - 1] + 1
    <2>1. PICK i \in 1 .. n : \E j \in 1 .. Len(q[i]) : k = Begin(q)[i - 1] + j
      BY <1>5 DEF Joined
    <2>2. PICK j \in 1 .. Len(q[i]) : k = Begin(q)[i - 1] + j
      BY <2>1
    <2>3. Is(i) /\ j = 1
      <3>1. CASE Is(i)
        <4>1. j \in 1 .. 1
          BY <1>2, <3>1
        <4> QED BY <3>1, <4>1
      <3>2. CASE ~Is(i)
        <4>1. j \in 1 .. 0
          BY <1>2, <3>2
        <4> QED BY <4>1
      <3> QED BY <3>1, <3>2
    <2>4. r[Begin(q)[i - 1] + j] = q[i][j]
      BY <1>5 DEF Joined
    <2> QED BY <1>2, <2>2, <2>3, <2>4
  <1>7. ASSUME NEW i \in 1 .. n, Is(i)
        PROVE  \E k \in 1 .. Len(r) : r[k] = params[i].id
    <2>1. 1 \in 1 .. Len(q[i]) /\ q[i][1] = params[i].id
      BY <1>2, <1>7
    <2>2. Begin(q)[i - 1] + 1 \in 1 .. Len(r) /\ r[Begin(q)[i - 1] + 1] = q[i][1]
      BY <1>5, <2>1 DEF Joined
    <2> QED BY <2>1, <2>2
  <1>8. ASSUME NEW k \in 1 .. Len(r), NEW l \in 1 .. Len(r), r[k] = r[l]
        PROVE  k = l
    <2>1. PICK i \in 1 .. n : r[k] = params[i].id /\ k = Begin(q)[i - 1] + 1
      BY <1>6
    <2>2. PICK j \in 1 .. n : r[l] = params[j].id /\ l = Begin(q)[j - 1] + 1
      BY <1>6
    <2>3. i = j
      BY <1>8, <2>1, <2>2, ParamsKnown
    <2> QED BY <2>1, <2>2, <2>3
  <1>9. \A t : t \in Range(r) <=> \E i \in 1 .. n : params[i].id = t /\ Is(i)
    <2>1. DOMAIN r = 1 .. Len(r)
      BY <1>5
    <2> QED BY <1>6, <1>7, <2>1 DEF Range
  <1> QED BY <1>5, <1>8, <1>9 DEF r, Is, Own

-----------------------------------------------------------------------------
(* The steps that lead there.                                              *)

\* Whatever is read off the parameters or the stages changes only with them.
LEMMA SameParams ==
  ASSUME params' = params
  PROVE  /\ GetTopology' = GetTopology /\ StagesOf(GetTopology)' = StagesOf(GetTopology)
         /\ \A t : SizeOf(t)' = SizeOf(t)
         /\ \A m : ParamsOf(m)' = ParamsOf(m) /\ Own(m)' = Own(m)
         /\ Modules' = Modules /\ ParamIds' = ParamIds /\ DenseIds' = DenseIds
         /\ \A ids : Sums(Sizes(ids))' = Sums(Sizes(ids))
         /\ ExpertGroups' = ExpertGroups
  <1>1. GetTopology' = GetTopology
    BY DEF GetTopology
  <1>2. ASSUME NEW t PROVE SizeOf(t)' = SizeOf(t)
    BY DEF SizeOf, SelectInSeq
  <1>3. ASSUME NEW ids PROVE Sizes(ids)' = Sizes(ids)
    BY <1>2 DEF Sizes
  <1>4. ASSUME NEW ids PROVE Sums(Sizes(ids))' = Sums(Sizes(ids)) /\ Bytes(ids)' = Bytes(ids)
    BY <1>3 DEF Bytes
  <1>5. StagesOf(GetTopology)' = StagesOf(GetTopology)
    BY <1>1, <1>4 DEF StagesOf, NodesOf
  <1>6. ASSUME NEW m PROVE ParamsOf(m)' = ParamsOf(m) /\ Own(m)' = Own(m)
    <2>1. ParamsOf(m)' = ParamsOf(m)
      BY DEF ParamsOf
    <2> QED BY <2>1 DEF Own
  <1>7. Modules' = Modules /\ ParamIds' = ParamIds /\ DenseIds' = DenseIds
    BY DEF Modules, ParamIds, DenseIds
  <1>8. ExpertGroups' = ExpertGroups
    BY <1>1 DEF ExpertGroups
  <1> QED BY <1>1, <1>2, <1>4, <1>5, <1>6, <1>7, <1>8

LEMMA SameStages ==
  ASSUME stages' = stages
  PROVE  /\ AllNodes' = AllNodes /\ GetDenseNodes' = GetDenseNodes
         /\ GetDenseNodesTotalSize' = GetDenseNodesTotalSize
         /\ \A t : NodeOf(t)' = NodeOf(t)
         /\ \A n : LayerOf(n)' = LayerOf(n) /\ TensorsOf(n)' = TensorsOf(n)
  <1>1. AllNodes' = AllNodes
    BY DEF AllNodes
  <1>2. GetDenseNodes' = GetDenseNodes
    BY DEF GetDenseNodes, NodesWith
  <1>3. GetDenseNodesTotalSize' = GetDenseNodesTotalSize
    BY <1>2 DEF GetDenseNodesTotalSize
  <1>4. ASSUME NEW t PROVE NodeOf(t)' = NodeOf(t)
    BY <1>1 DEF NodeOf, GetNodeFromTensorID, SelectInSeq
  <1>5. ASSUME NEW n PROVE LayerOf(n)' = LayerOf(n) /\ TensorsOf(n)' = TensorsOf(n)
    BY <1>1 DEF LayerOf, TensorsOf
  <1> QED BY <1>1, <1>2, <1>3, <1>4, <1>5

Built ==
  /\ params \in Models /\ next \in Nat \ {0}
  /\ topoAt \in {"register", "pool", "pin", "experts", "ready"}
  /\ topoAt = "register" => next <= Len(params) + 1
  /\ topoAt # "register" => stages = StagesOf(GetTopology)

LEMMA BuiltInit == Init => Built
  BY ParamsKnown DEF Init, TopologyInit, Built

LEMMA HooksBuildNothing ==
  Hook => UNCHANGED builtVars
  BY DEF Hook, Enter, AcquireFirst, StartExec, AcquireMore, Forward, Release, Return

LEMMA BuiltStep ==
  ASSUME Built, [Next]_vars
  PROVE  Built' /\ params' = params
  <1> USE DEF Built
  <1>1. params' = params
    BY Zenon, HooksBuildNothing DEF Next, vars, topologyVars, builtVars, TopologyNext, RegisterTensor,
      BuildStages, SetUpDensePool, PinDense, SparseToDisk, RegisterExperts, Ready
  <1>2. Len(params) \in Nat
    BY ParamsKnown
  <1>3. StagesOf(GetTopology)' = StagesOf(GetTopology)
    BY <1>1, SameParams
  <1>4. CASE RegisterTensor
    BY <1>1, <1>2, <1>4 DEF RegisterTensor
  <1>5. CASE BuildStages
    BY <1>1, <1>3, <1>5 DEF BuildStages
  <1>6. CASE SetUpDensePool
    BY <1>1, <1>3, <1>6 DEF SetUpDensePool
  <1>7. CASE PinDense
    BY <1>1, <1>3, <1>7 DEF PinDense
  <1>8. CASE SparseToDisk
    BY <1>1, <1>3, <1>8 DEF SparseToDisk
  <1>9. CASE RegisterExperts
    BY <1>1, <1>3, <1>9 DEF RegisterExperts
  <1>10. CASE Ready
    BY <1>1, <1>3, <1>10 DEF Ready
  <1>11. CASE UNCHANGED builtVars
    BY <1>1, <1>3, <1>11 DEF builtVars
  <1> QED BY Zenon, <1>4, <1>5, <1>6, <1>7, <1>8, <1>9, <1>10, <1>11, HooksBuildNothing
          DEF Next, TopologyNext, vars, topologyVars, builtVars

-----------------------------------------------------------------------------
(* The dense pool.                                                         *)

\* What a running sum has passed on its way.
LEMMA SumsGrow ==
  ASSUME NEW w \in Seq(Nat)
  PROVE  /\ \A i, j \in 0 .. Len(w) : i <= j => Sums(w)[i] <= Sums(w)[j]
         /\ \A b \in 0 .. Sums(w)[Len(w)] - 1 : \E i \in 1 .. Len(w) :
              Sums(w)[i - 1] <= b /\ b < Sums(w)[i]
  <1> DEFINE n == Len(w)
             f == Sums(w)
  <1>1. n \in Nat /\ f[0] = 0 /\ \A i \in 1 .. n : w[i] \in Nat /\ f[i] = f[i - 1] + w[i]
    BY SumsAddUp
  <1>2. \A i \in 0 .. n : f[i] \in Nat
    BY SumsAddUp
  <1> HIDE DEF n, f
  <1>3. \A i \in 0 .. n - 1 : f[i + 1] = f[i] + w[i + 1] /\ f[i] <= f[i + 1]
    <2> TAKE i \in 0 .. n - 1
    <2>1. i + 1 \in 1 .. n /\ (i + 1) - 1 = i /\ i \in 0 .. n /\ i + 1 \in 0 .. n
      BY <1>1
    <2>2. f[i + 1] = f[i] + w[i + 1] /\ w[i + 1] \in Nat /\ f[i] \in Nat
      BY <1>1, <1>2, <2>1
    <2> QED BY <2>2
  <1>4. ASSUME NEW i \in 0 .. n, NEW j \in 0 .. n, i <= j PROVE f[i] <= f[j]
    <2> DEFINE S == {m \in 0 .. n : i <= m => f[i] <= f[m]}
    <2>1. 0 \in S
      BY <1>1, <1>2
    <2>2. ASSUME NEW m \in 0 .. n - 1, m \in S PROVE m + 1 \in S
      <3>1. m \in 0 .. n /\ m + 1 \in 0 .. n /\ (i <= m => f[i] <= f[m])
        BY <1>1, <2>2
      <3>2. f[m] \in Nat /\ f[m + 1] \in Nat /\ f[i] \in Nat /\ f[m] <= f[m + 1]
        BY <1>2, <1>3, <3>1
      <3>3. i <= m + 1 => i <= m \/ i = m + 1
        BY <1>1
      <3> QED BY <3>1, <3>2, <3>3
    <2> HIDE DEF S
    <2>3. j \in S
      BY <1>1, <2>1, <2>2, UpToBySteps
    <2> QED BY <1>4, <2>3 DEF S
  <1>5. ASSUME NEW b \in 0 .. f[n] - 1
        PROVE  \E i \in 1 .. n : f[i - 1] <= b /\ b < f[i]
    <2> DEFINE S == {m \in 0 .. n : b < f[m] => \E i \in 1 .. n : f[i - 1] <= b /\ b < f[i]}
    <2>0. n \in 0 .. n /\ f[n] \in Nat
      BY <1>1, <1>2
    <2>1. 0 \in S
      BY <1>1, <2>0
    <2>2. ASSUME NEW m \in 0 .. n - 1, m \in S PROVE m + 1 \in S
      <3>1. m \in 0 .. n /\ m + 1 \in 0 .. n /\ m + 1 \in 1 .. n /\ (m + 1) - 1 = m
        BY <1>1, <2>2
      <3>2. f[m] \in Nat /\ f[m + 1] \in Nat
        BY <1>2, <3>1
      <3>3. CASE b < f[m]
        BY <2>2, <3>1, <3>3
      <3>4. CASE ~(b < f[m])
        <4>1. f[m] <= b
          BY <2>0, <3>2, <3>4
        <4>2. b < f[m + 1] => f[(m + 1) - 1] <= b /\ b < f[m + 1]
          BY <3>1, <4>1
        <4> QED BY <3>1, <4>2
      <3> QED BY <3>3, <3>4
    <2> HIDE DEF S
    <2>3. n \in S
      BY <1>1, <2>0, <2>1, <2>2, UpToBySteps
    <2>4. b < f[n]
      BY <2>0
    <2> QED BY <2>3, <2>4 DEF S
  <1> QED BY <1>4, <1>5 DEF n, f

\* The nodes of the dense pool: each parameter of no expert is in one of them, once.
LEMMA DensePoolNodes ==
  ASSUME params \in Models, stages = StagesOf(GetTopology)
  PROVE  /\ GetDenseNodes \in Seq(NodeSet)
         /\ \A d \in 1 .. Len(GetDenseNodes) :
              /\ GetDenseNodes[d].tensors \in Seq(DenseIds)
              /\ GetDenseNodes[d].tensors \in Seq(ParamIds)
              /\ GetDenseNodes[d].size = Bytes(GetDenseNodes[d].tensors)
              /\ \A x, y \in 1 .. Len(GetDenseNodes[d].tensors) :
                   GetDenseNodes[d].tensors[x] = GetDenseNodes[d].tensors[y] => x = y
         /\ \A d, e \in 1 .. Len(GetDenseNodes) : \A t :
              t \in Range(GetDenseNodes[d].tensors) /\ t \in Range(GetDenseNodes[e].tensors) => d = e
         /\ \A t \in DenseIds : \E d \in 1 .. Len(GetDenseNodes) : t \in Range(GetDenseNodes[d].tensors)
  <1> DEFINE n == Len(GetTopology)
             q == [s \in DOMAIN stages |->
                     IF stages[s].sparse = FALSE THEN stages[s].nodes ELSE <<>>]
             r == GetDenseNodes
             One(s) == Len(GetTopology[s].lists) = 1
             Of(d, s) == /\ s \in 1 .. n /\ One(s) /\ d = Begin(q)[s - 1] + 1
                         /\ r[d] = stages[s].nodes[1]
  <1>1. /\ n \in Nat /\ DOMAIN stages = 1 .. n
        /\ \A s \in 1 .. n : /\ stages[s].nodes \in Seq(NodeSet)
                             /\ Len(stages[s].nodes) = Len(GetTopology[s].lists)
                             /\ (stages[s].sparse = FALSE) <=> One(s)
    <2>1. n \in Nat /\ DOMAIN stages = 1 .. n
      BY StagesKnown
    <2>2. ASSUME NEW s \in 1 .. n
          PROVE  /\ stages[s].nodes \in Seq(NodeSet)
                 /\ Len(stages[s].nodes) = Len(GetTopology[s].lists)
                 /\ (stages[s].sparse = FALSE) <=> One(s)
      <3>1. GroupOk(GetTopology[s], Len(params))
        BY TopologySorted DEF Sorted
      <3>a. \A e \in Nat : e >= 1 => e = 1 \/ e > 1
        OBVIOUS
      <3>2. PICK e \in Nat : e = Len(GetTopology[s].lists) /\ (e = 1 \/ e > 1)
        BY <3>1, <3>a, StagesKnown DEF GroupOk
      <3>3. stages[s].sparse = (e > 1)
        BY <3>2, StagesKnown
      <3>4. (stages[s].sparse = FALSE) <=> (e = 1)
        <4>1. CASE e = 1
          <5>1. (e > 1) = FALSE
            BY <4>1
          <5> QED BY <3>3, <4>1, <5>1
        <4>2. CASE e # 1
          <5>1. e > 1
            BY <3>2, <4>2
          <5> QED BY <3>3, <4>2, <5>1
        <4> QED BY <4>1, <4>2
      <3> QED BY <3>2, <3>4, StagesKnown
    <2> QED BY <2>1, <2>2
  <1> HIDE DEF One
  <1>2. \A s \in 1 .. n : /\ q[s] \in Seq(NodeSet)
                          /\ One(s) => q[s] = stages[s].nodes /\ Len(q[s]) = 1
                          /\ ~One(s) => Len(q[s]) = 0
    <2> TAKE s \in 1 .. n
    <2>1. q[s] = IF One(s) THEN stages[s].nodes ELSE <<>>
      BY <1>1
    <2> HIDE DEF q
    <2>2. CASE One(s)
      BY <1>1, <2>1, <2>2 DEF One
    <2>3. CASE ~One(s)
      <3>1. q[s] = <<>>
        BY <2>1, <2>3
      <3> QED BY <2>3, <3>1
    <2> QED BY <2>2, <2>3
  <1>3. q \in [1 .. n -> Seq(NodeSet)] /\ r = FlattenSeq(q)
    BY <1>1, <1>2 DEF GetDenseNodes, NodesWith
  <1> HIDE DEF q, r
  <1>4. q \in Seq(Seq(NodeSet)) /\ Len(q) = n
    <2>1. ASSUME NEW m \in Nat, NEW S, NEW v \in [1 .. m -> S] PROVE v \in Seq(S) /\ Len(v) = m
      BY SeqDef
    <2> QED BY <1>1, <1>3, <2>1
  <1>5. r \in Seq(NodeSet) /\ Joined(r, q, n)
    BY <1>3, <1>4, FlattenJoins
  <1>6. ASSUME NEW s \in 1 .. n, One(s)
        PROVE  Begin(q)[s - 1] + 1 \in 1 .. Len(r) /\ Of(Begin(q)[s - 1] + 1, s)
    <2>1. 1 \in 1 .. Len(q[s]) /\ q[s][1] = stages[s].nodes[1]
      BY <1>2, <1>6
    <2>2. Begin(q)[s - 1] + 1 \in 1 .. Len(r) /\ r[Begin(q)[s - 1] + 1] = q[s][1]
      BY <1>5, <2>1 DEF Joined
    <2> QED BY <1>6, <2>1, <2>2
  <1>7. ASSUME NEW d \in 1 .. Len(r) PROVE \E s : Of(d, s)
    <2>1. PICK s \in 1 .. n : \E j \in 1 .. Len(q[s]) : d = Begin(q)[s - 1] + j
      BY <1>5 DEF Joined
    <2>2. PICK j \in 1 .. Len(q[s]) : d = Begin(q)[s - 1] + j
      BY <2>1
    <2>3. One(s) /\ j = 1
      <3>1. CASE One(s)
        <4>1. j \in 1 .. 1
          BY <1>2, <3>1
        <4> QED BY <3>1, <4>1
      <3>2. CASE ~One(s)
        <4>1. j \in 1 .. 0
          BY <1>2, <3>2
        <4> QED BY <4>1
      <3> QED BY <3>1, <3>2
    <2>4. Of(d, s)
      BY <1>6, <2>2, <2>3
    <2> QED BY <2>4
  <1>8. ASSUME NEW d, NEW s, Of(d, s)
        PROVE  /\ r[d].size = Bytes(r[d].tensors) /\ r[d].tensors \in Seq(ParamIds)
               /\ \A x, y \in 1 .. Len(r[d].tensors) : r[d].tensors[x] = r[d].tensors[y] => x = y
               /\ \A t : t \in Range(r[d].tensors) <=> ListedAt(t, s, 1)
    <2>1. s \in 1 .. n /\ 1 \in 1 .. Len(GetTopology[s].lists) /\ r[d] = stages[s].nodes[1]
      BY <1>8 DEF One
    <2> DEFINE b == GetTopology[s].lists[1]
    <2>2. r[d].tensors = b.tensors /\ r[d].size = Bytes(b.tensors)
      BY <2>1, StagesKnown
    <2>3. GroupOk(GetTopology[s], Len(params))
      BY <2>1, TopologySorted DEF Sorted
    <2>4. ListOk(b, GetTopology[s].key, Len(params))
      BY <2>1, <2>3 DEF GroupOk
    <2>5. \A t : ListedAt(t, s, 1) <=> \E x \in 1 .. Len(b.tensors) : b.tensors[x] = t
      BY <2>1 DEF ListedAt
    <2> HIDE DEF b
    <2>6. b.tensors \in Seq(ParamIds) /\ \A x, y \in 1 .. Len(b.tensors) : b.tensors[x] = b.tensors[y] => x = y
      BY <2>4 DEF ListOk, Lists
    <2>7. DOMAIN b.tensors = 1 .. Len(b.tensors)
      BY <2>6
    <2> QED BY <2>2, <2>5, <2>6, <2>7 DEF Range
  <1>9. ASSUME NEW d \in 1 .. Len(r)
        PROVE  /\ r[d].tensors \in Seq(DenseIds) /\ r[d].tensors \in Seq(ParamIds)
               /\ r[d].size = Bytes(r[d].tensors)
               /\ \A x, y \in 1 .. Len(r[d].tensors) : r[d].tensors[x] = r[d].tensors[y] => x = y
    <2>1. PICK s : Of(d, s)
      BY <1>7
    <2> DEFINE v == r[d].tensors
    <2>2. v \in Seq(ParamIds) /\ \A t : t \in Range(v) <=> ListedAt(t, s, 1)
      BY <1>8, <2>1
    <2>3. \A t : ListedAt(t, s, 1) => t \in DenseIds
      BY <2>1, DenseGroups DEF One
    <2> HIDE DEF v
    <2>4. Range(v) \subseteq DenseIds
      BY <2>2, <2>3
    <2>5. v \in Seq(DenseIds)
      <3>1. Len(v) \in Nat /\ v \in [1 .. Len(v) -> ParamIds]
        BY <2>2
      <3>2. v \in [1 .. Len(v) -> DenseIds]
        BY <2>4, <3>1 DEF Range
      <3>3. ASSUME NEW m \in Nat, NEW S, NEW z \in [1 .. m -> S] PROVE z \in Seq(S) /\ Len(z) = m
        BY SeqDef
      <3> QED BY <3>1, <3>2, <3>3
    <2> QED BY <1>8, <2>1, <2>5 DEF v
  <1>10. ASSUME NEW d \in 1 .. Len(r), NEW e \in 1 .. Len(r), NEW t,
                t \in Range(r[d].tensors), t \in Range(r[e].tensors)
         PROVE  d = e
    <2>1. PICK s : Of(d, s)
      BY <1>7
    <2>2. PICK g : Of(e, g)
      BY <1>7
    <2>3. ListedAt(t, s, 1) /\ ListedAt(t, g, 1)
      BY <1>8, <1>10, <2>1, <2>2
    <2>4. s = g
      BY <2>3, ListedOnce
    <2> QED BY <2>1, <2>2, <2>4
  <1>11. ASSUME NEW t \in DenseIds PROVE \E d \in 1 .. Len(r) : t \in Range(r[d].tensors)
    <2>1. PICK i \in 1 .. Len(params) : params[i].id = t
      BY ParamsKnown DEF DenseIds
    <2>2. PICK s, j : ListedAt(t, s, j)
      BY <2>1, AllListed
    <2>3. j = 1 /\ One(s) /\ s \in 1 .. n
      <3>1. Len(GetTopology[s].lists) = 1 /\ j = 1
        BY <2>2, DenseGroups
      <3> QED BY <2>2, <3>1 DEF One, ListedAt
    <2>4. PICK d \in 1 .. Len(r) : Of(d, s)
      BY <1>6, <2>3
    <2> QED BY <1>8, <2>2, <2>3, <2>4
  <1> QED BY <1>5, <1>9, <1>10, <1>11 DEF r

\* The tensors of the first d dense nodes.
Pinned(d) == UNION {Range(GetDenseNodes[i].tensors) : i \in 1 .. d}
DenseSizes == [i \in DOMAIN GetDenseNodes |-> GetDenseNodes[i].size]

\* They are one behind the other, without a gap.
Packed(pl, used, d) ==
  /\ DOMAIN pl = Pinned(d)
  /\ used = Sums(DenseSizes)[d]
  /\ \A t \in Pinned(d) : pl[t] \in Nat /\ pl[t] + SizeOf(t) <= used
  /\ \A t, u \in Pinned(d) : t # u => pl[t] + SizeOf(t) <= pl[u] \/ pl[u] + SizeOf(u) <= pl[t]
  /\ \A b \in 0 .. used - 1 : \E t \in Pinned(d) : pl[t] <= b /\ b < pl[t] + SizeOf(t)

LEMMA DenseSizesAddUp ==
  ASSUME params \in Models, stages = StagesOf(GetTopology)
  PROVE  /\ Len(GetDenseNodes) \in Nat /\ DOMAIN GetDenseNodes = 1 .. Len(GetDenseNodes)
         /\ Sums(DenseSizes) \in [0 .. Len(GetDenseNodes) -> Nat] /\ Sums(DenseSizes)[0] = 0
         /\ \A d \in 1 .. Len(GetDenseNodes) :
              Sums(DenseSizes)[d] = Sums(DenseSizes)[d - 1] + GetDenseNodes[d].size
         /\ GetDenseNodesTotalSize = Sums(DenseSizes)[Len(GetDenseNodes)]
  <1> DEFINE n == Len(GetDenseNodes)
             w == DenseSizes
  <1>1. n \in Nat /\ DOMAIN GetDenseNodes = 1 .. n
    BY DensePoolNodes
  <1>2. \A d \in 1 .. n : GetDenseNodes[d].size \in Nat
    <2> TAKE d \in 1 .. n
    <2>1. GetDenseNodes[d] \in NodeSet
      BY DensePoolNodes
    <2> QED BY <2>1 DEF NodeSet
  <1>3. w \in [1 .. n -> Nat] /\ \A d \in 1 .. n : w[d] = GetDenseNodes[d].size
    BY <1>1, <1>2 DEF DenseSizes
  <1>4. GetDenseNodesTotalSize = SumOf(w)
    BY DEF GetDenseNodesTotalSize, DenseSizes
  <1> HIDE DEF w
  <1>5. w \in Seq(Nat) /\ Len(w) = n
    <2>1. ASSUME NEW m \in Nat, NEW v \in [1 .. m -> Nat] PROVE v \in Seq(Nat) /\ Len(v) = m
      BY SeqDef
    <2> QED BY <1>1, <1>3, <2>1
  <1>6. /\ Sums(w) \in [0 .. Len(w) -> Nat] /\ Sums(w)[0] = 0
        /\ \A i \in 1 .. Len(w) : Sums(w)[i] = Sums(w)[i - 1] + w[i]
    BY <1>5, SumsAddUp
  <1> QED BY <1>1, <1>3, <1>4, <1>5, <1>6 DEF SumOf, w

\* Where the tensors of a node begin in it.
LEMMA StartsKnown ==
  ASSUME params \in Models, NEW v \in Seq(ParamIds),
         \A x, y \in 1 .. Len(v) : v[x] = v[y] => x = y,
         NEW node, node.tensors = v, NEW x \in 1 .. Len(v)
  PROVE  StartIn(node, v[x]) = Sums(Sizes(v))[x - 1]
  <1> DEFINE I == {i \in 1 .. Len(v) : v[i] = v[x]}
  <1>1. I = {x} /\ Len(v) \in Nat /\ DOMAIN v = 1 .. Len(v)
    OBVIOUS
  <1>2. SelectInSeq(v, LAMBDA u : u = v[x]) = IF I # {} THEN Min(I) ELSE 0
    BY DEF SelectInSeq
  <1>3. I \in SUBSET Nat
    OBVIOUS
  <1> HIDE DEF I
  <1>4. Min(I) = x
    BY <1>1, <1>3, FirstOf
  <1>5. SelectInSeq(v, LAMBDA u : u = v[x]) = x
    BY <1>1, <1>2, <1>4
  <1> QED BY <1>1, <1>5 DEF StartIn

\* q is pl with these tensors from there on.
PutBehind(q, pl, used, v) ==
  /\ DOMAIN q = DOMAIN pl \cup Range(v)
  /\ \A t \in DOMAIN pl \ Range(v) : q[t] = pl[t]
  /\ \A x \in 1 .. Len(v) : q[v[x]] = used + Sums(Sizes(v))[x - 1]

LEMMA PackMore ==
  ASSUME params \in Models, stages = StagesOf(GetTopology),
         NEW d \in 1 .. Len(GetDenseNodes), NEW pl, NEW used, Packed(pl, used, d - 1),
         NEW q, PutBehind(q, pl, used, GetDenseNodes[d].tensors)
  PROVE  Packed(q, used + GetDenseNodes[d].size, d)
  <1>0. PICK v : v = GetDenseNodes[d].tensors
    OBVIOUS
  <1>a. /\ DOMAIN q = DOMAIN pl \cup Range(v)
        /\ \A t \in DOMAIN pl \ Range(v) : q[t] = pl[t]
        /\ \A x \in 1 .. Len(v) : q[v[x]] = used + Sums(Sizes(v))[x - 1]
    BY <1>0 DEF PutBehind
  <1> DEFINE f == Sums(Sizes(v))
             m == Len(v)
             w == used + GetDenseNodes[d].size
             D == GetDenseNodes
  <1>1. /\ v \in Seq(ParamIds) /\ GetDenseNodes[d].size = Bytes(v)
        /\ \A x, y \in 1 .. m : v[x] = v[y] => x = y
    BY <1>0, DensePoolNodes
  <1>2. /\ m \in Nat /\ Sizes(v) \in Seq(Nat) /\ Len(Sizes(v)) = m
        /\ DOMAIN v = 1 .. m
        /\ \A x \in 1 .. m : v[x] \in ParamIds /\ Sizes(v)[x] = SizeOf(v[x])
    BY <1>1, SizesKnown
  <1>3. /\ f[0] = 0 /\ \A x \in 0 .. m : f[x] \in Nat
        /\ \A x \in 1 .. m : f[x] = f[x - 1] + SizeOf(v[x])
        /\ GetDenseNodes[d].size = f[m]
    <2> DEFINE z == Sizes(v)
    <2>1. z \in Seq(Nat) /\ Len(z) = m
      BY <1>2
    <2>2. /\ Sums(z) \in [0 .. Len(z) -> Nat] /\ Sums(z)[0] = 0
          /\ \A x \in 1 .. Len(z) : Sums(z)[x] = Sums(z)[x - 1] + z[x]
      <3> HIDE DEF z
      <3> QED BY <2>1, SumsAddUp
    <2>3. Bytes(v) = Sums(z)[m]
      BY <2>1 DEF Bytes, SumOf
    <2>4. \A x \in 1 .. m : z[x] = SizeOf(v[x])
      BY <1>2
    <2> HIDE DEF z
    <2>5. f = Sums(z)
      BY DEF z
    <2> HIDE DEF f
    <2>6. \A x \in 0 .. m : f[x] \in Nat
      BY <2>1, <2>2, <2>5
    <2>7. \A x \in 1 .. m : f[x] = f[x - 1] + SizeOf(v[x])
      BY <2>1, <2>2, <2>4, <2>5
    <2> QED BY <1>1, <2>2, <2>3, <2>5, <2>6, <2>7
  <1>4. /\ \A x, y \in 0 .. m : x <= y => f[x] <= f[y]
        /\ \A b \in 0 .. f[m] - 1 : \E x \in 1 .. m : f[x - 1] <= b /\ b < f[x]
    BY <1>2, SumsGrow
  <1> HIDE DEF f
  <1>5. d \in Nat /\ d - 1 \in 0 .. Len(D)
    BY DenseSizesAddUp
  <1>6. used \in Nat /\ w = Sums(DenseSizes)[d] /\ w = used + f[m] /\ w \in Nat
    <2>1. used = Sums(DenseSizes)[d - 1]
      BY DEF Packed
    <2>2. used \in Nat
      BY <1>5, <2>1, DenseSizesAddUp
    <2>3. m \in 0 .. m
      BY <1>2
    <2> QED BY <1>3, <2>1, <2>2, <2>3, DenseSizesAddUp
  <1>7. \A t \in Pinned(d - 1) : t \notin Range(v)
    <2> SUFFICES ASSUME NEW i \in 1 .. d - 1, NEW t \in Range(D[i].tensors) PROVE t \notin Range(v)
      BY DEF Pinned
    <2>1. i \in 1 .. Len(D) /\ i # d
      BY <1>5, DenseSizesAddUp
    <2> QED BY <1>0, <2>1, DensePoolNodes
  <1>8. Pinned(d) = Pinned(d - 1) \cup Range(v)
    <2>1. \A i : i \in 1 .. d <=> i \in 1 .. d - 1 \/ i = d
      BY <1>5
    <2> QED BY <1>0, <2>1 DEF Pinned
  <1>9. \A t \in Pinned(d) : t \in Pinned(d - 1) \/ \E x \in 1 .. m : t = v[x]
    BY <1>2, <1>8 DEF Range
  <1>10. \A x \in 1 .. m : v[x] \in Pinned(d)
    BY <1>2, <1>8 DEF Range
  <1>11. ASSUME NEW t \in Pinned(d - 1)
         PROVE  /\ q[t] = pl[t] /\ q[t] \in Nat /\ q[t] + SizeOf(t) <= used /\ t \in Pinned(d)
                /\ SizeOf(t) \in Nat
    <2>1. t \in DOMAIN pl /\ pl[t] \in Nat /\ pl[t] + SizeOf(t) <= used
      BY DEF Packed
    <2>2. q[t] = pl[t]
      BY <1>a, <1>7, <2>1
    <2>3. SizeOf(t) \in Nat
      <3>1. PICK i \in 1 .. d - 1 : t \in Range(D[i].tensors)
        BY DEF Pinned
      <3>2. i \in 1 .. Len(D)
        BY <1>5, DenseSizesAddUp
      <3>3. D[i].tensors \in Seq(ParamIds)
        BY <3>2, DensePoolNodes
      <3> DEFINE z == D[i].tensors
      <3>4. z \in Seq(ParamIds) /\ t \in Range(z)
        BY <3>1, <3>3
      <3> HIDE DEF z
      <3>5. t \in ParamIds
        BY <3>4 DEF Range
      <3> QED BY <3>5, SizesKnown
    <2> QED BY <1>8, <2>1, <2>2, <2>3
  <1>12. ASSUME NEW x \in 1 .. m
         PROVE  /\ q[v[x]] = used + f[x - 1] /\ q[v[x]] \in Nat /\ SizeOf(v[x]) \in Nat
                /\ q[v[x]] + SizeOf(v[x]) = used + f[x]
                /\ used <= q[v[x]] /\ q[v[x]] + SizeOf(v[x]) <= w
                /\ f[x] \in Nat /\ f[x - 1] \in Nat
    <2>1. q[v[x]] = used + f[x - 1]
      BY <1>a DEF f
    <2>2. x - 1 \in 0 .. m /\ x \in 0 .. m /\ m \in 0 .. m /\ x <= m
      BY <1>2
    <2>3. f[x - 1] \in Nat /\ f[x] \in Nat /\ f[m] \in Nat /\ f[x] <= f[m]
      BY <1>3, <1>4, <2>2
    <2>4. f[x] = f[x - 1] + SizeOf(v[x]) /\ SizeOf(v[x]) \in Nat
      BY <1>2, <1>3, SizesKnown
    <2> HIDE DEF w, m
    <2>5. PICK a \in Nat, c \in Nat, e \in Nat, g \in Nat :
            a = f[x - 1] /\ c = f[m] /\ e = used /\ g = SizeOf(v[x])
      BY <1>6, <2>3, <2>4
    <2>6. f[x] = a + g /\ a + g <= c /\ w = e + c
      BY <1>6, <2>3, <2>4, <2>5
    <2>7. q[v[x]] = e + a
      BY <2>1, <2>5
    <2>8. e + a \in Nat /\ (e + a) + g = e + (a + g) /\ e <= e + a
      OBVIOUS
    <2>9. (e + a) + g <= e + c
      BY <2>6
    <2> QED BY <2>1, <2>3, <2>5, <2>6, <2>7, <2>8, <2>9
  <1> HIDE DEF m, w
  <1>13. ASSUME NEW t \in Pinned(d), NEW u \in Pinned(d), t # u
         PROVE  q[t] + SizeOf(t) <= q[u] \/ q[u] + SizeOf(u) <= q[t]
    <2>1. CASE t \in Pinned(d - 1) /\ u \in Pinned(d - 1)
      BY <1>11, <1>13, <2>1 DEF Packed
    <2>2. ASSUME NEW x \in 1 .. m, NEW z \in Pinned(d - 1)
          PROVE  q[z] + SizeOf(z) <= q[v[x]]
      <3>1. q[z] \in Nat /\ SizeOf(z) \in Nat /\ q[z] + SizeOf(z) <= used
        BY <1>11
      <3>2. q[v[x]] \in Nat /\ used <= q[v[x]]
        BY <1>12
      <3>3. PICK a \in Nat, c \in Nat, e \in Nat : a = q[z] /\ c = SizeOf(z) /\ e = q[v[x]]
        BY Zenon, <3>1, <3>2
      <3> QED BY <1>6, <3>1, <3>2, <3>3
    <2>3. ASSUME NEW x \in 1 .. m, NEW y \in 1 .. m, x < y
          PROVE  q[v[x]] + SizeOf(v[x]) <= q[v[y]]
      <3>1. x \in 0 .. m /\ y - 1 \in 0 .. m /\ x <= y - 1
        BY <1>2, <2>3 DEF m
      <3>2. f[x] <= f[y - 1]
        BY <1>4, <3>1
      <3>3. /\ q[v[x]] + SizeOf(v[x]) = used + f[x] /\ q[v[y]] = used + f[y - 1]
            /\ f[x] \in Nat /\ f[y - 1] \in Nat
        BY <1>12
      <3>4. \A a, b, c \in Nat : a <= b => c + a <= c + b
        OBVIOUS
      <3>5. used + f[x] <= used + f[y - 1]
        BY <1>6, <3>2, <3>3, <3>4
      <3> QED BY <3>3, <3>5
    <2>4. CASE (\E x \in 1 .. m : t = v[x]) /\ u \in Pinned(d - 1)
      BY <2>2, <2>4
    <2>5. CASE (\E x \in 1 .. m : u = v[x]) /\ t \in Pinned(d - 1)
      BY <2>2, <2>5
    <2>6. CASE (\E x \in 1 .. m : t = v[x]) /\ (\E x \in 1 .. m : u = v[x])
      <3>1. PICK x \in 1 .. m : t = v[x]
        BY <2>6
      <3>2. PICK y \in 1 .. m : u = v[y]
        BY <2>6
      <3>3. x < y \/ y < x
        <4>1. x # y
          BY <1>13, <3>1, <3>2
        <4> QED BY <4>1
      <3> QED BY <2>3, <3>1, <3>2, <3>3
    <2> QED BY <1>9, <2>1, <2>4, <2>5, <2>6
  <1>14. ASSUME NEW b \in 0 .. w - 1
         PROVE  \E t \in Pinned(d) : q[t] <= b /\ b < q[t] + SizeOf(t)
    <2>1. CASE b < used
      <3>1. b \in 0 .. used - 1
        BY <1>6, <2>1
      <3>2. PICK t \in Pinned(d - 1) : pl[t] <= b /\ b < pl[t] + SizeOf(t)
        BY <3>1 DEF Packed
      <3> QED BY <1>11, <3>2
    <2>2. CASE ~(b < used)
      <3>0. f[m] \in Nat
        BY <1>2, <1>3 DEF m
      <3>1. b - used \in 0 .. f[m] - 1
        <4>1. PICK e \in Nat : e = f[m]
          BY Zenon, <3>0
        <4>2. w = used + e /\ used \in Nat /\ w \in Nat
          BY <1>6, <4>1
        <4>3. b - used \in 0 .. e - 1
          BY <2>2, <4>2
        <4> QED BY Zenon, <4>1, <4>3
      <3>2. PICK x \in 1 .. m : f[x - 1] <= b - used /\ b - used < f[x]
        BY <1>4, <3>1
      <3>3. /\ q[v[x]] = used + f[x - 1] /\ q[v[x]] + SizeOf(v[x]) = used + f[x]
            /\ f[x] \in Nat /\ f[x - 1] \in Nat
        BY <1>12
      <3>4. \A a, c, e, g \in Nat : a <= g - e /\ g - e < c => e + a <= g /\ g < e + c
        OBVIOUS
      <3>5. b \in Nat
        BY <1>6
      <3>6. used + f[x - 1] <= b /\ b < used + f[x]
        BY <1>6, <3>2, <3>3, <3>4, <3>5
      <3>7. q[v[x]] <= b /\ b < q[v[x]] + SizeOf(v[x])
        BY <3>3, <3>6
      <3> QED BY <1>10, <3>7
    <2> QED BY <2>1, <2>2
  <1>15. DOMAIN q = Pinned(d)
    BY <1>a, <1>8 DEF Packed
  <1>16. \A t \in Pinned(d) : q[t] \in Nat /\ q[t] + SizeOf(t) <= w
    <2> TAKE t \in Pinned(d)
    <2>1. CASE t \in Pinned(d - 1)
      <3>1. used <= w /\ f[m] \in Nat
        BY <1>2, <1>3, <1>6 DEF m
      <3> QED BY <1>6, <1>11, <2>1, <3>1
    <2>2. CASE \E x \in 1 .. m : t = v[x]
      BY <1>12, <2>2
    <2> QED BY <1>9, <2>1, <2>2
  <1>17. Packed(q, w, d)
    BY <1>6, <1>13, <1>14, <1>15, <1>16 DEF Packed
  <1> QED BY <1>17 DEF w

LEMMA SamePacked ==
  ASSUME params' = params, stages' = stages, NEW pl, NEW used, NEW d, Packed(pl, used, d)
  PROVE  Packed(pl, used, d)'
  <1>1. GetDenseNodes' = GetDenseNodes /\ \A t : SizeOf(t)' = SizeOf(t)
    BY SameParams, SameStages
  <1>2. Pinned(d)' = Pinned(d)
    BY <1>1 DEF Pinned
  <1>3. DenseSizes' = DenseSizes
    BY <1>1 DEF DenseSizes
  <1>4. Sums(DenseSizes)' = Sums(DenseSizes)
    BY <1>3
  <1> QED BY <1>1, <1>2, <1>4 DEF Packed

PoolInv ==
  /\ topoAt \in {"register", "pool"} => place = <<>> /\ poolUsed = 0
  /\ topoAt = "pool" => next = 1
  /\ topoAt = "pin" => next <= Len(GetDenseNodes) + 1 /\ Packed(place, poolUsed, next - 1)
  /\ topoAt \in {"experts", "ready"} => Packed(place, poolUsed, Len(GetDenseNodes))
  /\ topoAt \in {"pin", "experts", "ready"} => poolSize = GetDenseNodesTotalSize

LEMMA PoolInit == Init => PoolInv
  BY DEF Init, TopologyInit, PoolInv

LEMMA PoolStep ==
  ASSUME Built, PoolInv, [Next]_vars
  PROVE  PoolInv'
  <1> DEFINE N == Len(GetDenseNodes)
  <1>1. params' = params /\ params \in Models /\ next \in Nat \ {0}
        /\ (topoAt # "register" => stages = StagesOf(GetTopology))
        /\ topoAt \in {"register", "pool", "pin", "experts", "ready"}
    BY BuiltStep DEF Built
  <1>2. ASSUME stages' = stages
        PROVE  /\ GetDenseNodes' = GetDenseNodes /\ N' = N
               /\ GetDenseNodesTotalSize' = GetDenseNodesTotalSize
    BY <1>2, SameStages
  <1>3. ASSUME stages' = stages, NEW pl, NEW used, NEW d, Packed(pl, used, d),
               place' = pl, poolUsed' = used
        PROVE  /\ d = next' - 1 => Packed(place, poolUsed, next - 1)'
               /\ d = N' => Packed(place, poolUsed, N)'
    <2>1. Packed(pl, used, d)'
      BY <1>1, <1>3, SamePacked
    <2>2. ASSUME d = next' - 1 PROVE Packed(place, poolUsed, next - 1)'
      BY <1>3, <2>1, <2>2 DEF Packed
    <2>3. ASSUME d = N' PROVE Packed(place, poolUsed, N)'
      BY <1>3, <2>1, <2>3 DEF Packed
    <2> QED BY <2>2, <2>3
  <1>4. CASE RegisterTensor
    BY <1>4 DEF RegisterTensor, PoolInv
  <1>5. CASE BuildStages
    BY <1>5 DEF BuildStages, PoolInv
  <1>6. CASE SetUpDensePool
    <2>1. /\ topoAt = "pool" /\ topoAt' = "pin" /\ poolSize' = GetDenseNodesTotalSize
          /\ next' = next /\ stages' = stages /\ place' = <<>> /\ poolUsed' = 0 /\ next = 1
          /\ place = <<>> /\ poolUsed = 0
      BY <1>6 DEF SetUpDensePool, PoolInv
    <2>2. N \in Nat /\ Sums(DenseSizes)[0] = 0
      BY <1>1, <2>1, DenseSizesAddUp
    <2>3. Packed(<<>>, 0, 0)
      <3>1. Pinned(0) = {}
        BY DEF Pinned
      <3> QED BY <2>2, <3>1 DEF Packed
    <2>4. Packed(place, poolUsed, next - 1)'
      <3>1. 0 = next' - 1
        BY <2>1
      <3> QED BY <1>3, <2>1, <2>3, <3>1
    <2>5. next' <= N' + 1
      BY <1>2, <2>1, <2>2
    <2> HIDE DEF N
    <2> QED BY <1>2, <2>1, <2>4, <2>5 DEF PoolInv, N
  <1>7. CASE PinDense
    <2> DEFINE node == GetDenseNodes[next]
               v == node.tensors
               put == [t \in Range(v) |-> poolUsed + StartIn(node, t)]
    <2>1. /\ topoAt = "pin" /\ topoAt' = "pin" /\ next <= N /\ next' = next + 1
          /\ stages' = stages /\ poolSize' = poolSize
          /\ place' = [t \in DOMAIN place \cup DOMAIN put |->
                         IF t \in DOMAIN put THEN put[t] ELSE place[t]]
          /\ poolUsed' = poolUsed + node.size
      BY <1>7 DEF PinDense
    <2>2. Packed(place, poolUsed, next - 1) /\ poolSize = GetDenseNodesTotalSize
      BY <2>1 DEF PoolInv
    <2>3. N \in Nat /\ next \in 1 .. N /\ stages = StagesOf(GetTopology)
      BY <1>1, <2>1, DenseSizesAddUp
    <2>4. /\ v \in Seq(ParamIds) /\ \A x, y \in 1 .. Len(v) : v[x] = v[y] => x = y
      BY <1>1, <2>3, DensePoolNodes
    <2>5. ASSUME NEW x \in 1 .. Len(v)
          PROVE  v[x] \in Range(v) /\ put[v[x]] = poolUsed + Sums(Sizes(v))[x - 1]
      <3>1. v[x] \in Range(v)
        BY <2>4 DEF Range
      <3>2. put[v[x]] = poolUsed + StartIn(node, v[x])
        BY <3>1
      <3> DEFINE z == v
      <3>3. z \in Seq(ParamIds) /\ (\A i, j \in 1 .. Len(z) : z[i] = z[j] => i = j)
            /\ x \in 1 .. Len(z) /\ node.tensors = z
        BY <2>4
      <3>4. put[z[x]] = poolUsed + StartIn(node, z[x])
        BY <3>2
      <3> HIDE DEF node, z, put
      <3>5. put[z[x]] = poolUsed + Sums(Sizes(z))[x - 1]
        BY <1>1, <3>3, <3>4, StartsKnown
      <3> QED BY <3>1, <3>5 DEF z, node
    <2>6. DOMAIN put = Range(v)
      OBVIOUS
    <2> HIDE DEF put
    <2>7. PICK q, used, pl, g : q = place' /\ used = poolUsed /\ pl = place /\ g = next
      OBVIOUS
    <2>8. /\ DOMAIN q = DOMAIN pl \cup Range(v)
          /\ \A t \in DOMAIN pl \ Range(v) : q[t] = pl[t]
          /\ \A x \in 1 .. Len(v) : q[v[x]] = used + Sums(Sizes(v))[x - 1]
      BY <2>1, <2>5, <2>6, <2>7
    <2>9. v = GetDenseNodes[g].tensors /\ node.size = GetDenseNodes[g].size /\ g \in 1 .. N
          /\ Packed(pl, used, g - 1)
      BY <2>2, <2>3, <2>7
    <2> HIDE DEF node, v
    <2>10. Packed(q, used + GetDenseNodes[g].size, g)
      <3>1. PutBehind(q, pl, used, GetDenseNodes[g].tensors)
        BY <2>8, <2>9 DEF PutBehind
      <3> QED BY <1>1, <2>3, <2>9, <3>1, PackMore
    <2>11. g = next' - 1 /\ poolUsed' = used + GetDenseNodes[g].size
      BY <1>1, <2>1, <2>7, <2>9
    <2>12. Packed(place, poolUsed, next - 1)'
      BY <1>3, <2>1, <2>7, <2>10, <2>11
    <2>13. next' <= N' + 1
      BY <1>2, <2>1, <2>3
    <2> HIDE DEF N
    <2> QED BY <1>2, <2>1, <2>2, <2>12, <2>13 DEF PoolInv, N
  <1>a. ASSUME stages' = stages, UNCHANGED <<place, poolUsed>>,
               topoAt' \in {"experts", "ready"}, Packed(place, poolUsed, N)
        PROVE  Packed(place, poolUsed, N)'
    <2>1. PICK pl, used, d : pl = place /\ used = poolUsed /\ d = N
      OBVIOUS
    <2> HIDE DEF N
    <2>2. d = N' /\ Packed(pl, used, d) /\ place' = pl /\ poolUsed' = used
      BY <1>2, <1>a, <2>1
    <2> QED BY <1>3, <1>a, <2>2
  <1>8. CASE SparseToDisk
    <2>1. /\ topoAt = "pin" /\ topoAt' = "experts" /\ next > N
          /\ UNCHANGED <<stages, place, poolUsed, poolSize>>
      BY <1>8 DEF SparseToDisk
    <2>2. next <= N + 1 /\ Packed(place, poolUsed, next - 1) /\ poolSize = GetDenseNodesTotalSize
      BY <2>1 DEF PoolInv
    <2>3. N \in Nat
      BY <1>1, <2>1, DenseSizesAddUp
    <2>4. next - 1 = N
      BY <1>1, <2>1, <2>2, <2>3
    <2> HIDE DEF N
    <2>5. Packed(place, poolUsed, N)'
      BY <1>a, <2>1, <2>2, <2>4
    <2> QED BY <1>2, <2>1, <2>2, <2>5 DEF PoolInv, N
  <1>9. CASE RegisterExperts
    <2>1. topoAt = "experts" /\ topoAt' = "experts" /\ UNCHANGED <<stages, place, poolUsed, poolSize>>
      BY <1>9 DEF RegisterExperts
    <2>2. Packed(place, poolUsed, N) /\ poolSize = GetDenseNodesTotalSize
      BY <2>1 DEF PoolInv
    <2> HIDE DEF N
    <2>3. Packed(place, poolUsed, N)'
      BY <1>a, <2>1, <2>2
    <2> QED BY <1>2, <2>1, <2>2, <2>3 DEF PoolInv, N
  <1>10. CASE Ready
    <2>1. topoAt = "experts" /\ topoAt' = "ready" /\ UNCHANGED <<stages, place, poolUsed, poolSize>>
      BY <1>10 DEF Ready
    <2>2. Packed(place, poolUsed, N) /\ poolSize = GetDenseNodesTotalSize
      BY <2>1 DEF PoolInv
    <2> HIDE DEF N
    <2>3. Packed(place, poolUsed, N)'
      BY <1>a, <2>1, <2>2
    <2> QED BY <1>2, <2>1, <2>2, <2>3 DEF PoolInv, N
  <1>11. CASE UNCHANGED builtVars
    <2>1. UNCHANGED <<stages, place, poolUsed, poolSize, topoAt, next>>
      BY <1>11 DEF builtVars
    <2>2. topoAt = "pin" => Packed(place, poolUsed, next - 1)'
      <3> SUFFICES ASSUME topoAt = "pin" PROVE Packed(place, poolUsed, next - 1)'
        OBVIOUS
      <3>1. PICK pl, used, d : pl = place /\ used = poolUsed /\ d = next - 1
        OBVIOUS
      <3>2. Packed(pl, used, d) /\ place' = pl /\ poolUsed' = used /\ d = next' - 1
        BY <2>1, <3>1 DEF PoolInv
      <3> QED BY <1>3, <2>1, <3>2
    <2>3. topoAt \in {"experts", "ready"} => Packed(place, poolUsed, N)'
      <3> HIDE DEF N
      <3> QED BY <1>a, <2>1 DEF PoolInv, N
    <2>4. topoAt \in {"pin", "experts", "ready"} => poolSize' = GetDenseNodesTotalSize'
      BY <1>2, <2>1 DEF PoolInv
    <2>5. topoAt = "pin" => next' <= N' + 1
      BY <1>2, <2>1 DEF PoolInv
    <2> HIDE DEF N
    <2> QED BY <2>1, <2>2, <2>3, <2>4, <2>5 DEF PoolInv, N
  <1> QED BY <1>4, <1>5, <1>6, <1>7, <1>8, <1>9, <1>10, <1>11, HooksBuildNothing
          DEF Next, TopologyNext, vars, topologyVars, builtVars

\* The nodes of the pool hold the parameters of no expert.
LEMMA PinnedAll ==
  ASSUME params \in Models, stages = StagesOf(GetTopology)
  PROVE  Pinned(Len(GetDenseNodes)) = DenseIds /\ DenseTensors = DenseIds
  <1> DEFINE N == Len(GetDenseNodes)
  <1>1. DOMAIN GetDenseNodes = 1 .. N
    BY DenseSizesAddUp
  <1>2. ASSUME NEW d \in 1 .. N PROVE Range(GetDenseNodes[d].tensors) \subseteq DenseIds
    <2> DEFINE v == GetDenseNodes[d].tensors
    <2>1. v \in Seq(DenseIds)
      BY DensePoolNodes
    <2> HIDE DEF v
    <2>2. Range(v) \subseteq DenseIds
      BY <2>1 DEF Range
    <2> QED BY <2>2 DEF v
  <1>3. \A t \in DenseIds : \E d \in 1 .. N : t \in Range(GetDenseNodes[d].tensors)
    BY DensePoolNodes
  <1>4. DenseTensors = Pinned(N)
    BY <1>1 DEF DenseTensors, Pinned, Range
  <1>5. Pinned(N) = DenseIds
    BY <1>2, <1>3 DEF Pinned
  <1> QED BY <1>4, <1>5

\* What PoolPartitioned says, of a pool in which all nodes are pinned.
LEMMA PoolFilled ==
  ASSUME Built, PoolInv, topoAt \in {"experts", "ready"}
  PROVE  /\ PoolPartitioned
         /\ \A t, u \in DenseIds : place[t] = place[u] => t = u
  <1>1. params \in Models /\ stages = StagesOf(GetTopology)
    BY DEF Built
  <1>2. Packed(place, poolUsed, Len(GetDenseNodes)) /\ poolSize = GetDenseNodesTotalSize
    BY DEF PoolInv
  <1>3. Pinned(Len(GetDenseNodes)) = DenseIds /\ DenseTensors = DenseIds
    BY <1>1, PinnedAll
  <1>4. poolUsed = poolSize
    BY <1>1, <1>2, DenseSizesAddUp DEF Packed
  <1>5. \A t \in DenseIds : SizeOf(t) \in Nat \ {0}
    BY <1>1, SizesKnown, ParamsKnown DEF DenseIds, ParamIds
  <1>6. /\ DOMAIN place = DenseIds
        /\ \A t \in DenseIds : place[t] \in Nat /\ place[t] + SizeOf(t) <= poolSize
        /\ \A t, u \in DenseIds :
             t # u => place[t] + SizeOf(t) <= place[u] \/ place[u] + SizeOf(u) <= place[t]
        /\ \A b \in 0 .. poolSize - 1 : \E t \in DenseIds : place[t] <= b /\ b < place[t] + SizeOf(t)
    BY <1>2, <1>3, <1>4 DEF Packed
  <1>7. ASSUME NEW t \in DenseIds, NEW u \in DenseIds, place[t] = place[u] PROVE t = u
    BY <1>5, <1>6, <1>7
  <1>8. poolSize \in Nat
    BY <1>1, <1>2, DenseSizesAddUp
  <1>9. ASSUME NEW b \in 0 .. poolSize - 1
        PROVE  \E t \in DenseIds : b \in place[t] .. place[t] + SizeOf(t) - 1
    <2>1. PICK t \in DenseIds : place[t] <= b /\ b < place[t] + SizeOf(t)
      BY <1>6
    <2>2. place[t] \in Nat /\ SizeOf(t) \in Nat /\ b \in Nat
      BY <1>5, <1>6, <1>8
    <2>3. b \in place[t] .. place[t] + SizeOf(t) - 1
      BY <2>1, <2>2
    <2> QED BY <2>3
  <1>10. PoolPartitioned
    BY <1>3, <1>6, <1>9 DEF PoolPartitioned, DenseIds
  <1> QED BY <1>7, <1>10

-----------------------------------------------------------------------------
(* The table of experts.                                                   *)

\* The table of experts once the first m groups of experts are registered.
Registered(m) == UNION {{g - 1} \X (0 .. Len(ExpertGroups[g].lists) - 1) : g \in 1 .. m}
Filled(table, m) ==
  /\ DOMAIN table = Registered(m)
  /\ \A g \in 1 .. m : \A l \in 1 .. Len(ExpertGroups[g].lists) :
       table[<<g - 1, l - 1>>] = NodeOf(ExpertGroups[g].lists[l].tensors[1])

LEMMA SameFilled ==
  ASSUME params' = params, stages' = stages, NEW table, NEW m, Filled(table, m)
  PROVE  Filled(table, m)'
  <1>1. ExpertGroups' = ExpertGroups /\ \A t : NodeOf(t)' = NodeOf(t)
    BY SameParams, SameStages
  <1>2. Registered(m)' = Registered(m)
    BY <1>1 DEF Registered
  <1> QED BY Zenon, <1>1, <1>2 DEF Filled

\* One more group.
LEMMA FillMore ==
  ASSUME params \in Models, NEW m \in 1 .. Len(ExpertGroups), NEW table, Filled(table, m - 1),
         NEW q,
         q = [x \in DOMAIN table \cup ({m - 1} \X (0 .. Len(ExpertGroups[m].lists) - 1)) |->
                IF x \in DOMAIN table THEN table[x]
                ELSE GetNodeFromTensorID(ExpertGroups[m].lists[x[2] + 1].tensors[1]).id]
  PROVE  Filled(q, m)
  <1> DEFINE E == ExpertGroups
             w == Len(E[m].lists)
             New == {m - 1} \X (0 .. w - 1)
  <1>1. m \in Nat /\ m >= 1 /\ \A g \in 1 .. m : g = m \/ g \in 1 .. m - 1
    BY ExpertGroupsKnown
  <1>2. DOMAIN q = DOMAIN table \cup New
    OBVIOUS
  <1>3. DOMAIN table = Registered(m - 1)
    BY DEF Filled
  <1>4. \A g \in 1 .. m - 1 : g \in 1 .. m
    BY <1>1
  <1>5. Registered(m) = Registered(m - 1) \cup New
    <2>1. m \in 1 .. m
      BY <1>1
    <2> QED BY <1>1, <1>4, <2>1 DEF Registered
  <1>6. ASSUME NEW g \in 1 .. m - 1, NEW l \in 1 .. Len(E[g].lists)
        PROVE  q[<<g - 1, l - 1>>] = NodeOf(E[g].lists[l].tensors[1])
    <2>1. <<g - 1, l - 1>> \in Registered(m - 1)
      BY DEF Registered
    <2>2. q[<<g - 1, l - 1>>] = table[<<g - 1, l - 1>>]
      BY <1>2, <1>3, <2>1
    <2> QED BY Zenon, <2>2 DEF Filled
  <1>7. ASSUME NEW l \in 1 .. w
        PROVE  q[<<m - 1, l - 1>>] = NodeOf(E[m].lists[l].tensors[1])
    <2>1. <<m - 1, l - 1>> \in New /\ (l - 1) + 1 = l
      OBVIOUS
    <2>2. <<m - 1, l - 1>> \notin Registered(m - 1)
      <3> SUFFICES ASSUME NEW g \in 1 .. m - 1, g - 1 = m - 1 PROVE FALSE
        BY DEF Registered
      <3> QED BY <1>1
    <2>3. PICK x : x = <<m - 1, l - 1>>
      OBVIOUS
    <2> HIDE DEF New
    <2>4. x \in New /\ x \notin DOMAIN table
      BY Zenon, <1>3, <2>1, <2>2, <2>3
    <2>5. x[2] + 1 = l
      <3>1. x[2] = l - 1
        BY Zenon, <2>3
      <3> QED BY <2>1, <3>1
    <2>6. x \in DOMAIN q
      BY Zenon, <1>2, <2>4
    <2>7. q[x] = GetNodeFromTensorID(E[m].lists[x[2] + 1].tensors[1]).id
      BY Zenon, <2>4, <2>6 DEF New
    <2> QED BY Zenon, <2>3, <2>5, <2>7 DEF NodeOf
  <1> HIDE DEF New
  <1> QED BY Zenon, <1>1, <1>2, <1>3, <1>5, <1>6, <1>7 DEF Filled

RegInv ==
  /\ topoAt \in {"register", "pool", "pin"} => experts = <<>>
  /\ topoAt = "experts" => next <= Len(ExpertGroups) + 1 /\ Filled(experts, next - 1)
  /\ topoAt = "ready" => Filled(experts, Len(ExpertGroups))

LEMMA RegInit == Init => RegInv
  BY DEF Init, TopologyInit, RegInv

LEMMA RegStep ==
  ASSUME Built, RegInv, [Next]_vars
  PROVE  RegInv'
  <1> DEFINE N == Len(ExpertGroups)
  <1>1. params' = params /\ params \in Models /\ next \in Nat \ {0}
        /\ topoAt \in {"register", "pool", "pin", "experts", "ready"}
    BY BuiltStep DEF Built
  <1>2. N' = N /\ N \in Nat
    BY <1>1, SameParams, ExpertGroupsKnown
  <1>3. ASSUME stages' = stages, NEW table, NEW m, Filled(table, m), experts' = table
        PROVE  /\ m = next' - 1 => Filled(experts, next - 1)'
               /\ m = N' => Filled(experts, N)'
    <2>1. Filled(table, m)'
      BY <1>1, <1>3, SameFilled
    <2>2. ASSUME m = next' - 1 PROVE Filled(experts, next - 1)'
      BY <1>3, <2>1, <2>2 DEF Filled
    <2>3. ASSUME m = N' PROVE Filled(experts, N)'
      BY <1>3, <2>1, <2>3 DEF Filled
    <2> QED BY <2>2, <2>3
  <1> HIDE DEF N
  <1>4. CASE RegisterTensor
    BY <1>4 DEF RegisterTensor, RegInv
  <1>5. CASE BuildStages
    BY <1>5 DEF BuildStages, RegInv
  <1>6. CASE SetUpDensePool
    BY <1>6 DEF SetUpDensePool, RegInv
  <1>7. CASE PinDense
    BY <1>7 DEF PinDense, RegInv
  <1>8. CASE SparseToDisk
    <2>1. /\ topoAt = "pin" /\ topoAt' = "experts" /\ next' = 1
          /\ stages' = stages /\ experts' = <<>>
      BY <1>8 DEF SparseToDisk, RegInv
    <2>2. Filled(<<>>, 0)
      <3>1. Registered(0) = {}
        BY DEF Registered
      <3> QED BY <3>1 DEF Filled
    <2>3. 0 = next' - 1
      BY <2>1
    <2>4. Filled(experts, next - 1)'
      BY <1>3, <2>1, <2>2, <2>3
    <2>5. next' <= N' + 1
      BY <1>2, <2>1
    <2> QED BY <2>1, <2>4, <2>5 DEF RegInv, N
  <1>9. CASE RegisterExperts
    <2>1. /\ topoAt = "experts" /\ topoAt' = "experts" /\ next <= N /\ next' = next + 1
          /\ stages' = stages
          /\ experts' = [x \in DOMAIN experts \cup ({next - 1} \X (0 .. Len(ExpertGroups[next].lists) - 1)) |->
                IF x \in DOMAIN experts THEN experts[x]
                ELSE GetNodeFromTensorID(ExpertGroups[next].lists[x[2] + 1].tensors[1]).id]
      BY <1>9 DEF RegisterExperts, N
    <2>2. Filled(experts, next - 1)
      BY <2>1 DEF RegInv
    <2>3. next \in 1 .. Len(ExpertGroups)
      BY <1>1, <1>2, <2>1 DEF N
    <2>4. PICK table, q, m : table = experts /\ q = experts' /\ m = next
      OBVIOUS
    <2>5. Filled(q, m)
      <3>1. m \in 1 .. Len(ExpertGroups) /\ Filled(table, m - 1)
        BY <2>2, <2>3, <2>4
      <3>2. q = [x \in DOMAIN table \cup ({m - 1} \X (0 .. Len(ExpertGroups[m].lists) - 1)) |->
                IF x \in DOMAIN table THEN table[x]
                ELSE GetNodeFromTensorID(ExpertGroups[m].lists[x[2] + 1].tensors[1]).id]
        BY <2>1, <2>4
      <3> QED BY <1>1, <3>1, <3>2, FillMore
    <2>6. m = next' - 1 /\ experts' = q
      BY <1>1, <2>1, <2>4
    <2>7. Filled(experts, next - 1)'
      BY Zenon, <1>3, <2>1, <2>5, <2>6
    <2>8. next' <= N' + 1
      BY <1>1, <1>2, <2>1
    <2> QED BY Zenon, <2>1, <2>7, <2>8 DEF RegInv, N
  <1>10. CASE Ready
    <2>1. topoAt = "experts" /\ topoAt' = "ready" /\ next > N /\ UNCHANGED <<stages, experts>>
      BY <1>10 DEF Ready, N
    <2>2. Filled(experts, next - 1) /\ next <= N + 1
      BY <2>1 DEF RegInv, N
    <2>3. next - 1 = N
      BY <1>1, <1>2, <2>1, <2>2
    <2>4. PICK table, m : table = experts /\ m = N
      OBVIOUS
    <2>5. Filled(table, m) /\ experts' = table /\ m = N'
      BY <1>2, <2>1, <2>2, <2>3, <2>4
    <2>6. Filled(experts, N)'
      BY <1>3, <2>1, <2>5
    <2> QED BY <2>1, <2>6 DEF RegInv, N
  <1>11. CASE UNCHANGED builtVars
    <2>1. UNCHANGED <<stages, experts, topoAt, next>>
      BY <1>11 DEF builtVars
    <2>2. CASE topoAt = "experts"
      <3>1. PICK table, m : table = experts /\ m = next - 1
        OBVIOUS
      <3>2. Filled(table, m) /\ experts' = table /\ m = next' - 1
        BY <2>1, <2>2, <3>1 DEF RegInv
      <3>3. Filled(experts, next - 1)'
        BY <1>3, <2>1, <3>2
      <3>4. next' <= N' + 1
        BY <1>2, <2>1, <2>2 DEF RegInv, N
      <3> QED BY <2>1, <2>2, <3>3, <3>4 DEF RegInv, N
    <2>3. CASE topoAt = "ready"
      <3>1. PICK table, m : table = experts /\ m = N
        OBVIOUS
      <3>2. Filled(table, m) /\ experts' = table /\ m = N'
        BY <1>2, <2>1, <2>3, <3>1 DEF RegInv, N
      <3>3. Filled(experts, N)'
        BY <1>3, <2>1, <3>2
      <3> QED BY <2>1, <2>3, <3>3 DEF RegInv, N
    <2>4. CASE topoAt \in {"register", "pool", "pin"}
      BY <2>1, <2>4 DEF RegInv
    <2> QED BY <1>1, <2>2, <2>3, <2>4
  <1> QED BY <1>4, <1>5, <1>6, <1>7, <1>8, <1>9, <1>10, <1>11, HooksBuildNothing
          DEF Next, TopologyNext, vars, topologyVars, builtVars

\* Parameter i is of the expert that has list l of group s, the m-th of experts.
Seat(i, m, s, l) ==
  /\ i \in ExpertParams /\ ExpertAt(m, s) /\ l \in 1 .. Len(GetTopology[s].lists)
  /\ GetTopology[s].key = KeyOf(params[i]) /\ GetTopology[s].lists[l].expert = params[i].expert
  /\ BlockOf(params[i].prefix) = m - 1 /\ params[i].expert = l - 1

\* A list has a first tensor, and its tensors are in the order of the parameters.
LEMMA ListsKnown ==
  ASSUME params \in Models, NEW s \in 1 .. Len(GetTopology), NEW l \in 1 .. Len(GetTopology[s].lists)
  PROVE  /\ ListedAt(GetTopology[s].lists[l].tensors[1], s, l)
         /\ GetTopology[s].lists[l].tensors \in Seq(ParamIds)
         /\ InOrder(GetTopology[s].lists[l].tensors)
         /\ IsExpertKey(GetTopology[s]) => GetTopology[s].lists[l].expert = l - 1
         /\ \A k \in 1 .. Len(GetTopology[s].lists) :
              GetTopology[s].lists[k].expert = GetTopology[s].lists[l].expert => k = l
  <1> DEFINE T == GetTopology
             b == T[s].lists[l]
  <1>1. GroupOk(T[s], Len(params)) /\ GroupInOrder(T[s])
    BY TopologySorted, TopologyOrdered DEF Sorted, Ordered
  <1>2. ListOk(b, T[s].key, Len(params))
    BY <1>1 DEF GroupOk
  <1>3. b.tensors \in Seq(ParamIds) /\ Len(b.tensors) >= 1
    BY <1>2 DEF ListOk, Lists
  <1>4. 1 \in 1 .. Len(b.tensors)
    <2> HIDE DEF b
    <2> QED BY <1>3
  <1>5. ListedAt(b.tensors[1], s, l)
    BY <1>4 DEF ListedAt
  <1>6. InOrder(b.tensors) /\ (IsExpertKey(T[s]) => b.expert = l - 1)
    BY <1>1 DEF GroupInOrder, IsExpertKey
  <1> QED BY <1>1, <1>3, <1>5, <1>6 DEF GroupOk

\* Every parameter of an expert has such a place, and every list of experts is one.
LEMMA SeatsKnown ==
  ASSUME params \in Models
  PROVE  /\ \A i \in ExpertParams : \E m, s, l : Seat(i, m, s, l)
         /\ \A m \in 1 .. Len(ExpertGroups) : \A l \in 1 .. Len(ExpertGroups[m].lists) :
              \E i, s : Seat(i, m, s, l)
  <1> DEFINE T == GetTopology
             N == Len(params)
  <1>1. N \in Nat /\ N \in 0 .. N /\ Sorted(T, N)
    BY ParamsKnown, TopologySorted
  <1>2. ExpertParams = {i \in 1 .. N : params[i].expert # None}
    BY ParamsKnown DEF ExpertParams
  <1>3. ASSUME NEW i \in ExpertParams, NEW m, NEW s, NEW l, ExpertAt(m, s),
               l \in 1 .. Len(T[s].lists), T[s].key = KeyOf(params[i]), T[s].lists[l].expert = params[i].expert
        PROVE  Seat(i, m, s, l)
    <2>1. s \in 1 .. Len(T) /\ IsExpertKey(T[s]) /\ m - 1 = BlockOf(T[s].key[2])
      BY <1>3 DEF ExpertAt
    <2>2. T[s].lists[l].expert = l - 1
      BY <1>3, <2>1, ListsKnown
    <2>3. params[i].prefix = T[s].key[2]
      BY <1>2, <1>3, <2>1, ExpertKeys
    <2> QED BY <1>3, <2>1, <2>2, <2>3 DEF Seat
  <1>4. ASSUME NEW i \in ExpertParams PROVE \E m, s, l : Seat(i, m, s, l)
    <2>1. HasList(T, params[i])
      BY <1>1, <1>2, KeyListed
    <2>2. PICK s \in 1 .. Len(T) : /\ T[s].key = KeyOf(params[i])
                                   /\ \E l \in 1 .. Len(T[s].lists) : T[s].lists[l].expert = params[i].expert
      BY <2>1 DEF HasList
    <2>3. PICK l \in 1 .. Len(T[s].lists) : T[s].lists[l].expert = params[i].expert
      BY <2>2
    <2>4. IsExpertKey(T[s])
      BY <1>2, <2>2, NumbersKnown DEF IsExpertKey
    <2>5. PICK m : ExpertAt(m, s)
      BY <2>4, ExpertGroupsKnown
    <2> QED BY <1>3, <2>2, <2>3, <2>5
  <1>5. ASSUME NEW m \in 1 .. Len(ExpertGroups), NEW l \in 1 .. Len(ExpertGroups[m].lists)
        PROVE  \E i, s : Seat(i, m, s, l)
    <2>1. PICK s : ExpertAt(m, s)
      BY ExpertGroupsKnown
    <2>2. s \in 1 .. Len(T) /\ IsExpertKey(T[s]) /\ l \in 1 .. Len(T[s].lists)
      BY <2>1 DEF ExpertAt
    <2>3. PICK t : t = T[s].lists[l].tensors[1] /\ ListedAt(t, s, l)
      BY <2>2, ListsKnown
    <2>4. PICK i \in 1 .. N : KeyOf(params[i]) = T[s].key /\ params[i].expert = T[s].lists[l].expert
      BY <2>3, AllListed
    <2>5. i \in ExpertParams
      BY <1>2, <2>2, <2>4, NumbersKnown DEF IsExpertKey
    <2> QED BY <1>3, <2>1, <2>2, <2>4, <2>5
  <1> QED BY <1>4, <1>5

\* The parameters of an expert.
OwnOf(i) == {j \in ExpertParams : /\ params[j].prefix = params[i].prefix
                                  /\ params[j].expert = params[i].expert}

\* The list holds just these, in their order.
LEMMA OwnTensors ==
  ASSUME params \in Models, NEW i, NEW m, NEW s, NEW l, Seat(i, m, s, l),
         NEW ids, ids = GetTopology[s].lists[l].tensors
  PROVE  /\ Range(ids) = {params[j].id : j \in OwnOf(i)}
         /\ \A x, y \in DOMAIN ids : \A j, h \in OwnOf(i) :
              ids[x] = params[j].id /\ ids[y] = params[h].id => (x < y <=> j < h)
  <1> DEFINE T == GetTopology
             N == Len(params)
  <1>1. /\ s \in 1 .. Len(T) /\ l \in 1 .. Len(T[s].lists) /\ i \in ExpertParams
        /\ T[s].key = KeyOf(params[i]) /\ T[s].lists[l].expert = params[i].expert
        /\ IsExpertKey(T[s])
    BY DEF Seat, ExpertAt
  <1>2. ids \in Seq(ParamIds) /\ InOrder(ids)
    BY <1>1, ListsKnown
  <1>3. Len(ids) \in Nat /\ DOMAIN ids = 1 .. Len(ids)
    BY <1>2
  <1>4. ExpertParams = {j \in 1 .. N : params[j].expert # None}
    BY ParamsKnown DEF ExpertParams
  <1>5. \A j \in 1 .. N : KeyOf(params[j]) = KeyOf(params[i]) <=>
          params[j].expert # None /\ params[j].prefix = params[i].prefix
    BY <1>1, <1>4, ExpertKeys
  <1>6. ASSUME NEW t \in Range(ids) PROVE \E j \in OwnOf(i) : params[j].id = t
    <2>1. ListedAt(t, s, l)
      BY <1>1, <1>3 DEF ListedAt, Range
    <2>2. PICK j \in 1 .. N : /\ params[j].id = t /\ KeyOf(params[j]) = T[s].key
                              /\ params[j].expert = T[s].lists[l].expert
      BY <2>1, AllListed
    <2> QED BY <1>1, <1>4, <1>5, <2>2 DEF OwnOf
  <1>7. ASSUME NEW j \in OwnOf(i) PROVE params[j].id \in Range(ids)
    <2>1. j \in 1 .. N /\ KeyOf(params[j]) = T[s].key /\ params[j].expert = T[s].lists[l].expert
      BY <1>1, <1>4, <1>5 DEF OwnOf
    <2>2. PICK t : t = params[j].id
      OBVIOUS
    <2>3. PICK g, k : ListedAt(t, g, k)
      BY <2>1, <2>2, AllListed
    <2>4. PICK o \in 1 .. N : /\ params[o].id = t /\ KeyOf(params[o]) = T[g].key
                              /\ params[o].expert = T[g].lists[k].expert
      BY <2>3, AllListed
    <2>5. o = j /\ g \in 1 .. Len(T) /\ k \in 1 .. Len(T[g].lists)
      BY <2>1, <2>2, <2>3, <2>4, ParamsKnown DEF ListedAt
    <2>6. g = s
      BY <1>1, <2>1, <2>4, <2>5, TopologySorted DEF Sorted
    <2>7. k = l
      BY <1>1, <2>1, <2>4, <2>5, <2>6, ListsKnown
    <2> QED BY <1>3, <2>2, <2>3, <2>6, <2>7 DEF ListedAt, Range
  <1>8. ASSUME NEW x \in DOMAIN ids, NEW y \in DOMAIN ids, NEW j \in OwnOf(i), NEW h \in OwnOf(i),
               ids[x] = params[j].id, ids[y] = params[h].id
        PROVE  x < y <=> j < h
    <2>1. j \in 1 .. N /\ h \in 1 .. N /\ x \in 1 .. Len(ids) /\ y \in 1 .. Len(ids) /\ N \in Nat
      BY <1>3, <1>4, ParamsKnown DEF OwnOf
    <2>2. x < y => j < h
      BY <1>2, <1>8, <2>1 DEF InOrder
    <2>3. y < x => h < j
      BY <1>2, <1>8, <2>1 DEF InOrder
    <2>4. x = y => j = h
      BY <1>8, <2>1, ParamsKnown
    <2> QED BY <1>3, <2>1, <2>2, <2>3, <2>4
  <1> QED BY <1>6, <1>7, <1>8

\* The table leads each expert of each block to the node with its tensors.
LEMMA ExpertsFound ==
  ASSUME Built, RegInv, topoAt = "ready"
  PROVE  ExpertsInPlace
  <1> DEFINE T == GetTopology
             E == ExpertGroups
  <1>1. params \in Models /\ stages = StagesOf(GetTopology) /\ Filled(experts, Len(E))
    BY DEF Built, RegInv
  <1>2. ASSUME NEW i, NEW m, NEW s, NEW l, Seat(i, m, s, l)
        PROVE  /\ m \in 1 .. Len(E) /\ l \in 1 .. Len(E[m].lists) /\ E[m] = T[s]
               /\ s \in 1 .. Len(T) /\ l \in 1 .. Len(T[s].lists)
               /\ <<BlockOf(params[i].prefix), params[i].expert>> = <<m - 1, l - 1>>
    BY <1>2 DEF Seat, ExpertAt
  <1>3. ASSUME NEW i \in ExpertParams
        PROVE  <<BlockOf(params[i].prefix), params[i].expert>> \in Registered(Len(E))
    <2>1. PICK m, s, l : Seat(i, m, s, l)
      BY <1>1, SeatsKnown
    <2>2. m \in 1 .. Len(E) /\ l - 1 \in 0 .. Len(E[m].lists) - 1
      BY <1>2, <2>1
    <2>3. <<m - 1, l - 1>> \in Registered(Len(E))
      BY <2>2 DEF Registered
    <2>4. <<BlockOf(params[i].prefix), params[i].expert>> = <<m - 1, l - 1>>
      BY <1>2, <2>1
    <2> QED BY <2>3, <2>4
  <1>4. ASSUME NEW x \in Registered(Len(E))
        PROVE  \E i \in ExpertParams : x = <<BlockOf(params[i].prefix), params[i].expert>>
    <2>1. PICK m \in 1 .. Len(E) : x \in {m - 1} \X (0 .. Len(E[m].lists) - 1)
      BY DEF Registered
    <2>2. PICK k \in 0 .. Len(E[m].lists) - 1 : x = <<m - 1, k>>
      BY <2>1
    <2>3. PICK l \in 1 .. Len(E[m].lists) : l = k + 1 /\ k = l - 1
      OBVIOUS
    <2>4. PICK i, s : Seat(i, m, s, l)
      BY <1>1, SeatsKnown
    <2>5. i \in ExpertParams
      BY <2>4 DEF Seat
    <2> QED BY <1>2, <2>2, <2>3, <2>4, <2>5
  <1>5. DOMAIN experts = {<<BlockOf(params[i].prefix), params[i].expert>> : i \in ExpertParams}
    BY <1>1, <1>3, <1>4 DEF Filled
  <1>6. ASSUME NEW i \in ExpertParams,
               NEW ids, ids = AllNodes[experts[<<BlockOf(params[i].prefix), params[i].expert>>] + 1].tensors
        PROVE  /\ Range(ids) = {params[j].id : j \in OwnOf(i)}
               /\ \A x, y \in DOMAIN ids : \A j, h \in OwnOf(i) :
                    ids[x] = params[j].id /\ ids[y] = params[h].id => (x < y <=> j < h)
    <2>1. PICK m, s, l : Seat(i, m, s, l)
      BY <1>1, SeatsKnown
    <2>2. PICK t : t = T[s].lists[l].tensors[1]
      OBVIOUS
    <2>3. ListedAt(t, s, l)
      BY <1>1, <1>2, <2>1, <2>2, ListsKnown
    <2>4. experts[<<m - 1, l - 1>>] = NodeOf(t)
      BY <1>1, <1>2, <2>1, <2>2 DEF Filled
    <2>5. AllNodes[NodeOf(t) + 1] = stages[s].nodes[l]
      BY <1>1, <2>3, NodeKnown DEF NodeAt
    <2>6. stages[s].nodes[l].tensors = T[s].lists[l].tensors
      BY <1>1, <1>2, <2>1, StagesKnown
    <2>7. <<BlockOf(params[i].prefix), params[i].expert>> = <<m - 1, l - 1>>
      BY <1>2, <2>1
    <2>8. ids = AllNodes[experts[<<m - 1, l - 1>>] + 1].tensors
      BY <1>6, <2>7
    <2>9. ids = T[s].lists[l].tensors
      BY <2>4, <2>5, <2>6, <2>8
    <2> QED BY <1>1, <2>1, <2>9, OwnTensors
  <1>7. ASSUME NEW i \in ExpertParams
        PROVE  LET own == {j \in ExpertParams : /\ params[j].prefix = params[i].prefix
                                                /\ params[j].expert = params[i].expert}
                   tensors == AllNodes[experts[<<BlockOf(params[i].prefix), params[i].expert>>] + 1].tensors
               IN  /\ Range(tensors) = {params[j].id : j \in own}
                   /\ \A x, y \in DOMAIN tensors : \A j, h \in own :
                        tensors[x] = params[j].id /\ tensors[y] = params[h].id => (x < y <=> j < h)
    <2>1. PICK ids : ids = AllNodes[experts[<<BlockOf(params[i].prefix), params[i].expert>>] + 1].tensors
      OBVIOUS
    <2>2. OwnOf(i) = {j \in ExpertParams : /\ params[j].prefix = params[i].prefix
                                           /\ params[j].expert = params[i].expert}
      BY DEF OwnOf
    <2> QED BY <1>6, <2>1, <2>2
  <1> QED BY Zenon, <1>5, <1>7 DEF ExpertsInPlace

-----------------------------------------------------------------------------
(* The hooks.                                                              *)

HookInv ==
  /\ \/ phase = "idle" /\ module = None /\ todo = <<>>
     \/ /\ phase \in {"pre", "post"} /\ topoAt = "ready" /\ module \in Modules
        /\ todo \in Seq(Own(module))
        /\ \A i, j \in 1 .. Len(todo) : todo[i] = todo[j] => i = j
        /\ lastNode = None => module = params[1].module
  /\ topoAt # "ready" =>
       phase = "idle" /\ wanted = <<>> /\ locked = {} /\ execQueue = {} /\ lastNode = None
  /\ lastNode = None => lastLayer = 0
  /\ lastNode # None => /\ lastLayer = LayerOf(lastNode)
                        /\ \E t \in DenseIds : lastNode = NodeOf(t)

PtrInv ==
  /\ PointersKnown
  /\ DOMAIN ptr = IF topoAt = "register" THEN {params[i].id : i \in 1 .. next - 1} ELSE ParamIds
  /\ \A t \in DOMAIN ptr :
       \/ ptr[t] \in CpuCells \cup {<<"expert", t>>}
       \/ topoAt = "ready" /\ t \in DenseIds /\ ptr[t] = Gpu(t)

\* A module's own parameters are dense ones.
LEMMA TodoKnown ==
  ASSUME Built, HookInv, phase # "idle"
  PROVE  /\ params \in Models /\ stages = StagesOf(GetTopology) /\ topoAt = "ready"
         /\ phase \in {"pre", "post"} /\ module \in Modules /\ module # None
         /\ todo \in Seq(Own(module)) /\ Own(module) \subseteq DenseIds
         /\ DenseIds \subseteq ParamIds
         /\ todo # <<>> => /\ Head(todo) \in Own(module) /\ Tail(todo) \in Seq(Own(module))
                           /\ \A i, j \in 1 .. Len(Tail(todo)) : Tail(todo)[i] = Tail(todo)[j] => i = j
                           /\ Range(Tail(todo)) = Range(todo) \ {Head(todo)}
                           /\ Range(todo) \subseteq Own(module) /\ Head(todo) \in Range(todo)
  <1>1. params \in Models /\ stages = StagesOf(GetTopology) /\ topoAt = "ready"
        /\ phase \in {"pre", "post"} /\ module \in Modules /\ todo \in Seq(Own(module))
        /\ \A i, j \in 1 .. Len(todo) : todo[i] = todo[j] => i = j
    BY DEF Built, HookInv
  <1>2. DOMAIN params = 1 .. Len(params)
    BY <1>1, ParamsKnown
  <1>3. module # None
    BY <1>1, <1>2, ParamsKnown DEF Modules
  <1>4. Own(module) \subseteq DenseIds
    <2> SUFFICES ASSUME NEW t \in Own(module) PROVE t \in DenseIds
      OBVIOUS
    <2>1. PICK m : m = module
      OBVIOUS
    <2>2. PICK i \in 1 .. Len(params) : params[i].id = t /\ params[i].expert = None
      BY <1>1, <2>1, OwnKnown
    <2> QED BY <1>2, <2>2 DEF DenseIds
  <1>5. DenseIds \subseteq ParamIds
    BY <1>2 DEF DenseIds, ParamIds
  <1>6. ASSUME todo # <<>>
        PROVE  /\ Head(todo) \in Own(module) /\ Tail(todo) \in Seq(Own(module))
               /\ \A i, j \in 1 .. Len(Tail(todo)) : Tail(todo)[i] = Tail(todo)[j] => i = j
               /\ Range(Tail(todo)) = Range(todo) \ {Head(todo)}
               /\ Range(todo) \subseteq Own(module) /\ Head(todo) \in Range(todo)
    <2> DEFINE S == Own(module)
    <2>0. todo \in Seq(S)
      BY <1>1
    <2> HIDE DEF S
    <2>1. PICK e \in Nat : e = Len(todo) /\ e >= 1
      BY <1>6, <2>0
    <2>2. /\ Tail(todo) \in Seq(S) /\ Len(Tail(todo)) = e - 1 /\ Head(todo) = todo[1]
          /\ \A i \in 1 .. e - 1 : Tail(todo)[i] = todo[i + 1]
      BY <1>6, <2>0, <2>1
    <2>3. /\ \A i \in 1 .. e : todo[i] \in S
          /\ \A i, j \in 1 .. e : todo[i] = todo[j] => i = j
          /\ DOMAIN todo = 1 .. e /\ DOMAIN Tail(todo) = 1 .. e - 1
      BY <1>1, <2>0, <2>1, <2>2
    <2>4. \A i \in 1 .. e - 1 : i + 1 \in 1 .. e /\ i + 1 # 1
      BY <2>1
    <2>5. 1 \in 1 .. e
      BY <2>1
    <2>6. \A i, j \in 1 .. e - 1 : Tail(todo)[i] = Tail(todo)[j] => i = j
      <3> TAKE i, j \in 1 .. e - 1
      <3>1. i + 1 = j + 1 => i = j
        OBVIOUS
      <3> QED BY <2>2, <2>3, <2>4, <3>1
    <2>7. Range(Tail(todo)) = Range(todo) \ {Head(todo)}
      <3>1. ASSUME NEW i \in 1 .. e - 1 PROVE Tail(todo)[i] \in Range(todo) \ {Head(todo)}
        BY <2>2, <2>3, <2>4, <2>5 DEF Range
      <3>2. ASSUME NEW i \in 1 .. e, todo[i] # Head(todo) PROVE todo[i] \in Range(Tail(todo))
        <4>1. i - 1 \in 1 .. e - 1 /\ (i - 1) + 1 = i
          BY <2>1, <2>2, <3>2
        <4>2. Tail(todo)[i - 1] = todo[i]
          BY <2>2, <4>1
        <4> QED BY <2>3, <4>1, <4>2 DEF Range
      <3> QED BY <2>3, <3>1, <3>2 DEF Range
    <2>8. Head(todo) \in S /\ Range(todo) \subseteq S /\ Head(todo) \in Range(todo)
      BY <2>2, <2>3, <2>5 DEF Range
    <2> QED BY <2>2, <2>6, <2>7, <2>8 DEF S
  <1> QED BY <1>1, <1>3, <1>4, <1>5, <1>6

\* A parameter that moves to an address that is no other's.
LEMMA RepointKnown ==
  ASSUME PointersKnown, NEW t \in DOMAIN ptr, NEW a,
         \A u \in DOMAIN ptr : u # t => ptr[u] # a,
         Repoint(t, a)
  PROVE  /\ PointersKnown' /\ DOMAIN ptr' = DOMAIN ptr /\ ptr'[t] = a
         /\ \A u \in DOMAIN ptr : u # t => ptr'[u] = ptr[u]
  <1>1. /\ DOMAIN ptr' = DOMAIN ptr /\ ptr'[t] = a
        /\ \A u \in DOMAIN ptr : u # t => ptr'[u] = ptr[u]
    BY DEF Repoint
  <1>2. /\ DOMAIN tensorToId' = (DOMAIN tensorToId \ {ptr[t]}) \cup {a}
        /\ \A b \in DOMAIN tensorToId \ {ptr[t]} : tensorToId'[b] = tensorToId[b]
        /\ a \notin DOMAIN tensorToId \ {ptr[t]} => tensorToId'[a] = tensorToId[ptr[t]]
        /\ offloadSet' = (offloadSet \ {ptr[t]}) \cup {a}
    BY DEF Repoint
  <1>3. /\ \A u \in DOMAIN ptr : ptr[u] \in DOMAIN tensorToId /\ tensorToId[ptr[u]] = u
        /\ \A b : b \in DOMAIN tensorToId <=> \E u \in DOMAIN ptr : ptr[u] = b
        /\ \A b : b \in offloadSet <=> \E u \in DOMAIN ptr : ptr[u] = b
    BY DEF PointersKnown, Range
  <1>4. a \notin DOMAIN tensorToId \ {ptr[t]}
    BY <1>3
  <1>5. \A u \in DOMAIN ptr : u # t => ptr[u] # ptr[t]
    BY <1>3
  <1>6. \A u \in DOMAIN ptr : ptr'[u] \in DOMAIN tensorToId' /\ tensorToId'[ptr'[u]] = u
    <2> TAKE u \in DOMAIN ptr
    <2>1. CASE u = t
      BY <1>1, <1>2, <1>3, <1>4, <2>1
    <2>2. CASE u # t
      BY <1>1, <1>2, <1>3, <1>5, <2>2
    <2> QED BY <2>1, <2>2
  <1>7. \A b : b \in DOMAIN tensorToId' <=> \E u \in DOMAIN ptr : ptr'[u] = b
    BY <1>1, <1>2, <1>3, <1>5
  <1>8. offloadSet' = DOMAIN tensorToId'
    <2>1. offloadSet = DOMAIN tensorToId
      BY <1>3
    <2> QED BY <1>2, <2>1
  <1>9. DOMAIN tensorToId' = Range(ptr')
    BY <1>1, <1>7 DEF Range
  <1> QED BY <1>1, <1>6, <1>8, <1>9 DEF PointersKnown

LEMMA PtrInit == Init => PtrInv
  <1> SUFFICES ASSUME Init PROVE PtrInv
    OBVIOUS
  <1>1. ptr = <<>> /\ tensorToId = <<>> /\ offloadSet = {} /\ topoAt = "register" /\ next = 1
    BY DEF Init, TopologyInit
  <1>2. DOMAIN ptr = {} /\ DOMAIN tensorToId = {} /\ {params[i].id : i \in 1 .. next - 1} = {}
    BY <1>1
  <1>3. PointersKnown
    BY <1>1, <1>2 DEF PointersKnown, Range
  <1> QED BY <1>1, <1>2, <1>3 DEF PtrInv

LEMMA PtrStep ==
  ASSUME Built, PoolInv, HookInv, PtrInv, [Next]_vars
  PROVE  PtrInv'
  <1>1. params' = params /\ params \in Models /\ next \in Nat \ {0} /\ Len(params) \in Nat
        /\ topoAt \in {"register", "pool", "pin", "experts", "ready"}
        /\ (topoAt = "register" => next <= Len(params) + 1)
        /\ ParamIds' = ParamIds /\ DenseIds' = DenseIds
    BY BuiltStep, SameParams, ParamsKnown DEF Built
  <1>2. CASE RegisterTensor
    <2> DEFINE t == params[next].id
    <2>1. PICK a : /\ a \in (IF params[next].expert = None THEN CpuCells \ offloadSet
                             ELSE {<<"expert", t>>})
                   /\ ptr' = With(ptr, t, a) /\ tensorToId' = With(tensorToId, a, t)
                   /\ offloadSet' = offloadSet \cup {a}
      BY <1>2 DEF RegisterTensor
    <2>2. topoAt = "register" /\ topoAt' = "register" /\ next' = next + 1 /\ next \in 1 .. Len(params)
      BY <1>1, <1>2 DEF RegisterTensor
    <2>3. DOMAIN ptr = {params[i].id : i \in 1 .. next - 1} /\ PointersKnown
          /\ \A u \in DOMAIN ptr : ptr[u] \in CpuCells \cup {<<"expert", u>>}
      BY <2>2 DEF PtrInv
    <2>4. t \notin DOMAIN ptr
      <3> SUFFICES ASSUME NEW i \in 1 .. next - 1, params[i].id = t PROVE FALSE
        BY <2>3
      <3>1. i \in 1 .. Len(params) /\ i # next
        BY <1>1, <2>2
      <3> QED BY <1>1, <2>2, <3>1, ParamsKnown
    <2>5. a \in CpuCells \cup {<<"expert", t>>}
      BY <2>1
    <2> HIDE DEF t
    <2>6. offloadSet = Range(ptr) /\ DOMAIN tensorToId = Range(ptr)
          /\ \A u \in DOMAIN ptr : ptr[u] \in DOMAIN tensorToId /\ tensorToId[ptr[u]] = u
      BY <2>3 DEF PointersKnown
    <2>7. a \notin offloadSet
      <3>1. CASE params[next].expert = None
        BY <2>1, <3>1
      <3>2. CASE params[next].expert # None
        <4>1. a = <<"expert", t>>
          BY <2>1, <3>2
        <4>2. \A u \in DOMAIN ptr : ptr[u] # a
          BY <2>3, <2>4, <4>1 DEF CpuCells
        <4> QED BY <2>6, <4>2 DEF Range
      <3> QED BY <3>1, <3>2
    <2>8. /\ DOMAIN ptr' = DOMAIN ptr \cup {t} /\ ptr'[t] = a
          /\ \A u \in DOMAIN ptr : ptr'[u] = ptr[u]
          /\ DOMAIN tensorToId' = DOMAIN tensorToId \cup {a} /\ tensorToId'[a] = t
          /\ \A b \in DOMAIN tensorToId : tensorToId'[b] = tensorToId[b]
      BY <2>1, <2>4, <2>6, <2>7 DEF With
    <2>9. PointersKnown'
      <3>1. \A u \in DOMAIN ptr' : ptr'[u] \in DOMAIN tensorToId' /\ tensorToId'[ptr'[u]] = u
        BY <2>6, <2>7, <2>8
      <3>2. Range(ptr') = Range(ptr) \cup {a}
        BY <2>4, <2>8 DEF Range
      <3> QED BY <2>1, <2>6, <2>8, <3>1, <3>2 DEF PointersKnown
    <2>10. DOMAIN ptr' = {params'[i].id : i \in 1 .. next' - 1}
      <3>1. \A i : i \in 1 .. next' - 1 <=> i \in 1 .. next - 1 \/ i = next
        BY <1>1, <2>2
      <3> QED BY <1>1, <2>3, <2>8, <3>1 DEF t
    <2>11. \A u \in DOMAIN ptr' : ptr'[u] \in CpuCells \cup {<<"expert", u>>}
      BY <2>3, <2>5, <2>8
    <2> QED BY <2>2, <2>9, <2>10, <2>11 DEF PtrInv
  <1>3. CASE BuildStages
    <2>1. UNCHANGED ptrVars /\ topoAt = "register" /\ topoAt' = "pool" /\ next > Len(params)
      BY <1>3 DEF BuildStages
    <2>2. next - 1 = Len(params)
      BY <1>1, <2>1
    <2>3. DOMAIN ptr = ParamIds
      BY <2>1, <2>2 DEF PtrInv, ParamIds
    <2> QED BY <1>1, <2>1, <2>3 DEF PtrInv, PointersKnown, ptrVars
  <1>4. ASSUME UNCHANGED ptrVars, topoAt # "register", topoAt' # "register",
               topoAt = "ready" => topoAt' = "ready" /\ place' = place
        PROVE  PtrInv'
    <2>1. DOMAIN ptr = ParamIds /\ DOMAIN ptr' = ParamIds'
      BY <1>1, <1>4 DEF PtrInv, ptrVars
    <2>2. PointersKnown'
      BY <1>4 DEF PtrInv, PointersKnown, ptrVars
    <2> QED BY <1>1, <1>4, <2>1, <2>2 DEF PtrInv, ptrVars, Gpu
  <1>5. CASE SetUpDensePool \/ PinDense \/ SparseToDisk \/ RegisterExperts \/ Ready
    BY Zenon, <1>4, <1>5 DEF SetUpDensePool, PinDense, SparseToDisk, RegisterExperts, Ready
  <1>6. CASE UNCHANGED <<ptrVars, builtVars>>
    <2>1. UNCHANGED <<ptr, tensorToId, offloadSet, place, topoAt, next>>
      BY <1>6 DEF ptrVars, builtVars
    <2>2. DOMAIN ptr' = IF topoAt' = "register" THEN {params'[i].id : i \in 1 .. next' - 1}
                        ELSE ParamIds'
      BY <1>1, <2>1 DEF PtrInv
    <2>3. PointersKnown'
      BY <2>1 DEF PtrInv, PointersKnown
    <2>4. \A u : Gpu(u)' = Gpu(u)
      BY <2>1 DEF Gpu
    <2>5. \A u \in DOMAIN ptr' :
            \/ ptr'[u] \in CpuCells \cup {<<"expert", u>>}
            \/ topoAt' = "ready" /\ u \in DenseIds' /\ ptr'[u] = Gpu(u)'
      BY <1>1, <2>1, <2>4 DEF PtrInv
    <2> QED BY <2>2, <2>3, <2>5 DEF PtrInv
  <1>7. ASSUME NEW t \in DenseIds, NEW a, Repoint(t, a), UNCHANGED builtVars, topoAt = "ready",
               a \in CpuCells \ Range(ptr) \/ a = Gpu(t)
        PROVE  PtrInv'
    <2>1. DOMAIN ptr = ParamIds /\ t \in ParamIds /\ PointersKnown /\ UNCHANGED <<topoAt, place>>
      BY <1>1, <1>7, ParamsKnown DEF PtrInv, DenseIds, ParamIds, builtVars
    <2>2. \A u, v \in DenseIds : place[u] = place[v] => u = v
      BY <1>7, PoolFilled
    <2>3. ASSUME NEW u \in DOMAIN ptr, u # t PROVE ptr[u] # a
      <3>1. CASE a \in CpuCells \ Range(ptr)
        BY <3>1 DEF Range
      <3>2. CASE a = Gpu(t)
        <4>1. CASE ptr[u] \in CpuCells \cup {<<"expert", u>>}
          BY <3>2, <4>1 DEF CpuCells, Gpu
        <4>2. CASE u \in DenseIds /\ ptr[u] = Gpu(u)
          BY <2>2, <2>3, <3>2, <4>2 DEF Gpu
        <4> QED BY <4>1, <4>2 DEF PtrInv
      <3> QED BY <1>7, <3>1, <3>2
    <2>4. /\ PointersKnown' /\ DOMAIN ptr' = DOMAIN ptr /\ ptr'[t] = a
          /\ \A u \in DOMAIN ptr : u # t => ptr'[u] = ptr[u]
      BY <1>7, <2>1, <2>3, RepointKnown
    <2>5. \A u : Gpu(u)' = Gpu(u)
      BY <2>1 DEF Gpu
    <2>6. ASSUME NEW u \in DOMAIN ptr'
          PROVE  \/ ptr'[u] \in CpuCells \cup {<<"expert", u>>}
                 \/ topoAt' = "ready" /\ u \in DenseIds' /\ ptr'[u] = Gpu(u)'
      <3>1. CASE u = t
        BY <1>1, <1>7, <2>1, <2>4, <2>5, <3>1
      <3>2. CASE u # t
        BY <1>1, <1>7, <2>1, <2>4, <2>5, <3>2 DEF PtrInv
      <3> QED BY <3>1, <3>2
    <2> QED BY <1>1, <1>7, <2>1, <2>4, <2>6 DEF PtrInv
  <1>8. ASSUME phase # "idle", todo # <<>>
        PROVE  Head(todo) \in DenseIds /\ tensorToId[ptr[Head(todo)]] = Head(todo) /\ topoAt = "ready"
    <2>1. Head(todo) \in DenseIds /\ Head(todo) \in ParamIds /\ topoAt = "ready"
      BY <1>8, TodoKnown
    <2> QED BY <2>1 DEF PtrInv, PointersKnown
  <1>9. CASE AcquireFirst \/ AcquireMore
    <2>1. /\ phase # "idle" /\ todo # <<>> /\ UNCHANGED builtVars
          /\ Repoint(Head(todo), Gpu(tensorToId[ptr[Head(todo)]]))
      BY <1>9 DEF AcquireFirst, StartExec, AcquireMore
    <2>2. Repoint(Head(todo), Gpu(Head(todo)))
      BY <1>8, <2>1
    <2>3. PICK t \in DenseIds : t = Head(todo)
      BY <1>8, <2>1
    <2>a. PICK a : a = Gpu(t)
      OBVIOUS
    <2>4. Repoint(t, a) /\ a = Gpu(t)
      BY <2>2, <2>3, <2>a
    <2> QED BY <1>7, <1>8, <2>1, <2>3, <2>4
  <1>10. CASE Release
    <2>1. phase # "idle" /\ todo # <<>> /\ UNCHANGED builtVars
      BY <1>10 DEF Release
    <2>2. PICK a \in Free : Repoint(Head(todo), a)
      BY <1>10 DEF Release
    <2>3. PICK t \in DenseIds : t = Head(todo)
      BY <1>8, <2>1
    <2>4. Repoint(t, a) /\ a \in CpuCells \ Range(ptr)
      BY <2>2, <2>3 DEF Free
    <2> QED BY <1>7, <1>8, <2>1, <2>4
  <1>11. CASE (\E m \in Modules : Enter(m)) \/ Forward \/ Return
    BY <1>6, <1>11 DEF Enter, Forward, Return
  <1> QED BY <1>2, <1>3, <1>5, <1>6, <1>9, <1>10, <1>11
          DEF Next, TopologyNext, Hook, vars, topologyVars, ptrVars, builtVars

\* The parameters of each module are tensors of one node.
LEMMA ModulesKnown ==
  ASSUME params \in Models, stages = StagesOf(GetTopology)
  PROVE  /\ \A m \in Modules :
              /\ Own(m) # {} /\ ParamsOf(m) # <<>> /\ ParamsOf(m) \in Seq(Own(m))
              /\ \A i, j \in 1 .. Len(ParamsOf(m)) : ParamsOf(m)[i] = ParamsOf(m)[j] => i = j
         /\ \A m : \A t \in Own(m) : /\ t \in DenseIds /\ NodeOf(t) \in Nat
                                     /\ Own(m) \subseteq TensorsOf(NodeOf(t))
         /\ \A m : \A t, u \in Own(m) : NodeOf(u) = NodeOf(t)
         /\ \A l, m : l # m => Own(l) \cap Own(m) = {}
         /\ \A t \in Own(params[1].module) : LayerOf(NodeOf(t)) = 0
  <1>1. DOMAIN params = 1 .. Len(params) /\ Len(params) \in Nat
    BY ParamsKnown
  <1>2. \A m : \A t : t \in Own(m) <=>
          \E i \in 1 .. Len(params) :
            params[i].id = t /\ params[i].module = m /\ params[i].expert = None
    BY OwnKnown
  <1>3. ASSUME NEW m, NEW t \in Own(m), NEW u \in Own(m)
        PROVE  t \in DenseIds /\ NodeOf(u) = NodeOf(t) /\ NodeOf(t) \in Nat /\ u \in TensorsOf(NodeOf(t))
    <2>1. PICK i \in 1 .. Len(params) :
            params[i].id = t /\ params[i].module = m /\ params[i].expert = None
      BY <1>2
    <2>2. PICK j \in 1 .. Len(params) :
            params[j].id = u /\ params[j].module = m /\ params[j].expert = None
      BY <1>2
    <2>3. t \in DenseIds /\ u \in DenseIds
      BY <1>1, <2>1, <2>2 DEF DenseIds
    <2>4. NodeOf(params[j].id) = NodeOf(params[i].id)
      BY <2>1, <2>2, DenseNodesKnown
    <2>5. NodeOf(t) \in Nat /\ u \in TensorsOf(NodeOf(u))
      BY <2>3, DenseNodesKnown
    <2> QED BY <2>1, <2>2, <2>3, <2>4, <2>5
  <1>4. ASSUME NEW l, NEW m, l # m PROVE Own(l) \cap Own(m) = {}
    <2> SUFFICES ASSUME NEW t \in Own(l), t \in Own(m) PROVE FALSE
      OBVIOUS
    <2>1. PICK i \in 1 .. Len(params) : params[i].id = t /\ params[i].module = l
      BY <1>2
    <2>2. PICK j \in 1 .. Len(params) : params[j].id = t /\ params[j].module = m
      BY <1>2
    <2>3. i = j
      BY <2>1, <2>2, ParamsKnown
    <2> QED BY <1>4, <2>1, <2>2, <2>3
  <1>5. ASSUME NEW t \in Own(params[1].module) PROVE LayerOf(NodeOf(t)) = 0
    <2>1. PICK m : m = params[1].module
      OBVIOUS
    <2>2. PICK i \in 1 .. Len(params) :
            params[i].id = t /\ params[i].module = m /\ params[i].expert = None
      BY <1>2, <2>1
    <2>3. 1 <= Len(params) /\ 1 \in 1 .. Len(params)
      BY <1>1
    <2>4. params[1].expert = None
      BY <2>3, NamesKnown
    <2>5. NodeOf(params[i].id) = NodeOf(params[1].id)
      BY <2>1, <2>2, <2>3, <2>4, DenseNodesKnown
    <2>6. LayerOf(NodeOf(params[1].id)) = 0
      BY <2>3, DenseNodesKnown
    <2> QED BY <2>2, <2>5, <2>6
  <1>6. ASSUME NEW m \in Modules
        PROVE  /\ Own(m) # {} /\ ParamsOf(m) # <<>> /\ ParamsOf(m) \in Seq(Own(m))
               /\ \A i, j \in 1 .. Len(ParamsOf(m)) : ParamsOf(m)[i] = ParamsOf(m)[j] => i = j
    <2>1. PICK i \in 1 .. Len(params) : params[i].module = m /\ params[i].expert = None
      BY <1>1 DEF Modules
    <2>2. params[i].id \in Own(m)
      BY <1>2, <2>1
    <2> DEFINE r == ParamsOf(m)
    <2>3. r \in Seq(DenseIds) /\ \A x, y \in 1 .. Len(r) : r[x] = r[y] => x = y
      BY OwnKnown
    <2>4. Own(m) = Range(r)
      BY DEF Own
    <2> HIDE DEF r
    <2>5. Len(r) \in Nat /\ r \in [1 .. Len(r) -> Own(m)]
      <3>1. Len(r) \in Nat /\ r \in [1 .. Len(r) -> DenseIds]
        BY <2>3
      <3> QED BY <2>4, <3>1 DEF Range
    <2>6. ASSUME NEW e \in Nat, NEW S, NEW z \in [1 .. e -> S] PROVE z \in Seq(S)
      BY SeqDef
    <2>7. r \in Seq(Own(m))
      BY <2>5, <2>6
    <2>8. r # <<>>
      BY <2>2, <2>4 DEF Range
    <2> QED BY <2>2, <2>3, <2>7, <2>8 DEF r
  <1> QED BY <1>3, <1>4, <1>5, <1>6

LEMMA HookInit == Init => HookInv
  <1> SUFFICES ASSUME Init PROVE HookInv
    OBVIOUS
  <1> QED BY DEF Init, HookInv

\* The steps of the hooks as the proofs use them: what the tensor maps return is the
\* parameter itself.
LEMMA HookMaps ==
  ASSUME Built, HookInv, PtrInv, phase # "idle", todo # <<>>
  PROVE  tensorToId[ptr[Head(todo)]] = Head(todo)
  <1>1. Head(todo) \in ParamIds /\ topoAt = "ready"
    BY TodoKnown
  <1> QED BY <1>1 DEF PtrInv, PointersKnown

LEMMA HookStep ==
  ASSUME Built, HookInv, PtrInv, [Next]_vars
  PROVE  HookInv'
  <1>1. params' = params /\ params \in Models /\ Built'
    BY BuiltStep DEF Built
  <1>2. Modules' = Modules /\ DenseIds' = DenseIds /\ \A m : Own(m)' = Own(m)
    BY <1>1, SameParams
  <1>3. CASE TopologyNext /\ UNCHANGED hookVars
    <2>1. topoAt # "ready"
      BY Zenon, <1>3 DEF TopologyNext, RegisterTensor, BuildStages, SetUpDensePool, PinDense,
        SparseToDisk, RegisterExperts, Ready
    <2> QED BY Zenon, <1>3, <2>1 DEF HookInv, hookVars, nodeVars
  <1>4. ASSUME UNCHANGED builtVars
        PROVE  /\ UNCHANGED <<topoAt, stages, params>>
               /\ \A t : NodeOf(t)' = NodeOf(t)
               /\ \A n : LayerOf(n)' = LayerOf(n)
    <2>1. stages' = stages
      BY <1>4 DEF builtVars
    <2> QED BY <1>4, <2>1, SameStages DEF builtVars
  <1>5. ASSUME UNCHANGED builtVars, UNCHANGED <<lastNode, lastLayer>>
        PROVE  /\ lastNode' = None => lastLayer' = 0
               /\ lastNode' # None => /\ lastLayer' = LayerOf(lastNode)'
                                      /\ \E t \in DenseIds' : lastNode' = NodeOf(t)'
    <2>1. LayerOf(lastNode)' = LayerOf(lastNode)
      <3>1. stages' = stages /\ lastNode' = lastNode
        BY <1>5 DEF builtVars
      <3> QED BY <3>1 DEF LayerOf, AllNodes
    <2>2. ASSUME lastNode # None PROVE \E t \in DenseIds' : lastNode' = NodeOf(t)'
      BY <1>2, <1>4, <1>5, <2>2 DEF HookInv
    <2> QED BY <1>5, <2>1, <2>2 DEF HookInv
  <1>6. CASE UNCHANGED vars
    <2>1. UNCHANGED builtVars /\ UNCHANGED <<lastNode, lastLayer, phase, module, todo, wanted, locked, execQueue>>
      BY <1>6 DEF vars, topologyVars, builtVars
    <2>2. UNCHANGED <<topoAt, params>>
      BY <2>1 DEF builtVars
    <2>3. Seq(Own(module))' = Seq(Own(module))
      <3>1. Own(module)' = Own(module)
        BY <2>1, <2>2 DEF Own, ParamsOf
      <3> QED BY <3>1
    <2> QED BY <1>2, <1>5, <2>1, <2>2, <2>3 DEF HookInv
  <1>7. ASSUME NEW m \in Modules, Enter(m) PROVE HookInv'
    <2>1. /\ topoAt = "ready" /\ (lastNode = None => m = params[1].module)
          /\ module' = m /\ phase' = "pre" /\ todo' = ParamsOf(m)
          /\ UNCHANGED builtVars /\ UNCHANGED <<lastNode, lastLayer>>
      BY <1>7 DEF Enter, nodeVars
    <2>2. stages = StagesOf(GetTopology)
      BY <2>1 DEF Built
    <2>3. /\ ParamsOf(m) \in Seq(Own(m))
          /\ \A i, j \in 1 .. Len(ParamsOf(m)) : ParamsOf(m)[i] = ParamsOf(m)[j] => i = j
      BY <1>1, <2>2, ModulesKnown
    <2>4. Own(module)' = Own(m)
      <3>1. PICK l : l = m
        OBVIOUS
      <3>2. ParamsOf(module)' = ParamsOf(m)
        BY <1>1, <2>1 DEF ParamsOf
      <3> QED BY <3>2 DEF Own
    <2>5. topoAt' = "ready"
      BY <2>1 DEF builtVars
    <2>6. todo' \in Seq(Own(module))' /\ \A i, j \in 1 .. Len(todo') : todo'[i] = todo'[j] => i = j
      BY <2>1, <2>3, <2>4
    <2> QED BY <1>1, <1>2, <1>5, <2>1, <2>5, <2>6 DEF HookInv
  <1>8. ASSUME phase # "idle", UNCHANGED builtVars, phase' \in {"pre", "post"}, module' = module,
               todo' \in Seq(Own(module)),
               \A i, j \in 1 .. Len(todo') : todo'[i] = todo'[j] => i = j,
               lastNode' = None => lastNode = None
        PROVE  /\ phase' \in {"pre", "post"} /\ topoAt' = "ready" /\ module' \in Modules'
               /\ todo' \in Seq(Own(module))'
               /\ \A i, j \in 1 .. Len(todo') : todo'[i] = todo'[j] => i = j
               /\ lastNode' = None => module' = params'[1].module
    <2>1. topoAt' = "ready" /\ module' \in Modules'
      BY <1>2, <1>8, TodoKnown DEF builtVars
    <2>2. Own(module)' = Own(module)
      <3>1. ParamsOf(module)' = ParamsOf(module)
        BY <1>1, <1>8 DEF ParamsOf
      <3> QED BY <3>1 DEF Own
    <2> QED BY <1>1, <1>8, <2>1, <2>2 DEF HookInv
  <1>9. CASE AcquireFirst \/ AcquireMore
    <2>1. /\ phase = "pre" /\ todo # <<>> /\ todo' = Tail(todo)
          /\ UNCHANGED builtVars /\ UNCHANGED <<module, phase, lastNode, lastLayer>>
      BY <1>9 DEF AcquireFirst, StartExec, AcquireMore, nodeVars
    <2>2. todo' \in Seq(Own(module)) /\ \A i, j \in 1 .. Len(todo') : todo'[i] = todo'[j] => i = j
      BY <2>1, TodoKnown
    <2> QED BY <1>5, <1>8, <2>1, <2>2 DEF HookInv
  <1>10. CASE Forward
    <2>1. /\ phase = "pre" /\ phase' = "post" /\ todo' = ParamsOf(module) /\ module' = module
          /\ UNCHANGED builtVars /\ UNCHANGED <<lastNode, lastLayer>>
      BY <1>10 DEF Forward, nodeVars
    <2>2. stages = StagesOf(GetTopology) /\ module \in Modules
      BY <2>1, TodoKnown
    <2>3. PICK m \in Modules : m = module
      BY <2>2
    <2>4. /\ ParamsOf(m) \in Seq(Own(m))
          /\ \A i, j \in 1 .. Len(ParamsOf(m)) : ParamsOf(m)[i] = ParamsOf(m)[j] => i = j
      BY <1>1, <2>2, ModulesKnown
    <2> QED BY <1>5, <1>8, <2>1, <2>3, <2>4 DEF HookInv
  <1>11. CASE Release
    <2> DEFINE t == Head(todo)
    <2>1. /\ phase = "post" /\ todo # <<>> /\ todo' = Tail(todo)
          /\ UNCHANGED builtVars /\ UNCHANGED <<module, phase>>
          /\ lastNode' = NodeOf(tensorToId[ptr[t]]) /\ lastLayer' = LayerOf(lastNode')
      BY <1>11 DEF Release
    <2>2. /\ todo' \in Seq(Own(module)) /\ \A i, j \in 1 .. Len(todo') : todo'[i] = todo'[j] => i = j
          /\ t \in DenseIds /\ stages = StagesOf(GetTopology)
      BY <2>1, TodoKnown
    <2>3. tensorToId[ptr[t]] = t
      BY <2>1, HookMaps
    <2> HIDE DEF t
    <2>4. lastNode' = NodeOf(t) /\ NodeOf(t) \in Nat /\ lastNode' # None
      BY <1>1, <2>1, <2>2, <2>3, DenseNodesKnown, ParamsKnown
    <2>5. lastLayer' = LayerOf(lastNode)'
      <3>1. stages' = stages
        BY <2>1 DEF builtVars
      <3> QED BY <2>1, <3>1 DEF LayerOf, AllNodes
    <2>6. \E u \in DenseIds' : lastNode' = NodeOf(u)'
      BY <1>2, <1>4, <2>1, <2>2, <2>4
    <2> QED BY <1>8, <2>1, <2>2, <2>4, <2>5, <2>6 DEF HookInv
  <1>12. CASE Return
    <2>1. /\ phase = "post" /\ todo = <<>> /\ module' = None /\ phase' = "idle" /\ todo' = todo
          /\ UNCHANGED builtVars /\ UNCHANGED <<lastNode, lastLayer>>
      BY <1>12 DEF Return, nodeVars
    <2>2. topoAt' = "ready"
      BY <2>1, TodoKnown DEF builtVars
    <2> QED BY <1>5, <2>1, <2>2 DEF HookInv
  <1> QED BY <1>3, <1>6, <1>7, <1>9, <1>10, <1>11, <1>12 DEF Next, Hook

\* The parameters whose node the running module may still hold.
Holds == IF phase = "pre" THEN Own(module) ELSE IF phase = "post" THEN Range(todo) ELSE {}

\* What is wanted of a module is all or nothing, or what its post hook has still to
\* release; and the node of the running module is wanted until that is done.
WantedInv ==
  /\ HeldWhileWanted
  /\ locked \subseteq {lastNode} \cup {NodeOf(t) : t \in Holds} /\ None \notin locked
  /\ topoAt = "ready" => \A m \in Modules : \A t \in Own(m) :
       Own(m) \cap Wanted(NodeOf(t))
         \in {{}, IF phase = "post" /\ m = module THEN Range(todo) ELSE Own(m)}
  /\ phase = "pre" /\ todo # ParamsOf(module) => \A t \in Own(module) : Wanted(NodeOf(t)) # {}
  /\ phase = "post" /\ todo # <<>> => \A t \in Own(module) : Wanted(NodeOf(t)) # {}

LEMMA WantedInit == Init => WantedInv
  <1> SUFFICES ASSUME Init PROVE WantedInv
    OBVIOUS
  <1>1. topoAt = "register" /\ phase = "idle" /\ wanted = <<>> /\ locked = {} /\ execQueue = {}
    BY DEF Init, TopologyInit
  <1> QED BY <1>1 DEF WantedInv, HeldWhileWanted

\* What a release does to the nodes: the last one is let go of if it is another.
LEMMA ReleaseKnown ==
  ASSUME Built, HookInv, PtrInv, WantedInv, phase = "post", todo # <<>>
  PROVE  LET t == Head(todo)  n == NodeOf(t) IN
         /\ t \in Own(module) /\ n \in Nat /\ Wanted(n) # {} /\ n \in locked
         /\ \A m : m \in Left(n) <=> m = lastNode /\ LayerOf(n) # lastLayer
                                      /\ lastNode # None /\ Wanted(lastNode) # {}
         /\ n \notin Left(n) /\ Left(n) \subseteq locked
         /\ DOMAIN Rest(t) = DOMAIN wanted /\ Rest(t)[n] = Wanted(n) \ {t}
         /\ \A m \in DOMAIN wanted : m # n => Rest(t)[m] = IF m \in Left(n) THEN {} ELSE wanted[m]
         /\ LayerOf(n) # lastLayer => lastNode # None
         /\ LayerOf(n) = lastLayer /\ lastNode # None => lastNode = n
         /\ Freed(n, Rest(t)) \subseteq locked
  <1> DEFINE t == Head(todo)
             n == NodeOf(t)
  <1>1. /\ params \in Models /\ stages = StagesOf(GetTopology) /\ module \in Modules
        /\ t \in Own(module) /\ topoAt = "ready" /\ t \in DenseIds
    BY TodoKnown
  <1>2. n \in Nat
    BY <1>1, DenseNodesKnown
  <1>3. Wanted(n) # {}
    BY <1>1 DEF WantedInv
  <1>4. n \in DOMAIN wanted /\ n \in locked
    BY <1>3 DEF WantedInv, HeldWhileWanted, Wanted
  <1>5. ASSUME LayerOf(n) # lastLayer PROVE lastNode # None /\ lastNode # n
    <2>1. ASSUME lastNode = None PROVE FALSE
      <3>1. lastLayer = 0 /\ module = params[1].module
        BY <1>1, <2>1 DEF HookInv
      <3>2. t \in Own(params[1].module)
        BY <1>1, <3>1
      <3> HIDE DEF t
      <3>3. LayerOf(NodeOf(t)) = 0
        BY <1>1, <3>2, ModulesKnown
      <3> QED BY <1>5, <3>1, <3>3
    <2>2. lastNode # n
      BY <1>5, <2>1 DEF HookInv
    <2> QED BY <2>1, <2>2
  <1>6. ASSUME LayerOf(n) = lastLayer, lastNode # None PROVE lastNode = n
    <2>1. PICK u \in DenseIds : lastNode = NodeOf(u)
      BY <1>6 DEF HookInv
    <2>2. LayerOf(NodeOf(u)) = LayerOf(n)
      BY <1>6, <2>1 DEF HookInv
    <2>3. NodeOf(u) = NodeOf(t)
      <3> HIDE DEF t
      <3> QED BY <1>1, <2>2, DenseNodesKnown
    <2> QED BY <2>1, <2>3
  <1> HIDE DEF t, n
  <1>7. \A m : m \in Left(n) <=> /\ m = lastNode /\ LayerOf(n) # lastLayer
                                 /\ lastNode # None /\ Wanted(lastNode) # {}
    BY DEF Left
  <1>8. n \notin Left(n)
    BY <1>5, <1>7
  <1>9. Left(n) \subseteq locked /\ Left(n) \subseteq DOMAIN wanted
    <2> SUFFICES ASSUME NEW m \in Left(n) PROVE m \in locked /\ m \in DOMAIN wanted
      OBVIOUS
    <2>1. Wanted(m) # {}
      BY <1>7
    <2> QED BY <2>1 DEF WantedInv, HeldWhileWanted, Wanted
  <1>10. Rest(t) = [m \in DOMAIN wanted \cup {n} |->
                      IF m = n THEN Wanted(m) \ {t} ELSE IF m \in Left(n) THEN {} ELSE wanted[m]]
    BY DEF Rest, n
  <1>11. /\ DOMAIN Rest(t) = DOMAIN wanted /\ Rest(t)[n] = Wanted(n) \ {t}
         /\ \A m \in DOMAIN wanted : m # n => Rest(t)[m] = IF m \in Left(n) THEN {} ELSE wanted[m]
    BY <1>4, <1>10
  <1>12. Freed(n, Rest(t)) \subseteq locked
    BY <1>4, <1>9 DEF Freed
  <1> QED BY <1>1, <1>2, <1>3, <1>4, <1>5, <1>6, <1>7, <1>8, <1>9, <1>11, <1>12 DEF t, n

LEMMA WantedStep ==
  ASSUME Built, HookInv, PtrInv, WantedInv, [Next]_vars
  PROVE  WantedInv'
  <1>1. params' = params /\ params \in Models
    BY BuiltStep DEF Built
  <1>2. Modules' = Modules /\ \A m : Own(m)' = Own(m) /\ ParamsOf(m)' = ParamsOf(m)
    BY <1>1, SameParams
  <1>3. CASE TopologyNext /\ UNCHANGED hookVars
    <2>1. topoAt # "ready"
      BY Zenon, <1>3 DEF TopologyNext, RegisterTensor, BuildStages, SetUpDensePool, PinDense,
        SparseToDisk, RegisterExperts, Ready
    <2>2. phase' = "idle" /\ wanted' = <<>> /\ locked' = {} /\ execQueue' = {}
      BY <1>3, <2>1 DEF HookInv, hookVars, nodeVars
    <2>3. \A n : Wanted(n)' = {}
      BY <2>2 DEF Wanted
    <2> QED BY Zenon, <2>2, <2>3 DEF WantedInv, HeldWhileWanted
  <1>4. ASSUME UNCHANGED builtVars
        PROVE  topoAt' = topoAt /\ \A t : NodeOf(t)' = NodeOf(t)
    <2>1. stages' = stages
      BY <1>4 DEF builtVars
    <2> QED BY <1>4, <2>1, SameStages DEF builtVars
  <1>5. ASSUME UNCHANGED builtVars, module' = module PROVE Own(module)' = Own(module) /\ ParamsOf(module)' = ParamsOf(module)
    <2>1. ParamsOf(module)' = ParamsOf(module)
      BY <1>1, <1>5 DEF ParamsOf
    <2> QED BY <2>1 DEF Own
  <1>6. ASSUME wanted' = wanted, locked' = locked, execQueue' = execQueue
        PROVE  HeldWhileWanted' /\ \A n : Wanted(n)' = Wanted(n)
    BY <1>6 DEF WantedInv, HeldWhileWanted, Wanted
  <1>7. CASE UNCHANGED vars
    <2>1. UNCHANGED builtVars /\ UNCHANGED <<module, phase, todo, wanted, locked, execQueue, lastNode>>
      BY <1>7 DEF vars, topologyVars, builtVars
    <2>2. Holds' = Holds
      BY <1>5, <2>1 DEF Holds
    <2>3. {NodeOf(t) : t \in Holds}' = {NodeOf(t) : t \in Holds}
      BY <1>4, <2>1, <2>2
    <2>4. topoAt' = topoAt /\ HeldWhileWanted' /\ \A t : Wanted(NodeOf(t))' = Wanted(NodeOf(t))
      BY <1>4, <1>6, <2>1 DEF Wanted
    <2> QED BY <1>2, <1>5, <2>1, <2>3, <2>4 DEF WantedInv
  <1>8. ASSUME NEW m \in Modules, Enter(m) PROVE WantedInv'
    <2>1. /\ UNCHANGED builtVars /\ UNCHANGED <<wanted, locked, execQueue, lastNode>>
          /\ module = None /\ module' = m /\ phase' = "pre" /\ todo' = ParamsOf(m) /\ topoAt = "ready"
      BY <1>8 DEF Enter, nodeVars
    <2>2. phase = "idle"
      BY <2>1, TodoKnown
    <2>3. locked' \subseteq {lastNode'}
      BY <2>1, <2>2 DEF WantedInv, Holds
    <2>4. ParamsOf(module)' = ParamsOf(m)
      BY <1>1, <2>1 DEF ParamsOf
    <2>5. topoAt' = topoAt /\ HeldWhileWanted' /\ \A t : Wanted(NodeOf(t))' = Wanted(NodeOf(t))
      BY <1>4, <1>6, <2>1 DEF Wanted
    <2>6. \A l \in Modules : \A t \in Own(l) : Own(l) \cap Wanted(NodeOf(t)) \in {{}, Own(l)}
      BY <2>1, <2>2 DEF WantedInv
    <2> QED BY <1>2, <2>1, <2>3, <2>4, <2>5, <2>6 DEF WantedInv
  <1>9. CASE AcquireFirst
    <2> DEFINE t == Head(todo)
               n == NodeOf(t)
    <2>0. /\ phase = "pre" /\ todo # <<>> /\ UNCHANGED builtVars
          /\ UNCHANGED <<module, phase, lastNode>>
      BY <1>9 DEF AcquireFirst, StartExec
    <2>1. tensorToId[ptr[t]] = t
      BY <2>0, HookMaps
    <2>2. /\ Wanted(n) = {} /\ n \notin locked /\ wanted' = With(wanted, n, TensorsOf(n))
          /\ locked' = locked \cup {n} /\ execQueue' = execQueue \cup {n}
      BY <1>9, <2>1 DEF AcquireFirst, StartExec
    <2>3. /\ params \in Models /\ stages = StagesOf(GetTopology) /\ module \in Modules
          /\ t \in Own(module) /\ topoAt = "ready"
      BY <2>0, TodoKnown
    <2>4. /\ \A m : \A u \in Own(m) : Own(m) \subseteq TensorsOf(NodeOf(u))
          /\ \A m : \A u, v \in Own(m) : NodeOf(u) = NodeOf(v)
      BY <2>3, ModulesKnown
    <2>5. \A m : \A u \in Own(m) : u \in TensorsOf(NodeOf(u))
      BY <2>4
    <2>6. TensorsOf(n) # {} /\ n # None
      <3>1. Own(module) \subseteq DenseIds
        BY <2>0, TodoKnown
      <3>2. n \in Nat /\ None \notin Nat
        BY <2>3, <3>1, DenseNodesKnown, ParamsKnown
      <3> QED BY <2>3, <2>5, <3>2
    <2> HIDE DEF n, t
    <2>7. DOMAIN wanted' = DOMAIN wanted \cup {n}
          /\ \A m : Wanted(m)' = IF m = n THEN TensorsOf(n) ELSE Wanted(m)
      BY <2>2 DEF With, Wanted
    <2>8. HeldWhileWanted'
      <3>1. locked = {m \in DOMAIN wanted : Wanted(m) # {}} /\ execQueue = locked
        BY DEF WantedInv, HeldWhileWanted
      <3>2. \A m : m \in locked' <=> m \in DOMAIN wanted' /\ Wanted(m)' # {}
        BY <2>2, <2>6, <2>7, <3>1
      <3>3. execQueue' = locked'
        BY <2>2, <3>1
      <3> QED BY <3>2, <3>3 DEF HeldWhileWanted
    <2>9. locked' \subseteq {lastNode'} \cup {NodeOf(u) : u \in Holds}'
      <3>1. Holds = Own(module) /\ Holds' = Own(module)
        BY <1>5, <2>0 DEF Holds
      <3>2. {NodeOf(u) : u \in Holds}' = {NodeOf(u) : u \in Own(module)}
        BY <1>4, <2>0, <3>1
      <3>3. n \in {NodeOf(u) : u \in Own(module)}
        BY <2>3 DEF n
      <3> QED BY <2>0, <2>2, <3>1, <3>2, <3>3 DEF WantedInv
    <2>10. \A u : Wanted(NodeOf(u))' = IF NodeOf(u) = n THEN TensorsOf(n) ELSE Wanted(NodeOf(u))
      <3>1. \A u : Wanted(NodeOf(u))' = IF NodeOf(u)' = n THEN TensorsOf(n) ELSE Wanted(NodeOf(u)')
        BY <2>7 DEF Wanted
      <3> QED BY <1>4, <2>0, <3>1
    <2>11. ASSUME NEW m \in Modules, NEW u \in Own(m)
           PROVE  Own(m) \cap Wanted(NodeOf(u))' \in {{}, Own(m)}
      <3>1. CASE NodeOf(u) = n
        <4>1. Own(m) \subseteq TensorsOf(n)
          BY <2>4, <3>1
        <4> QED BY <2>10, <3>1, <4>1
      <3>2. CASE NodeOf(u) # n
        BY <2>0, <2>3, <2>10, <3>2 DEF WantedInv
      <3> QED BY <3>1, <3>2
    <2>12. \A u \in Own(module) : Wanted(NodeOf(u))' # {}
      <3>1. \A u \in Own(module) : NodeOf(u) = n
        BY <2>3, <2>4 DEF n
      <3> QED BY <2>6, <2>10, <3>1
    <2>13. None \notin locked'
      BY <2>2, <2>6 DEF WantedInv
    <2> QED BY <1>2, <1>5, <2>0, <2>8, <2>9, <2>11, <2>12, <2>13 DEF WantedInv
  <1>10. CASE AcquireMore
    <2> DEFINE t == Head(todo)
    <2>0. /\ phase = "pre" /\ todo # <<>> /\ UNCHANGED builtVars
          /\ UNCHANGED <<module, phase, lastNode, wanted, locked, execQueue>>
      BY <1>10 DEF AcquireMore, nodeVars
    <2>1. tensorToId[ptr[t]] = t
      BY <2>0, HookMaps
    <2>2. Wanted(NodeOf(t)) # {}
      BY <1>10, <2>1 DEF AcquireMore
    <2>3. /\ params \in Models /\ stages = StagesOf(GetTopology) /\ t \in Own(module) /\ topoAt = "ready"
      BY <2>0, TodoKnown
    <2> HIDE DEF t
    <2>4. \A u \in Own(module) : NodeOf(u) = NodeOf(t)
      BY <2>3, ModulesKnown
    <2>5. HeldWhileWanted' /\ \A u : Wanted(NodeOf(u))' = Wanted(NodeOf(u))
      BY <1>4, <1>6, <2>0 DEF Wanted
    <2>6. locked' \subseteq {lastNode'} \cup {NodeOf(u) : u \in Holds}'
      <3>1. Holds' = Holds
        BY <1>5, <2>0 DEF Holds
      <3>2. {NodeOf(u) : u \in Holds}' = {NodeOf(u) : u \in Holds}
        BY <1>4, <2>0, <3>1
      <3> QED BY <2>0, <3>2 DEF WantedInv
    <2>7. \A m \in Modules : \A u \in Own(m) : Own(m) \cap Wanted(NodeOf(u))' \in {{}, Own(m)}
      BY <2>0, <2>3, <2>5 DEF WantedInv
    <2>8. \A u \in Own(module) : Wanted(NodeOf(u))' # {}
      BY <2>2, <2>4, <2>5
    <2> QED BY <1>2, <1>5, <2>0, <2>5, <2>6, <2>7, <2>8 DEF WantedInv
  <1>11. CASE Forward
    <2>0. /\ phase = "pre" /\ todo = <<>> /\ phase' = "post" /\ todo' = ParamsOf(module)
          /\ UNCHANGED builtVars /\ UNCHANGED <<module, lastNode, wanted, locked, execQueue>>
      BY <1>11 DEF Forward, nodeVars
    <2>1. /\ params \in Models /\ stages = StagesOf(GetTopology) /\ module \in Modules /\ topoAt = "ready"
      BY <2>0, TodoKnown
    <2>2. ParamsOf(module) # <<>> /\ Range(ParamsOf(module)) = Own(module)
      BY <2>1, ModulesKnown DEF Own
    <2>3. HeldWhileWanted' /\ \A u : Wanted(NodeOf(u))' = Wanted(NodeOf(u))
      BY <1>4, <1>6, <2>0 DEF Wanted
    <2>4. locked' \subseteq {lastNode'} \cup {NodeOf(u) : u \in Holds}'
      <3>1. Holds' = Holds
        BY <1>5, <2>0, <2>2 DEF Holds
      <3>2. {NodeOf(u) : u \in Holds}' = {NodeOf(u) : u \in Holds}
        BY <1>4, <2>0, <3>1
      <3> QED BY <2>0, <3>2 DEF WantedInv
    <2>5. \A m \in Modules : \A u \in Own(m) : Own(m) \cap Wanted(NodeOf(u))' \in {{}, Own(m)}
      BY <2>0, <2>1, <2>3 DEF WantedInv
    <2>6. \A u \in Own(module) : Wanted(NodeOf(u))' # {}
      BY <2>0, <2>2, <2>3 DEF WantedInv
    <2>7. Range(todo') = Own(module)
      BY <2>0, <2>2
    <2> QED BY <1>2, <1>5, <2>0, <2>3, <2>4, <2>5, <2>6, <2>7 DEF WantedInv
  <1>12. CASE Return
    <2>0. /\ phase = "post" /\ todo = <<>> /\ phase' = "idle"
          /\ UNCHANGED builtVars /\ UNCHANGED <<lastNode, wanted, locked, execQueue>>
      BY <1>12 DEF Return, nodeVars
    <2>1. topoAt = "ready"
      BY <2>0, TodoKnown
    <2>2. HeldWhileWanted' /\ \A u : Wanted(NodeOf(u))' = Wanted(NodeOf(u))
      BY <1>4, <1>6, <2>0 DEF Wanted
    <2>3. Range(todo) = {}
      BY <2>0 DEF Range
    <2>4. locked' \subseteq {lastNode'}
      BY <2>0, <2>3 DEF WantedInv, Holds
    <2>5. \A m \in Modules : \A u \in Own(m) : Own(m) \cap Wanted(NodeOf(u))' \in {{}, Own(m)}
      BY <2>0, <2>1, <2>2, <2>3 DEF WantedInv
    <2> QED BY <1>2, <2>0, <2>2, <2>4, <2>5 DEF WantedInv
  <1>13. CASE Release
    <2> DEFINE t == Head(todo)
               n == NodeOf(t)
    <2>0. /\ phase = "post" /\ todo # <<>> /\ UNCHANGED builtVars /\ UNCHANGED <<module, phase>>
          /\ todo' = Tail(todo)
      BY <1>13 DEF Release
    <2>1. tensorToId[ptr[t]] = t
      BY <2>0, HookMaps
    <2>2. /\ wanted' = Rest(t) /\ locked' = locked \ Freed(n, Rest(t))
          /\ execQueue' = execQueue \ Freed(n, Rest(t)) /\ lastNode' = n
      BY <1>13, <2>1 DEF Release
    <2>3. /\ params \in Models /\ stages = StagesOf(GetTopology) /\ module \in Modules
          /\ t \in Own(module) /\ topoAt = "ready" /\ module # None
          /\ Range(Tail(todo)) = Range(todo) \ {t} /\ Range(todo) \subseteq Own(module)
          /\ t \in Range(todo)
      BY <2>0, TodoKnown
    <2>4. /\ \A m : \A u, v \in Own(m) : NodeOf(u) = NodeOf(v)
          /\ \A l, m : l # m => Own(l) \cap Own(m) = {}
      BY <2>3, ModulesKnown
    <2>5. /\ Wanted(n) # {} /\ n \in locked /\ (LayerOf(n) # lastLayer => lastNode # None)
          /\ \A m : m \in Left(n) <=> /\ m = lastNode /\ LayerOf(n) # lastLayer
                                      /\ lastNode # None /\ Wanted(lastNode) # {}
          /\ n \notin Left(n) /\ Left(n) \subseteq locked
          /\ DOMAIN Rest(t) = DOMAIN wanted /\ Rest(t)[n] = Wanted(n) \ {t}
          /\ \A m \in DOMAIN wanted : m # n => Rest(t)[m] = IF m \in Left(n) THEN {} ELSE wanted[m]
          /\ LayerOf(n) = lastLayer /\ lastNode # None => lastNode = n
      BY <2>0, ReleaseKnown
    <2> HIDE DEF n, t
    <2>6. \A m : Wanted(m)' = IF m = n THEN Wanted(n) \ {t}
                              ELSE IF m \in Left(n) THEN {} ELSE Wanted(m)
      <3> TAKE m
      <3>1. Wanted(m)' = IF m \in DOMAIN wanted THEN Rest(t)[m] ELSE {}
        BY <2>2, <2>5 DEF Wanted
      <3>2. n \in DOMAIN wanted
        BY <2>5 DEF Wanted
      <3> QED BY <2>5, <3>1, <3>2 DEF Wanted
    <2>7. locked = {m \in DOMAIN wanted : Wanted(m) # {}} /\ execQueue = locked
      BY DEF WantedInv, HeldWhileWanted
    <2>8. \A m : m \in Freed(n, Rest(t)) <=> m \in Left(n) \/ (m = n /\ Wanted(n) \ {t} = {})
      BY <2>5 DEF Freed
    <2>9. HeldWhileWanted'
      <3>1. DOMAIN wanted' = DOMAIN wanted
        BY <2>2, <2>5
      <3>2. ASSUME NEW m PROVE m \in locked' <=> m \in DOMAIN wanted' /\ Wanted(m)' # {}
        <4>1. CASE m = n
          BY <2>2, <2>5, <2>6, <2>7, <2>8, <3>1, <4>1
        <4>2. CASE m # n
          BY <2>2, <2>6, <2>7, <2>8, <3>1, <4>2
        <4> QED BY <4>1, <4>2
      <3>3. execQueue' = locked'
        BY <2>2, <2>7
      <3> QED BY <3>2, <3>3 DEF HeldWhileWanted
    <2>10. locked' \subseteq {lastNode'}
      <3> SUFFICES ASSUME NEW m \in locked' PROVE m = n
        BY <2>2
      <3>1. m \in locked /\ m \notin Left(n) /\ Wanted(m) # {}
        BY <2>2, <2>7, <2>8
      <3>2. Holds = Range(todo)
        BY <2>0 DEF Holds
      <3>3. \A u \in Range(todo) : NodeOf(u) = n
        BY <2>3, <2>4 DEF n
      <3>4. m = lastNode \/ m = n
        BY <3>1, <3>2, <3>3 DEF WantedInv
      <3>5. m # None
        BY <3>1 DEF WantedInv
      <3> QED BY <2>5, <3>1, <3>4, <3>5
    <2>11. \A u : Wanted(NodeOf(u))' = IF NodeOf(u) = n THEN Wanted(n) \ {t}
                    ELSE IF NodeOf(u) \in Left(n) THEN {} ELSE Wanted(NodeOf(u))
      <3>1. \A u : Wanted(NodeOf(u))' = IF NodeOf(u)' = n THEN Wanted(n) \ {t}
                     ELSE IF NodeOf(u)' \in Left(n) THEN {} ELSE Wanted(NodeOf(u)')
        BY <2>6 DEF Wanted
      <3> QED BY <1>4, <2>0, <3>1
    <2>12. ASSUME NEW m \in Modules, NEW u \in Own(m), m # module
           PROVE  Own(m) \cap Wanted(NodeOf(u))' \in {{}, Own(m)}
      <3>1. Own(m) \cap Wanted(NodeOf(u)) \in {{}, Own(m)}
        BY <2>3, <2>12 DEF WantedInv
      <3>2. t \notin Own(m)
        BY <2>3, <2>4, <2>12
      <3>3. Own(m) \cap (Wanted(n) \ {t}) = Own(m) \cap Wanted(n)
        BY <3>2
      <3> QED BY <2>11, <3>1, <3>3
    <2>13. ASSUME NEW u \in Own(module)
           PROVE  /\ Own(module) \cap Wanted(NodeOf(u))' \in {{}, Range(todo')}
                  /\ todo' # <<>> => Wanted(NodeOf(u))' # {}
      <3>1. NodeOf(u) = n
        BY <2>3, <2>4 DEF n
      <3>2. Own(module) \cap Wanted(n) \in {{}, Range(todo)}
        BY <2>0, <2>3, <3>1 DEF WantedInv
      <3>3. Wanted(NodeOf(u))' = Wanted(n) \ {t} /\ Range(todo') = Range(todo) \ {t}
        BY <2>0, <2>3, <2>11, <3>1
      <3>4. ASSUME todo' # <<>> PROVE Wanted(n) \ {t} # {}
        <4>1. Range(todo') # {}
          <5>1. todo' \in Seq(Own(module))
            BY <2>0, TodoKnown DEF t
          <5>2. 1 \in DOMAIN todo'
            BY <3>4, <5>1
          <5> QED BY <5>2 DEF Range
        <4>2. CASE Own(module) \cap Wanted(n) = {}
          BY <2>3, <2>5, <4>2
        <4>3. CASE Own(module) \cap Wanted(n) = Range(todo)
          BY <3>3, <4>1, <4>3
        <4> QED BY <3>2, <4>2, <4>3
      <3>5. Own(module) \cap (Wanted(n) \ {t}) \in {{}, Range(todo')}
        BY <3>2, <3>3
      <3> QED BY <3>3, <3>4, <3>5
    <2>14. None \notin locked'
      BY <2>2 DEF WantedInv
    <2> QED BY <1>2, <1>5, <2>0, <2>9, <2>10, <2>12, <2>13, <2>14 DEF WantedInv
  <1> QED BY <1>3, <1>7, <1>8, <1>9, <1>10, <1>11, <1>12, <1>13 DEF Next, Hook

-----------------------------------------------------------------------------
(* What every state of the start-up and of the passes has.                 *)

StartInv == Built /\ PoolInv /\ RegInv /\ PtrInv /\ HookInv /\ WantedInv

LEMMA StartInvInit == Init => StartInv
  BY BuiltInit, PoolInit, RegInit, PtrInit, HookInit, WantedInit DEF StartInv

LEMMA StartInvStep == StartInv /\ [Next]_vars => StartInv'
  <1> SUFFICES ASSUME StartInv, [Next]_vars PROVE StartInv'
    OBVIOUS
  <1>1. Built /\ PoolInv /\ RegInv /\ PtrInv /\ HookInv /\ WantedInv
    BY DEF StartInv
  <1>2. Built' /\ PoolInv' /\ RegInv' /\ PtrInv' /\ HookInv' /\ WantedInv'
    BY <1>1, BuiltStep, PoolStep, RegStep, PtrStep, HookStep, WantedStep
  <1> QED BY <1>2 DEF StartInv

\* Of the steps of StartNext only those of Next touch the topology and the hooks.
LEMMA StartUpRefinesNodes == [StartNext]_<<planVars, vars>> => [Next]_vars
  BY DEF StartNext

LEMMA StartInvAlways == StartSpec => []StartInv
  <1>1. StartInit => StartInv
    BY StartInvInit DEF StartInit
  <1>2. StartInv /\ [StartNext]_<<planVars, vars>> => StartInv'
    BY StartInvStep, StartUpRefinesNodes
  <1> QED BY <1>1, <1>2, PTL DEF StartSpec

\* For every model, however its names and sizes fall: the dense parameters divide
\* the pool that InitializeTopology sized for them, without overlap and without a
\* byte to spare.
THEOREM DensePoolPartitioned == StartSpec => []PoolPartitioned
  <1>1. StartInv => PoolPartitioned
    <2>1. CASE topoAt \in {"experts", "ready"}
      BY <2>1, PoolFilled DEF StartInv
    <2>2. CASE topoAt \notin {"experts", "ready"}
      BY <2>2 DEF PoolPartitioned
    <2> QED BY <2>1, <2>2
  <1> QED BY <1>1, StartInvAlways, PTL

\* However the names of the experts and of other parameters are mixed: every expert
\* that a router can call is found at its block and number, in the node that holds
\* its matrices in their order, and the table has no other entries.
THEOREM ExpertsWhereAsked == StartSpec => []ExpertsInPlace
  <1>1. StartInv => ExpertsInPlace
    <2>1. CASE topoAt = "ready"
      BY <2>1, ExpertsFound DEF StartInv
    <2>2. CASE topoAt # "ready"
      BY <2>2 DEF ExpertsInPlace
    <2> QED BY <2>1, <2>2
  <1> QED BY <1>1, StartInvAlways, PTL

\* However often the hooks move parameters to the GPU and back, and whichever of
\* the freed addresses the allocator hands out again: the maps of both sides know
\* the current pointers and no other.
THEOREM PointersAlwaysKnown == StartSpec => []PointersKnown
  <1>1. StartInv => PointersKnown
    BY DEF StartInv, PtrInv
  <1> QED BY <1>1, StartInvAlways, PTL

\* In whatever order the modules run: a dense node is locked and in the exec queue
\* exactly as long as one of its tensors is wanted.
THEOREM NodesHeldWhileWanted == StartSpec => []HeldWhileWanted
  <1>1. StartInv => HeldWhileWanted
    BY DEF StartInv, WantedInv
  <1> QED BY <1>1, StartInvAlways, PTL

\* Nodes that modules leave half used do not pile up: between two modules only the
\* one released last can be held.
THEOREM OnlyLastNodeHeld == StartSpec => []OnlyLastHeld
  <1>1. StartInv => OnlyLastHeld
    <2> SUFFICES ASSUME StartInv, module = None PROVE locked \subseteq {lastNode}
      BY DEF OnlyLastHeld
    <2>1. Built /\ HookInv /\ WantedInv
      BY DEF StartInv
    <2>2. phase = "idle"
      BY <2>1, TodoKnown
    <2> QED BY <2>1, <2>2 DEF WantedInv, Holds
  <1> QED BY <1>1, StartInvAlways, PTL

\* No hook locks a mutex that its own thread holds, unlocks one that is not held,
\* or looks at the last node when there is none, whatever modules ran before.
THEOREM HooksAreSafe == StartSpec => []NextHookIsSafe
  <1>1. StartInv => NextHookIsSafe
    <2> SUFFICES ASSUME StartInv, phase # "idle", todo # <<>>,
                        NEW n, n = NodeOf(Head(todo))
                 PROVE  IF phase = "pre" THEN Wanted(n) = {} => n \notin locked
                        ELSE /\ LayerOf(n) # lastLayer => lastNode # None
                             /\ Freed(n, Rest(Head(todo))) \subseteq locked
      BY DEF NextHookIsSafe
    <2>1. Built /\ PtrInv /\ HookInv /\ WantedInv
      BY DEF StartInv
    <2>2. phase \in {"pre", "post"}
      BY <2>1, TodoKnown
    <2>3. CASE phase = "pre"
      BY <2>1, <2>3 DEF WantedInv, HeldWhileWanted
    <2>4. CASE phase = "post"
      BY <2>1, <2>4, ReleaseKnown
    <2> QED BY <2>2, <2>3, <2>4
  <1> QED BY <1>1, StartInvAlways, PTL

-----------------------------------------------------------------------------
(* Sums and products over sets.                                            *)

\* Induction over the parts of a finite set.
LEMMA SetsByParts ==
  ASSUME NEW S, IsFiniteSet(S), NEW P, \A T \in SUBSET S : (\A x \in T : T \ {x} \in P) => T \in P
  PROVE  S \in P /\ \A T \in SUBSET S : T \in P
  <1> DEFINE E == {n \in Nat : \A T \in SUBSET S : Cardinality(T) = n => T \in P}
  <1>1. \A T \in SUBSET S : IsFiniteSet(T) /\ Cardinality(T) \in Nat
    BY FS_Subset, FS_CardinalityType
  <1>2. 0 \in E
    <2> SUFFICES ASSUME NEW T \in SUBSET S, Cardinality(T) = 0 PROVE T \in P
      OBVIOUS
    <2>1. T = {}
      BY <1>1, FS_EmptySet
    <2> QED BY <2>1
  <1>3. ASSUME NEW n \in E PROVE n + 1 \in E
    <2> SUFFICES ASSUME NEW T \in SUBSET S, Cardinality(T) = n + 1 PROVE T \in P
      OBVIOUS
    <2> SUFFICES ASSUME NEW x \in T PROVE T \ {x} \in P
      OBVIOUS
    <2>1. Cardinality(T \ {x}) = Cardinality(T) - 1
      BY <1>1, FS_RemoveElement
    <2>2. T \ {x} \in SUBSET S
      OBVIOUS
    <2> QED BY <2>1, <2>2
  <1>4. E \subseteq Nat
    OBVIOUS
  <1> HIDE DEF E
  <1>5. E = Nat
    BY <1>2, <1>3, <1>4, NatBySteps
  <1> QED BY <1>1, <1>5 DEF E

-----------------------------------------------------------------------------
(* Folds over a finite set, whose value stays in D.                        *)

Ops(S, D) == [S \X D -> D]
Commuting(O, S, D) == \A x, y \in S, d \in D : O[<<x, O[<<y, d>>]>>] = O[<<y, O[<<x, d>>]>>]
Choosing(C, S) == \A s \in SUBSET S : s # {} => C[s] \in s

\* it[s] is the fold over s, from b on, as MapThenFoldSet takes it.
Folding(it, S, D, b, O, C) ==
  /\ it[{}] = b
  /\ \A s \in SUBSET S : s # {} /\ it[s \ {C[s]}] \in D =>
       it[s] = O[<<C[s], it[s \ {C[s]}]>>]
Folded(it, S, D, b, O, C) ==
  it = [s \in SUBSET S |-> IF s = {} THEN b ELSE O[<<C[s], it[s \ {C[s]}]>>]]

LEMMA FoldTyped ==
  ASSUME NEW S, IsFiniteSet(S), NEW D, NEW b \in D, NEW U, S \subseteq U, NEW O \in Ops(U, D), NEW C,
         Choosing(C, S), NEW it, Folding(it, S, D, b, O, C)
  PROVE  \A s \in SUBSET S : it[s] \in D
  <1> DEFINE P == {s \in SUBSET S : it[s] \in D}
  <1>1. ASSUME NEW T \in SUBSET S, \A x \in T : T \ {x} \in P PROVE T \in P
    <2>1. CASE T = {}
      BY <2>1 DEF Folding
    <2>2. CASE T # {}
      <3>1. C[T] \in T /\ it[T \ {C[T]}] \in D
        BY <1>1, <2>2 DEF Choosing
      <3>2. it[T] = O[<<C[T], it[T \ {C[T]}]>>]
        BY <2>2, <3>1 DEF Folding
      <3>3. <<C[T], it[T \ {C[T]}]>> \in U \X D
        BY <3>1
      <3>4. O[<<C[T], it[T \ {C[T]}]>>] \in D
        BY <3>3 DEF Ops
      <3> QED BY <3>2, <3>4
    <2> QED BY <2>1, <2>2
  <1> HIDE DEF P
  <1>2. \A T \in SUBSET S : T \in P
    BY <1>1, SetsByParts
  <1> QED BY <1>2 DEF P

LEMMA FoldAnyOrder ==
  ASSUME NEW S, IsFiniteSet(S), NEW D, NEW b \in D, NEW U, S \subseteq U, NEW O \in Ops(U, D), NEW C,
         Choosing(C, S), NEW it, Folding(it, S, D, b, O, C),
         Commuting(O, U, D)
  PROVE  \A s \in SUBSET S : \A x \in s : it[s] = O[<<x, it[s \ {x}]>>]
  <1> DEFINE P == {s \in SUBSET S : \A x \in s : it[s] = O[<<x, it[s \ {x}]>>]}
  <1>0. \A s \in SUBSET S : it[s] \in D
    BY FoldTyped
  <1>1. ASSUME NEW T \in SUBSET S, \A x \in T : T \ {x} \in P PROVE T \in P
    <2> SUFFICES ASSUME NEW x \in T PROVE it[T] = O[<<x, it[T \ {x}]>>]
      OBVIOUS
    <2>1. PICK c : c = C[T]
      OBVIOUS
    <2>2. c \in T
      BY <2>1 DEF Choosing
    <2>3. it[T] = O[<<c, it[T \ {c}]>>]
      <3>1. it[T \ {c}] \in D
        BY <1>0
      <3> QED BY <2>1, <3>1 DEF Folding
    <2>4. CASE x = c
      BY <2>3, <2>4
    <2>5. CASE x # c
      <3> DEFINE R == (T \ {c}) \ {x}
      <3>1. R \in SUBSET S /\ R = (T \ {x}) \ {c} /\ x \in T \ {c} /\ c \in T \ {x}
        BY <2>2, <2>5
      <3>2. it[T \ {c}] = O[<<x, it[R]>>]
        BY <1>1, <2>2, <3>1
      <3>3. it[T \ {x}] = O[<<c, it[R]>>]
        <4>1. T \ {x} \in P
          BY <1>1
        <4>2. it[T \ {x}] = O[<<c, it[(T \ {x}) \ {c}]>>]
          BY <3>1, <4>1
        <4> QED BY <3>1, <4>2
      <3> HIDE DEF R
      <3>4. it[R] \in D /\ x \in U /\ c \in U
        BY <1>0, <2>2, <3>1
      <3>5. O[<<c, O[<<x, it[R]>>]>>] = O[<<x, O[<<c, it[R]>>]>>]
        BY <3>4 DEF Commuting
      <3> QED BY <2>3, <3>2, <3>3, <3>5
    <2> QED BY <2>4, <2>5
  <1> HIDE DEF P
  <1>2. \A T \in SUBSET S : T \in P
    BY <1>1, SetsByParts
  <1> QED BY <1>2 DEF P

LEMMA FoldUnique ==
  ASSUME NEW S, IsFiniteSet(S), NEW D, NEW b \in D, NEW U, S \subseteq U, NEW O \in Ops(U, D), NEW C,
         Choosing(C, S), NEW it, Folding(it, S, D, b, O, C),
         NEW T \in SUBSET S, NEW jt, Folding(jt, T, D, b, O, C)
  PROVE  \A s \in SUBSET T : jt[s] = it[s]
  <1> DEFINE P == {s \in SUBSET T : jt[s] = it[s]}
  <1>0. \A s \in SUBSET S : it[s] \in D
    BY FoldTyped
  <1>1. ASSUME NEW s \in SUBSET T, \A x \in s : s \ {x} \in P PROVE s \in P
    <2>1. CASE s = {}
      BY <2>1 DEF Folding
    <2>2. CASE s # {}
      <3>0. s \in SUBSET S
        OBVIOUS
      <3>1. C[s] \in s /\ s \ {C[s]} \in SUBSET S
        BY <2>2, <3>0 DEF Choosing
      <3>2. jt[s \ {C[s]}] = it[s \ {C[s]}] /\ it[s \ {C[s]}] \in D
        BY <1>0, <1>1, <3>1
      <3>3. jt[s] = O[<<C[s], jt[s \ {C[s]}]>>]
        BY <2>2, <3>2 DEF Folding
      <3>4. it[s] = O[<<C[s], it[s \ {C[s]}]>>]
        BY <2>2, <3>0, <3>2 DEF Folding
      <3> QED BY <3>2, <3>3, <3>4
    <2> QED BY <2>1, <2>2
  <1>2. IsFiniteSet(T)
    BY FS_Subset
  <1> HIDE DEF P
  <1>3. \A s \in SUBSET T : s \in P
    BY <1>1, <1>2, SetsByParts
  <1> QED BY <1>3 DEF P

\* A fold over all of S and one over S without x.
LEMMA FoldWhole ==
  ASSUME NEW S, IsFiniteSet(S), NEW D, NEW b \in D, NEW O \in Ops(S, D), NEW C, Choosing(C, S),
         NEW it, Folding(it, S, D, b, O, C)
  PROVE  it[S] \in D /\ (S = {} => it[S] = b)
  <1>1. \A s \in SUBSET S : it[s] \in D
    BY FoldTyped
  <1> QED BY <1>1 DEF Folding

\* it folds over S and jt over T, which is S without x.
OneLess(S, D, b, O, C, it, x, T, jt) ==
  /\ IsFiniteSet(S) /\ b \in D /\ O \in Ops(S, D) /\ Choosing(C, S) /\ Commuting(O, S, D)
  /\ x \in S /\ T = S \ {x}
  /\ Folding(it, S, D, b, O, C) /\ Folding(jt, T, D, b, O, C)

LEMMA FoldStep ==
  ASSUME NEW S, NEW D, NEW b, NEW O, NEW C, NEW it, NEW x, NEW T, NEW jt,
         OneLess(S, D, b, O, C, it, x, T, jt)
  PROVE  jt[T] \in D /\ it[S] = O[<<x, jt[T]>>]
  <1>1. /\ IsFiniteSet(S) /\ b \in D /\ O \in Ops(S, D) /\ Choosing(C, S) /\ Commuting(O, S, D)
        /\ Folding(it, S, D, b, O, C) /\ Folding(jt, T, D, b, O, C)
    BY DEF OneLess
  <1>2. S \subseteq S /\ T \in SUBSET S /\ x \in S /\ T = S \ {x}
    BY DEF OneLess
  <1>3. \A s \in SUBSET S : it[s] \in D
    BY <1>1, <1>2, FoldTyped
  <1>4. \A s \in SUBSET S : \A y \in s : it[s] = O[<<y, it[s \ {y}]>>]
    BY <1>1, <1>2, FoldAnyOrder
  <1>5. \A s \in SUBSET T : jt[s] = it[s]
    BY <1>1, <1>2, FoldUnique
  <1>6. jt[T] = it[T]
    BY <1>5
  <1> QED BY <1>2, <1>3, <1>4, <1>6

\* A fold is one.
LEMMA FoldExists ==
  ASSUME NEW S, IsFiniteSet(S), NEW D, NEW b \in D, NEW U, S \subseteq U, NEW O \in Ops(U, D), NEW C,
         Choosing(C, S)
  PROVE  \E it \in [SUBSET S -> D] : Folded(it, S, D, b, O, C)
  <1> DEFINE Up(n) == {s \in SUBSET S : Cardinality(s) <= n}
             Good(g, n) == g = [s \in Up(n) |-> IF s = {} THEN b ELSE O[<<C[s], g[s \ {C[s]}]>>]]
             E == {n \in Nat : \E g \in [Up(n) -> D] : Good(g, n)}
  <1>1. \A T \in SUBSET S : IsFiniteSet(T) /\ Cardinality(T) \in Nat
    BY FS_Subset, FS_CardinalityType
  <1>2. 0 \in E
    <2> DEFINE g == [s \in Up(0) |-> b]
    <2>1. \A s \in Up(0) : s = {}
      <3> SUFFICES ASSUME NEW s \in Up(0) PROVE s = {}
        OBVIOUS
      <3>1. Cardinality(s) = 0 /\ IsFiniteSet(s)
        BY <1>1
      <3> QED BY <3>1, FS_EmptySet
    <2>2. g \in [Up(0) -> D] /\ Good(g, 0)
      BY <2>1
    <2> QED BY <2>2
  <1>3. ASSUME NEW n \in E PROVE n + 1 \in E
    <2>1. PICK g \in [Up(n) -> D] : Good(g, n)
      OBVIOUS
    <2> DEFINE h == [s \in Up(n + 1) |-> IF s = {} THEN b ELSE O[<<C[s], g[s \ {C[s]}]>>]]
    <2>2. ASSUME NEW s \in Up(n + 1), s # {}
          PROVE  /\ C[s] \in U /\ s \ {C[s]} \in Up(n) /\ s \ {C[s]} \in Up(n + 1)
      <3>1. C[s] \in s
        BY <2>2 DEF Choosing
      <3>2. Cardinality(s \ {C[s]}) = Cardinality(s) - 1
        BY <1>1, <3>1, FS_RemoveElement
      <3>3. n \in Nat /\ Cardinality(s) \in Nat /\ Cardinality(s) <= n + 1
        BY <1>1
      <3> QED BY <3>1, <3>2, <3>3
    <2>3. h \in [Up(n + 1) -> D]
      BY <2>2 DEF Ops
    <2>4. ASSUME NEW s \in Up(n), s \in Up(n + 1) PROVE h[s] = g[s]
      BY <2>1, <2>4
    <2>5. ASSUME NEW s \in Up(n + 1)
          PROVE  h[s] = IF s = {} THEN b ELSE O[<<C[s], h[s \ {C[s]}]>>]
      <3>1. CASE s = {}
        BY <3>1
      <3>2. CASE s # {}
        <4>1. h[s \ {C[s]}] = g[s \ {C[s]}]
          BY <2>2, <2>4, <3>2
        <4> QED BY <3>2, <4>1
      <3> QED BY <3>1, <3>2
    <2> HIDE DEF h
    <2>6. h = [s \in Up(n + 1) |-> h[s]]
      BY <2>3
    <2>7. Good(h, n + 1)
      BY <2>5, <2>6
    <2>8. n + 1 \in Nat
      OBVIOUS
    <2> QED BY <2>3, <2>7, <2>8
  <1>4. E \subseteq Nat
    OBVIOUS
  <1> HIDE DEF E
  <1>5. E = Nat
    BY <1>2, <1>3, <1>4, NatBySteps
  <1>6. PICK n \in Nat : n = Cardinality(S)
    BY FS_CardinalityType
  <1>7. Up(n) = SUBSET S
    <2> SUFFICES ASSUME NEW s \in SUBSET S PROVE Cardinality(s) <= n
      OBVIOUS
    <2> QED BY <1>6, FS_Subset
  <1>8. PICK g \in [Up(n) -> D] : Good(g, n)
    BY <1>5 DEF E
  <1> QED BY <1>7, <1>8 DEF Folded

\* What the fold over all of S is, and the folds over its parts.
LEMMA FoldedOne ==
  ASSUME NEW S, NEW D, NEW b, NEW O, NEW C, NEW it, Folded(it, S, D, b, O, C)
  PROVE  Folding(it, S, D, b, O, C)
  <1>1. \A s \in SUBSET S : it[s] = IF s = {} THEN b ELSE O[<<C[s], it[s \ {C[s]}]>>]
    BY DEF Folded
  <1> QED BY <1>1 DEF Folding

-----------------------------------------------------------------------------
Chosen(S) == [s \in SUBSET S |-> CHOOSE x \in s : TRUE]

LEMMA ChosenOne == ASSUME NEW S, NEW T \in SUBSET S PROVE Choosing(Chosen(S), T)
  BY DEF Choosing, Chosen

Adding(f, S) == [p \in S \X Nat |-> f[p[1]] + p[2]]
Naturals(f, S) == \A x \in S : f[x] \in Nat

LEMMA TotalFolds ==
  ASSUME NEW S, IsFiniteSet(S), NEW f, Naturals(f, S), NEW T \in SUBSET S
  PROVE  \E it : Total(f, T) = it[T] /\ Folding(it, T, Nat, 0, Adding(f, S), Chosen(S))
  <1> DEFINE P(g) == g = [s \in SUBSET T |-> IF s = {} THEN 0
                            ELSE f[CHOOSE x \in s : TRUE] + g[s \ {CHOOSE x \in s : TRUE}]]
             it == CHOOSE g : P(g)
             O == Adding(f, S)
             C == Chosen(S)
  <1>1. Total(f, T) = it[T]
    BY DEF Total, FoldSet, MapThenFoldSet
  <1>2. O \in Ops(S, Nat) /\ \A x \in S, d \in Nat : O[<<x, d>>] = f[x] + d
    BY DEF Ops, Adding, Naturals
  <1>3. Choosing(C, T) /\ \A s \in SUBSET T : C[s] = CHOOSE x \in s : TRUE
    BY ChosenOne DEF Chosen
  <1>4. IsFiniteSet(T) /\ T \subseteq S /\ 0 \in Nat
    BY FS_Subset
  <1> HIDE DEF O, C
  <1>5. PICK g \in [SUBSET T -> Nat] : Folded(g, T, Nat, 0, O, C)
    BY <1>2, <1>3, <1>4, FoldExists
  <1>6. P(g)
    <2>1. ASSUME NEW s \in SUBSET T
          PROVE  g[s] = IF s = {} THEN 0
                        ELSE f[CHOOSE x \in s : TRUE] + g[s \ {CHOOSE x \in s : TRUE}]
      <3>1. g[s] = IF s = {} THEN 0 ELSE O[<<C[s], g[s \ {C[s]}]>>]
        BY <1>5 DEF Folded
      <3>2. CASE s = {}
        BY <3>1, <3>2
      <3>3. CASE s # {}
        <4>1. C[s] \in S /\ s \ {C[s]} \in SUBSET T
          BY <1>3, <3>3 DEF Choosing
        <4>2. g[s] = f[C[s]] + g[s \ {C[s]}]
          BY <1>2, <3>1, <3>3, <4>1
        <4> QED BY <1>3, <3>3, <4>2
      <3> QED BY <3>2, <3>3
    <2>2. g = [s \in SUBSET T |-> g[s]]
      OBVIOUS
    <2> QED BY <2>1, <2>2
  <1>7. P(it)
    BY Zenon, <1>6
  <1> HIDE DEF it
  <1>8. \A s \in SUBSET T :
          it[s] = IF s = {} THEN 0 ELSE f[CHOOSE x \in s : TRUE] + it[s \ {CHOOSE x \in s : TRUE}]
    BY <1>7
  <1>9. it[{}] = 0
    BY <1>8
  <1>10. ASSUME NEW s \in SUBSET T, s # {}, it[s \ {C[s]}] \in Nat
         PROVE  it[s] = O[<<C[s], it[s \ {C[s]}]>>]
    <2>1. it[s] = f[C[s]] + it[s \ {C[s]}]
      BY <1>3, <1>8, <1>10
    <2>2. C[s] \in S
      BY <1>3, <1>10 DEF Choosing
    <2> QED BY <1>2, <1>10, <2>1, <2>2
  <1>11. Folding(it, T, Nat, 0, O, C)
    BY <1>9, <1>10 DEF Folding
  <1> QED BY <1>1, <1>11 DEF O, C

\* Sums go over a set in any order.
LEMMA TotalStep ==
  ASSUME NEW S, IsFiniteSet(S), NEW f, Naturals(f, S)
  PROVE  /\ Total(f, S) \in Nat
         /\ S = {} => Total(f, S) = 0
         /\ \A x \in S : Total(f, S) = f[x] + Total(f, S \ {x})
  <1> DEFINE O == Adding(f, S)
             C == Chosen(S)
  <1>1. PICK it : Total(f, S) = it[S] /\ Folding(it, S, Nat, 0, O, C)
    BY TotalFolds
  <1>2. O \in Ops(S, Nat) /\ \A x \in S, d \in Nat : O[<<x, d>>] = f[x] + d
    BY DEF Ops, Adding, Naturals
  <1>3. Commuting(O, S, Nat)
    <2> SUFFICES ASSUME NEW x \in S, NEW y \in S, NEW d \in Nat
                 PROVE  O[<<x, O[<<y, d>>]>>] = O[<<y, O[<<x, d>>]>>]
      BY Zenon DEF Commuting
    <2>1. PICK a \in Nat, c \in Nat : a = f[x] /\ c = f[y]
      BY DEF Naturals
    <2>2. O[<<x, d>>] = a + d /\ O[<<y, d>>] = c + d /\ a + d \in Nat /\ c + d \in Nat
      BY <1>2, <2>1
    <2>3. O[<<x, c + d>>] = a + (c + d) /\ O[<<y, a + d>>] = c + (a + d)
      BY <1>2, <2>1, <2>2
    <2> QED BY <2>2, <2>3
  <1>4. Choosing(C, S)
    BY ChosenOne
  <1>5. PICK D : D = Nat
    OBVIOUS
  <1>5a. PICK b : b \in D /\ b = 0
    BY <1>5
  <1> HIDE DEF O, C
  <1>6. it[S] \in Nat /\ (S = {} => it[S] = 0)
    <2>1. O \in Ops(S, D) /\ Folding(it, S, D, b, O, C)
      BY <1>1, <1>2, <1>5, <1>5a
    <2>2. it[S] \in D /\ (S = {} => it[S] = b)
      BY <1>4, <1>5a, <2>1, FoldWhole
    <2> QED BY <1>5, <1>5a, <2>2
  <1>7. ASSUME NEW x \in S PROVE Total(f, S) = f[x] + Total(f, S \ {x})
    <2>1. PICK T : T = S \ {x}
      OBVIOUS
    <2>2. T \in SUBSET S
      BY <2>1
    <2>3. PICK jt : Total(f, T) = jt[T] /\ Folding(jt, T, Nat, 0, O, C)
      BY <2>2, TotalFolds DEF O, C
    <2>4. jt[T] \in Nat /\ it[S] = O[<<x, jt[T]>>]
      <3>1. O \in Ops(S, D) /\ Folding(it, S, D, b, O, C) /\ Commuting(O, S, D)
            /\ Folding(jt, T, D, b, O, C)
        BY <1>1, <1>2, <1>3, <1>5, <1>5a, <2>3
      <3>2. OneLess(S, D, b, O, C, it, x, T, jt)
        BY <1>4, <1>5a, <2>1, <3>1 DEF OneLess
      <3>3. jt[T] \in D /\ it[S] = O[<<x, jt[T]>>]
        BY <3>2, FoldStep
      <3> QED BY <1>5, <1>5a, <3>3
    <2> QED BY <1>1, <1>2, <2>1, <2>3, <2>4
  <1> QED BY <1>1, <1>6, <1>7

-----------------------------------------------------------------------------
(* Products of weights.                                                    *)

Indices == 1 .. Experts
Weighing == weights \in [Indices -> Nat]
Multiplying(S) == [p \in S \X Nat |-> weights[p[1]] * p[2]]

LEMMA CallsFolds ==
  ASSUME Weighing, NEW S \in SUBSET Indices, IsFiniteSet(S), NEW T \in SUBSET S
  PROVE  \E it : CallsOf(T) = it[T] /\ Folding(it, T, Nat, 1, Multiplying(S), Chosen(S))
  <1> DEFINE P(g) == g = [s \in SUBSET T |-> IF s = {} THEN 1
                            ELSE weights[CHOOSE x \in s : TRUE] * g[s \ {CHOOSE x \in s : TRUE}]]
             it == CHOOSE g : P(g)
             O == Multiplying(S)
             C == Chosen(S)
  <1>1. CallsOf(T) = it[T]
    BY DEF CallsOf, MapThenFoldSet
  <1>2. O \in Ops(S, Nat) /\ \A x \in S, d \in Nat : O[<<x, d>>] = weights[x] * d
    <2>1. \A x \in S, d \in Nat : weights[x] * d \in Nat
      BY DEF Weighing
    <2> QED BY <2>1 DEF Ops, Multiplying
  <1>3. Choosing(C, T) /\ \A s \in SUBSET T : C[s] = CHOOSE x \in s : TRUE
    BY ChosenOne DEF Chosen
  <1>4. IsFiniteSet(T) /\ T \subseteq S /\ 1 \in Nat
    BY FS_Subset
  <1> HIDE DEF O, C
  <1>5. PICK g \in [SUBSET T -> Nat] : Folded(g, T, Nat, 1, O, C)
    BY <1>2, <1>3, <1>4, FoldExists
  <1>6. P(g)
    <2>1. ASSUME NEW s \in SUBSET T
          PROVE  g[s] = IF s = {} THEN 1
                        ELSE weights[CHOOSE x \in s : TRUE] * g[s \ {CHOOSE x \in s : TRUE}]
      <3>1. g[s] = IF s = {} THEN 1 ELSE O[<<C[s], g[s \ {C[s]}]>>]
        BY <1>5 DEF Folded
      <3>2. CASE s = {}
        BY <3>1, <3>2
      <3>3. CASE s # {}
        <4>1. C[s] \in S /\ s \ {C[s]} \in SUBSET T
          BY <1>3, <3>3 DEF Choosing
        <4>2. g[s] = weights[C[s]] * g[s \ {C[s]}]
          BY <1>2, <3>1, <3>3, <4>1
        <4> QED BY <1>3, <3>3, <4>2
      <3> QED BY <3>2, <3>3
    <2>2. g = [s \in SUBSET T |-> g[s]]
      OBVIOUS
    <2> QED BY <2>1, <2>2
  <1>7. P(it)
    BY Zenon, <1>6
  <1> HIDE DEF it
  <1>8. \A s \in SUBSET T :
          it[s] = IF s = {} THEN 1
                  ELSE weights[CHOOSE x \in s : TRUE] * it[s \ {CHOOSE x \in s : TRUE}]
    BY <1>7
  <1>9. it[{}] = 1
    BY <1>8
  <1>10. ASSUME NEW s \in SUBSET T, s # {}, it[s \ {C[s]}] \in Nat
         PROVE  it[s] = O[<<C[s], it[s \ {C[s]}]>>]
    <2>1. it[s] = weights[C[s]] * it[s \ {C[s]}]
      BY <1>3, <1>8, <1>10
    <2>2. C[s] \in S
      BY <1>3, <1>10 DEF Choosing
    <2> QED BY <1>2, <1>10, <2>1, <2>2
  <1>11. Folding(it, T, Nat, 1, O, C)
    BY <1>9, <1>10 DEF Folding
  <1> QED BY <1>1, <1>11 DEF O, C

LEMMA CallsStep ==
  ASSUME Weighing, NEW S \in SUBSET Indices, IsFiniteSet(S)
  PROVE  /\ CallsOf(S) \in Nat
         /\ S = {} => CallsOf(S) = 1
         /\ \A x \in S : CallsOf(S) = weights[x] * CallsOf(S \ {x})
  <1> DEFINE O == Multiplying(S)
             C == Chosen(S)
  <1>1. PICK it : CallsOf(S) = it[S] /\ Folding(it, S, Nat, 1, O, C)
    BY CallsFolds
  <1>2. O \in Ops(S, Nat) /\ \A x \in S, d \in Nat : O[<<x, d>>] = weights[x] * d
    <2>1. \A x \in S, d \in Nat : weights[x] * d \in Nat
      BY DEF Weighing
    <2> QED BY <2>1 DEF Ops, Multiplying
  <1>3. Commuting(O, S, Nat)
    <2> SUFFICES ASSUME NEW x \in S, NEW y \in S, NEW d \in Nat
                 PROVE  O[<<x, O[<<y, d>>]>>] = O[<<y, O[<<x, d>>]>>]
      BY Zenon DEF Commuting
    <2>1. PICK a \in Nat, c \in Nat : a = weights[x] /\ c = weights[y]
      BY DEF Weighing
    <2>2. O[<<x, d>>] = a * d /\ O[<<y, d>>] = c * d /\ a * d \in Nat /\ c * d \in Nat
      BY <1>2, <2>1
    <2>3. O[<<x, c * d>>] = a * (c * d) /\ O[<<y, a * d>>] = c * (a * d)
      BY <1>2, <2>1, <2>2
    <2>4. a * (c * d) = c * (a * d)
      OBVIOUS
    <2> QED BY Zenon, <2>2, <2>3, <2>4
  <1>4. Choosing(C, S)
    BY ChosenOne
  <1>5. PICK D : D = Nat
    OBVIOUS
  <1>5a. PICK b : b \in D /\ b = 1
    BY <1>5
  <1> HIDE DEF O, C
  <1>6. it[S] \in Nat /\ (S = {} => it[S] = 1)
    <2>1. O \in Ops(S, D) /\ Folding(it, S, D, b, O, C)
      BY <1>1, <1>2, <1>5, <1>5a
    <2>2. it[S] \in D /\ (S = {} => it[S] = b)
      BY <1>4, <1>5a, <2>1, FoldWhole
    <2> QED BY <1>5, <1>5a, <2>2
  <1>7. ASSUME NEW x \in S PROVE CallsOf(S) = weights[x] * CallsOf(S \ {x})
    <2>1. PICK T : T = S \ {x}
      OBVIOUS
    <2>2. T \in SUBSET S
      BY <2>1
    <2>3. PICK jt : CallsOf(T) = jt[T] /\ Folding(jt, T, Nat, 1, O, C)
      BY <2>2, CallsFolds DEF O, C
    <2>4. jt[T] \in Nat /\ it[S] = O[<<x, jt[T]>>]
      <3>1. O \in Ops(S, D) /\ Folding(it, S, D, b, O, C) /\ Commuting(O, S, D)
            /\ Folding(jt, T, D, b, O, C)
        BY <1>1, <1>2, <1>3, <1>5, <1>5a, <2>3
      <3>2. OneLess(S, D, b, O, C, it, x, T, jt)
        BY <1>4, <1>5a, <2>1, <3>1 DEF OneLess
      <3>3. jt[T] \in D /\ it[S] = O[<<x, jt[T]>>]
        BY <3>2, FoldStep
      <3> QED BY <1>5, <1>5a, <3>3
    <2> QED BY <1>1, <1>2, <2>1, <2>3, <2>4
  <1> QED BY <1>1, <1>6, <1>7

LEMMA TotalNone == ASSUME NEW f PROVE Total(f, {}) = 0
  BY FS_EmptySet, TotalStep DEF Naturals

LEMMA TotalSame ==
  ASSUME NEW S, IsFiniteSet(S), NEW f, NEW g, Naturals(f, S), \A x \in S : g[x] = f[x]
  PROVE  Total(g, S) = Total(f, S)
  <1> DEFINE P == {T \in SUBSET S : Total(g, T) = Total(f, T)}
  <1>1. ASSUME NEW T \in SUBSET S, \A x \in T : T \ {x} \in P PROVE T \in P
    <2>1. IsFiniteSet(T) /\ Naturals(f, T) /\ Naturals(g, T)
      BY FS_Subset DEF Naturals
    <2>2. CASE T = {}
      BY <2>1, <2>2, TotalStep
    <2>3. ASSUME NEW x \in T PROVE Total(g, T) = Total(f, T)
      <3>1. Total(f, T) = f[x] + Total(f, T \ {x})
        BY <2>1, TotalStep
      <3>2. Total(g, T) = g[x] + Total(g, T \ {x})
        BY <2>1, TotalStep
      <3> QED BY <1>1, <3>1, <3>2
    <2> QED BY <2>2, <2>3
  <1> HIDE DEF P
  <1>2. S \in P
    BY <1>1, SetsByParts
  <1> QED BY <1>2 DEF P

LEMMA TotalLinear ==
  ASSUME NEW S, IsFiniteSet(S), NEW f, NEW g, NEW h, NEW c \in Nat, Naturals(f, S), Naturals(g, S),
         \A x \in S : h[x] = f[x] + c * g[x]
  PROVE  Total(h, S) = Total(f, S) + c * Total(g, S)
  <1> DEFINE P == {T \in SUBSET S : Total(h, T) = Total(f, T) + c * Total(g, T)}
  <1>1. ASSUME NEW T \in SUBSET S, \A x \in T : T \ {x} \in P PROVE T \in P
    <2>1. IsFiniteSet(T) /\ Naturals(f, T) /\ Naturals(g, T) /\ Naturals(h, T)
      BY FS_Subset DEF Naturals
    <2>2. CASE T = {}
      BY <2>1, <2>2, TotalStep
    <2>3. ASSUME NEW x \in T PROVE Total(h, T) = Total(f, T) + c * Total(g, T)
      <3> DEFINE R == T \ {x}
      <3>0. IsFiniteSet(R) /\ Naturals(f, R) /\ Naturals(g, R)
        BY <2>1, FS_Subset DEF Naturals
      <3>1. Total(f, T) = f[x] + Total(f, R) /\ Total(g, T) = g[x] + Total(g, R)
            /\ Total(h, T) = h[x] + Total(h, R)
        BY <2>1, TotalStep
      <3>2. Total(h, R) = Total(f, R) + c * Total(g, R)
        BY <1>1
      <3> HIDE DEF R
      <3>3. PICK a \in Nat, b \in Nat, d \in Nat, e \in Nat :
              a = f[x] /\ b = g[x] /\ d = Total(f, R) /\ e = Total(g, R)
        BY <3>0, TotalStep DEF Naturals
      <3>4. Total(h, T) = (a + c * b) + (d + c * e)
        BY <3>1, <3>2, <3>3
      <3>5. c * (b + e) = c * b + c * e /\ c * b \in Nat /\ c * e \in Nat
        OBVIOUS
      <3> QED BY <3>1, <3>3, <3>4, <3>5
    <2> QED BY <2>2, <2>3
  <1> HIDE DEF P
  <1>2. S \in P
    BY <1>1, SetsByParts
  <1> QED BY <1>2 DEF P

LEMMA TotalZero ==
  ASSUME NEW S, IsFiniteSet(S), NEW f, \A x \in S : f[x] = 0
  PROVE  Total(f, S) = 0
  <1> DEFINE P == {T \in SUBSET S : Total(f, T) = 0}
  <1>1. ASSUME NEW T \in SUBSET S, \A x \in T : T \ {x} \in P PROVE T \in P
    <2>1. IsFiniteSet(T) /\ Naturals(f, T)
      BY FS_Subset DEF Naturals
    <2>2. CASE T = {}
      BY <2>1, <2>2, TotalStep
    <2>3. ASSUME NEW x \in T PROVE Total(f, T) = 0
      <3>1. Total(f, T) = f[x] + Total(f, T \ {x})
        BY <2>1, TotalStep
      <3> QED BY <1>1, <3>1
    <2> QED BY <2>2, <2>3
  <1> HIDE DEF P
  <1>2. S \in P
    BY <1>1, SetsByParts
  <1> QED BY <1>2 DEF P

LEMMA TotalScale ==
  ASSUME NEW S, IsFiniteSet(S), NEW g, NEW h, NEW c \in Nat, Naturals(g, S),
         \A x \in S : h[x] = c * g[x]
  PROVE  Total(h, S) = c * Total(g, S)
  <1> DEFINE z == [x \in S |-> 0]
  <1>1. Naturals(z, S) /\ Total(z, S) = 0
    BY TotalZero DEF Naturals
  <1>2. \A x \in S : h[x] = z[x] + c * g[x]
    BY DEF Naturals
  <1> HIDE DEF z
  <1>3. Total(h, S) = Total(z, S) + c * Total(g, S)
    BY <1>1, <1>2, TotalLinear
  <1>4. Total(g, S) \in Nat
    BY TotalStep
  <1> QED BY <1>1, <1>3, <1>4

LEMMA TotalUnion ==
  ASSUME NEW S, NEW T, IsFiniteSet(S), IsFiniteSet(T), S \cap T = {}, NEW f, Naturals(f, S \cup T)
  PROVE  Total(f, S \cup T) = Total(f, S) + Total(f, T)
  <1> DEFINE P == {R \in SUBSET S : Total(f, R \cup T) = Total(f, R) + Total(f, T)}
  <1>0. Total(f, T) \in Nat /\ IsFiniteSet(S \cup T)
    BY TotalStep, FS_Union DEF Naturals
  <1>1. ASSUME NEW R \in SUBSET S, \A x \in R : R \ {x} \in P PROVE R \in P
    <2>1. IsFiniteSet(R) /\ Naturals(f, R) /\ Naturals(f, R \cup T) /\ IsFiniteSet(R \cup T)
      BY <1>0, FS_Subset DEF Naturals
    <2>2. CASE R = {}
      <3>1. R \cup T = T
        BY <2>2
      <3>2. Total(f, R \cup T) = Total(f, T)
        BY Zenon, <3>1
      <3>3. Total(f, R) = 0
        BY <2>2, TotalNone
      <3> QED BY <1>0, <3>2, <3>3
    <2>3. ASSUME NEW x \in R PROVE Total(f, R \cup T) = Total(f, R) + Total(f, T)
      <3>1. Total(f, R \cup T) = f[x] + Total(f, (R \cup T) \ {x})
        BY <2>1, TotalStep
      <3>2. (R \cup T) \ {x} = (R \ {x}) \cup T
        OBVIOUS
      <3>3. Total(f, (R \ {x}) \cup T) = Total(f, R \ {x}) + Total(f, T)
        BY <1>1
      <3>4. Total(f, R) = f[x] + Total(f, R \ {x})
        BY <2>1, TotalStep
      <3>5. Total(f, R \ {x}) \in Nat /\ f[x] \in Nat
        <4>1. IsFiniteSet(R \ {x}) /\ Naturals(f, R \ {x})
          BY <2>1, FS_Subset DEF Naturals
        <4> QED BY <2>1, <4>1, TotalStep DEF Naturals
      <3>6. Total(f, R \cup T) = f[x] + (Total(f, R \ {x}) + Total(f, T))
        BY Zenon, <3>1, <3>2, <3>3
      <3> QED BY <1>0, <3>4, <3>5, <3>6
    <2> QED BY <2>2, <2>3
  <1> HIDE DEF P
  <1>2. S \in P
    BY <1>1, SetsByParts
  <1> QED BY <1>2 DEF P

LEMMA TotalWithin ==
  ASSUME NEW S, IsFiniteSet(S), NEW T \in SUBSET S, NEW f, Naturals(f, T), \A x \in S \ T : f[x] = 0
  PROVE  Total(f, S) = Total(f, T)
  <1> DEFINE R == S \ T
  <1>1. S = T \cup R /\ T \cap R = {}
    OBVIOUS
  <1>2. IsFiniteSet(T) /\ IsFiniteSet(R) /\ Naturals(f, T \cup R)
    BY FS_Subset DEF Naturals
  <1>3. Total(f, R) = 0
    BY <1>2, TotalZero
  <1> HIDE DEF R
  <1>4. Total(f, T \cup R) = Total(f, T) + Total(f, R)
    BY <1>1, <1>2, TotalUnion
  <1>5. Total(f, T) \in Nat
    BY <1>2, TotalStep
  <1> QED BY <1>1, <1>3, <1>4, <1>5

LEMMA TotalImage ==
  ASSUME NEW S, IsFiniteSet(S), NEW M, \A x, y \in S : M[x] = M[y] => x = y, NEW f, NEW g,
         Naturals(g, S), \A x \in S : f[M[x]] = g[x]
  PROVE  Total(f, {M[x] : x \in S}) = Total(g, S)
  <1> DEFINE Of(T) == {M[x] : x \in T}
             P == {T \in SUBSET S : IsFiniteSet(Of(T)) /\ Total(f, Of(T)) = Total(g, T)}
  <1>1. ASSUME NEW T \in SUBSET S, \A x \in T : T \ {x} \in P PROVE T \in P
    <2>1. IsFiniteSet(T) /\ Naturals(g, T) /\ Naturals(f, Of(T))
      BY FS_Subset DEF Naturals
    <2>2. CASE T = {}
      <3>1. Of(T) = {}
        BY <2>2
      <3>2. IsFiniteSet(Of(T))
        BY <3>1, FS_EmptySet
      <3>3. Total(f, Of(T)) = Total(g, T)
        BY Zenon, <2>2, <3>1, TotalNone
      <3> QED BY <3>2, <3>3
    <2>3. ASSUME NEW x \in T PROVE IsFiniteSet(Of(T)) /\ Total(f, Of(T)) = Total(g, T)
      <3>1. M[x] \in Of(T) /\ Of(T) \ {M[x]} = Of(T \ {x}) /\ Of(T) = Of(T \ {x}) \cup {M[x]}
        OBVIOUS
      <3>2. IsFiniteSet(Of(T \ {x})) /\ Total(f, Of(T \ {x})) = Total(g, T \ {x})
        BY <1>1
      <3> HIDE DEF Of
      <3>3. IsFiniteSet(Of(T))
        <4>1. PICK Q : Q = Of(T \ {x})
          OBVIOUS
        <4>2. IsFiniteSet(Q) /\ Of(T) = Q \cup {M[x]}
          BY Zenon, <3>1, <3>2, <4>1
        <4>3. IsFiniteSet(Q \cup {M[x]})
          BY <4>2, FS_AddElement
        <4> QED BY Zenon, <4>2, <4>3
      <3>4. Total(f, Of(T)) = f[M[x]] + Total(f, Of(T) \ {M[x]})
        <4>1. PICK Q, y : Q = Of(T) /\ y = M[x]
          OBVIOUS
        <4>2. IsFiniteSet(Q) /\ Naturals(f, Q) /\ y \in Q
          BY Zenon, <2>1, <3>1, <3>3, <4>1
        <4>3. Total(f, Q) = f[y] + Total(f, Q \ {y})
          BY <4>2, TotalStep
        <4> QED BY Zenon, <4>1, <4>3
      <3>5. Total(g, T) = g[x] + Total(g, T \ {x})
        BY <2>1, TotalStep
      <3> QED BY <3>1, <3>2, <3>3, <3>4, <3>5
    <2> QED BY <2>2, <2>3
  <1> HIDE DEF P
  <1>2. S \in P
    BY <1>1, SetsByParts
  <1> QED BY <1>2 DEF P

\* Rows(f, A, B)[a] adds up row a.
Rows(f, A, B) == [a \in A |-> Total(f, {a} \X B)]

LEMMA TotalRows ==
  ASSUME NEW A, NEW B, IsFiniteSet(A), IsFiniteSet(B), NEW f, Naturals(f, A \X B)
  PROVE  Total(f, A \X B) = Total(Rows(f, A, B), A)
  <1> DEFINE h == Rows(f, A, B)
             P == {T \in SUBSET A : Total(f, T \X B) = Total(h, T)}
  <1>0. \A a \in A : IsFiniteSet({a} \X B) /\ Naturals(f, {a} \X B) /\ h[a] = Total(f, {a} \X B)
    <2> TAKE a \in A
    <2>1. IsFiniteSet({a})
      BY FS_Singleton
    <2>2. {a} \X B \subseteq A \X B
      OBVIOUS
    <2>3. IsFiniteSet({a} \X B)
      BY <2>1, FS_Product
    <2> QED BY <2>2, <2>3 DEF Naturals, Rows
  <1>1. Naturals(h, A)
    <2> SUFFICES ASSUME NEW a \in A PROVE h[a] \in Nat
      BY DEF Naturals
    <2>1. PICK X : X = {a} \X B
      OBVIOUS
    <2>2. IsFiniteSet(X) /\ Naturals(f, X) /\ h[a] = Total(f, X)
      BY Zenon, <1>0, <2>1
    <2> QED BY <2>2, TotalStep
  <1>2. ASSUME NEW T \in SUBSET A, \A x \in T : T \ {x} \in P PROVE T \in P
    <2>1. IsFiniteSet(T) /\ Naturals(h, T) /\ Naturals(f, T \X B)
      BY <1>1, FS_Subset DEF Naturals
    <2>2. CASE T = {}
      <3>1. T \X B = {}
        BY <2>2
      <3>2. Total(f, {}) = 0 /\ Total(h, {}) = 0
        BY FS_EmptySet, TotalStep DEF Naturals
      <3> QED BY <2>2, <3>1, <3>2
    <2>3. ASSUME NEW x \in T PROVE Total(f, T \X B) = Total(h, T)
      <3> DEFINE R == T \ {x}
                 X == {x} \X B
                 Y == R \X B
      <3>1. T \X B = X \cup Y /\ X \cap Y = {}
        OBVIOUS
      <3>2. IsFiniteSet(X) /\ IsFiniteSet(Y) /\ Naturals(f, X \cup Y)
        BY <1>0, <2>1, FS_Subset, FS_Product DEF Naturals
      <3>3. Total(f, Y) = Total(h, R)
        BY <1>2
      <3>4. h[x] = Total(f, X)
        BY <1>0
      <3>5. Total(h, T) = h[x] + Total(h, R)
        BY <2>1, TotalStep
      <3> HIDE DEF h, R, X, Y
      <3>6. Total(f, X \cup Y) = Total(f, X) + Total(f, Y)
        BY <3>1, <3>2, TotalUnion
      <3> QED BY <3>1, <3>3, <3>4, <3>5, <3>6
    <2> QED BY <2>2, <2>3
  <1> HIDE DEF P
  <1>3. A \in P
    BY <1>2, SetsByParts
  <1> QED BY <1>3 DEF P

-----------------------------------------------------------------------------
(* The weight of the calls.                                                *)

Product == [A \in SUBSET Indices |-> CallsOf(A)]

\* The weight of all the calls of k experts of S.
Sym(S, k) == Total(Product, kSubset(k, S))

LEMMA IndicesFinite ==
  ASSUME NEW S \in SUBSET Indices
  PROVE  IsFiniteSet(S) /\ Cardinality(S) \in Nat
  <1>1. IsFiniteSet(Indices)
    BY PlanAssumption, FS_Interval DEF PlanAssumption, Indices
  <1>2. IsFiniteSet(S)
    BY <1>1, FS_Subset
  <1> QED BY <1>2, FS_CardinalityType

LEMMA ProductStep ==
  ASSUME Weighing
  PROVE  /\ \A A \in SUBSET Indices : Product[A] \in Nat
         /\ Product[{}] = 1
         /\ \A A \in SUBSET Indices : \A x \in A : Product[A] = weights[x] * Product[A \ {x}]
  <1>1. \A A \in SUBSET Indices : Product[A] = CallsOf(A)
    BY DEF Product
  <1>2. \A A \in SUBSET Indices : CallsOf(A) \in Nat
    BY CallsStep, IndicesFinite
  <1>3. CallsOf({}) = 1
    BY CallsStep, IndicesFinite
  <1>4. \A A \in SUBSET Indices : \A x \in A : CallsOf(A) = weights[x] * CallsOf(A \ {x})
    BY CallsStep, IndicesFinite
  <1>5. \A A \in SUBSET Indices : \A x \in A : Product[A] = weights[x] * Product[A \ {x}]
    <2> TAKE A \in SUBSET Indices
    <2> TAKE x \in A
    <2>1. A \ {x} \in SUBSET Indices
      OBVIOUS
    <2> QED BY <1>1, <1>4, <2>1
  <1> QED BY <1>1, <1>2, <1>3, <1>5

LEMMA SymTyped ==
  ASSUME Weighing, NEW S \in SUBSET Indices, NEW k
  PROVE  /\ IsFiniteSet(kSubset(k, S)) /\ Naturals(Product, kSubset(k, S))
         /\ Sym(S, k) \in Nat
  <1>1. IsFiniteSet(SUBSET S)
    BY IndicesFinite, FS_SUBSET
  <1>2. kSubset(k, S) \in SUBSET (SUBSET S)
    BY DEF kSubset
  <1>3. IsFiniteSet(kSubset(k, S))
    BY <1>1, <1>2, FS_Subset
  <1>4. Naturals(Product, kSubset(k, S))
    BY <1>2, ProductStep DEF Naturals
  <1> QED BY <1>3, <1>4, TotalStep DEF Sym

LEMMA SymNone ==
  ASSUME Weighing, NEW S \in SUBSET Indices, NEW k \in Int, k < 0 \/ k > Cardinality(S)
  PROVE  Sym(S, k) = 0
  <1>1. ASSUME NEW A \in kSubset(k, S) PROVE FALSE
    <2>1. A \in SUBSET S /\ Cardinality(A) = k
      BY DEF kSubset
    <2>2. IsFiniteSet(S) /\ Cardinality(S) \in Nat
      BY IndicesFinite
    <2>3. Cardinality(A) <= Cardinality(S) /\ Cardinality(A) \in Nat
      BY <2>1, <2>2, FS_Subset, IndicesFinite
    <2> QED BY <2>1, <2>2, <2>3
  <1>2. kSubset(k, S) = {}
    BY <1>1
  <1> QED BY <1>2, TotalNone DEF Sym

\* Of no experts there is one call, that of none.
LEMMA SymEmpty ==
  ASSUME Weighing, NEW k \in Int
  PROVE  Sym({}, k) = IF k = 0 THEN 1 ELSE 0
  <1>1. Cardinality({}) = 0 /\ IsFiniteSet({})
    BY FS_EmptySet
  <1>2. CASE k = 0
    <2> DEFINE E == {{}}
    <2>1. kSubset(0, {}) = E
      BY <1>1 DEF kSubset
    <2>2. IsFiniteSet(E) /\ Naturals(Product, E) /\ {} \in E /\ E \ {{}} = {}
      BY FS_Singleton, ProductStep DEF Naturals
    <2> HIDE DEF E
    <2>3. Total(Product, E) = Product[{}] + Total(Product, E \ {{}})
      BY <2>2, TotalStep
    <2>4. Total(Product, E \ {{}}) = 0
      BY Zenon, <2>2, TotalNone
    <2>5. Product[{}] = 1
      BY ProductStep
    <2>6. Total(Product, E) = 1
      BY <2>3, <2>4, <2>5
    <2> QED BY <1>2, <2>1, <2>6 DEF Sym
  <1>3. CASE k # 0
    BY <1>1, <1>3, SymNone
  <1> QED BY <1>2, <1>3

\* The calls with an expert and those without.
LEMMA SymStep ==
  ASSUME Weighing, NEW S \in SUBSET Indices, NEW x \in S, NEW k \in Int
  PROVE  Sym(S, k) = Sym(S \ {x}, k) + weights[x] * Sym(S \ {x}, k - 1)
  <1> DEFINE R == S \ {x}
             A == kSubset(k, R)
             D == kSubset(k - 1, R)
             M == [T \in SUBSET Indices |-> T \cup {x}]
             B == {M[T] : T \in D}
             g == [T \in SUBSET Indices |-> weights[x] * Product[T]]
  <1>1. R \in SUBSET Indices /\ k - 1 \in Int /\ x \in Indices
    OBVIOUS
  <1>2. weights[x] \in Nat
    BY <1>1 DEF Weighing
  <1>3. ASSUME NEW T \in D
        PROVE  /\ T \in SUBSET R /\ x \notin T /\ T \in SUBSET Indices /\ IsFiniteSet(T)
               /\ M[T] = T \cup {x} /\ Cardinality(T) = k - 1 /\ M[T] \in SUBSET Indices
               /\ M[T] \ {x} = T
    <2>1. T \in SUBSET R /\ x \notin T /\ T \in SUBSET Indices /\ Cardinality(T) = k - 1
      BY DEF kSubset
    <2>2. IsFiniteSet(T)
      BY <2>1, IndicesFinite
    <2>3. M[T] = T \cup {x}
      BY <2>1
    <2> HIDE DEF M, D
    <2> QED BY <1>1, <2>1, <2>2, <2>3
  <1>4. B \subseteq kSubset(k, S)
    <2> SUFFICES ASSUME NEW T \in D PROVE M[T] \in kSubset(k, S)
      OBVIOUS
    <2>1. Cardinality(T \cup {x}) = Cardinality(T) + 1
      BY <1>3, FS_AddElement
    <2>2. T \cup {x} \in SUBSET S
      BY <1>3
    <2> QED BY <1>3, <2>1, <2>2 DEF kSubset
  <1>5. A \subseteq kSubset(k, S)
    BY DEF kSubset
  <1>6. ASSUME NEW T \in kSubset(k, S) PROVE T \in A \cup B
    <2>1. T \in SUBSET S /\ Cardinality(T) = k /\ IsFiniteSet(T)
      BY IndicesFinite DEF kSubset
    <2>2. CASE x \notin T
      BY <2>1, <2>2 DEF kSubset
    <2>3. CASE x \in T
      <3>1. Cardinality(T \ {x}) = k - 1
        BY <2>1, <2>3, FS_RemoveElement
      <3>2. T \ {x} \in D /\ T \ {x} \in SUBSET Indices
        BY <2>1, <3>1 DEF kSubset
      <3>3. M[T \ {x}] = T
        BY <2>3, <3>2
      <3> QED BY <3>2, <3>3
    <2> QED BY <2>2, <2>3
  <1>7. A \cap B = {}
    <2> SUFFICES ASSUME NEW T \in D, M[T] \in A PROVE FALSE
      OBVIOUS
    <2>1. x \in M[T]
      BY <1>3
    <2>2. x \notin M[T]
      BY DEF kSubset
    <2> QED BY <2>1, <2>2
  <1>8. kSubset(k, S) = A \cup B
    BY <1>4, <1>5, <1>6
  <1>9. \A T \in D : g[T] = weights[x] * Product[T] /\ g[T] \in Nat /\ Product[T] \in Nat
    BY <1>2, <1>3, ProductStep
  <1>10. \A T \in D : Product[M[T]] = g[T]
    <2> TAKE T \in D
    <2>1. M[T] \in SUBSET Indices /\ x \in M[T] /\ M[T] \ {x} = T
      BY <1>3
    <2>2. Product[M[T]] = weights[x] * Product[M[T] \ {x}]
      BY <2>1, ProductStep
    <2> QED BY <1>9, <2>1, <2>2
  <1>11. \A T, U \in D : M[T] = M[U] => T = U
    BY <1>3
  <1>12. IsFiniteSet(D) /\ IsFiniteSet(A) /\ Naturals(Product, D) /\ Naturals(Product, kSubset(k, S))
         /\ IsFiniteSet(kSubset(k, S)) /\ Sym(R, k - 1) \in Nat /\ Sym(R, k) \in Nat
    BY <1>1, SymTyped
  <1>13. Sym(R, k) = Total(Product, A) /\ Sym(R, k - 1) = Total(Product, D)
         /\ Sym(S, k) = Total(Product, kSubset(k, S))
    BY DEF Sym
  <1> HIDE DEF A, D, g, M
  <1>14. Total(g, D) = weights[x] * Total(Product, D)
    BY <1>2, <1>9, <1>12, TotalScale
  <1>15. Naturals(g, D)
    BY <1>9 DEF Naturals
  <1>16. Total(Product, B) = Total(g, D)
    BY <1>10, <1>11, <1>12, <1>15, TotalImage
  <1>17. IsFiniteSet(B) /\ Naturals(Product, A \cup B)
    BY <1>4, <1>8, <1>12, FS_Subset
  <1> HIDE DEF B
  <1>18. Total(Product, A \cup B) = Total(Product, A) + Total(Product, B)
    BY <1>7, <1>12, <1>17, TotalUnion
  <1> QED BY <1>8, <1>13, <1>14, <1>16, <1>18

\* The weight of k calls of experts of S and T, by how many of them are of S.
Pairs(S, T, N, k) == [m \in 0 .. N |-> Sym(S, m) * Sym(T, k - m)]
PairsAddUp(S, T, N, k) == Sym(S \cup T, k) = Total(Pairs(S, T, N, k), 0 .. N)

LEMMA PairsTyped ==
  ASSUME Weighing, NEW S \in SUBSET Indices, NEW T \in SUBSET Indices, NEW N \in Nat, NEW k \in Int
  PROVE  /\ IsFiniteSet(0 .. N) /\ Naturals(Pairs(S, T, N, k), 0 .. N)
         /\ \A m \in 0 .. N : Pairs(S, T, N, k)[m] = Sym(S, m) * Sym(T, k - m)
  <1>1. \A m \in 0 .. N : Sym(S, m) \in Nat /\ Sym(T, k - m) \in Nat
    BY SymTyped
  <1>2. \A a, b \in Nat : a * b \in Nat
    OBVIOUS
  <1>3. \A m \in 0 .. N : Sym(S, m) * Sym(T, k - m) \in Nat
    BY <1>1, <1>2
  <1> QED BY <1>3, FS_Interval DEF Pairs, Naturals

LEMMA JoinNone ==
  ASSUME Weighing, NEW S \in SUBSET Indices, NEW N \in Nat, NEW k \in Int, k <= N
  PROVE  PairsAddUp(S, {}, N, k)
  <1> DEFINE f == Pairs(S, {}, N, k)
  <1>1. IsFiniteSet(0 .. N) /\ Naturals(f, 0 .. N)
        /\ \A m \in 0 .. N : f[m] = Sym(S, m) * Sym({}, k - m)
    BY PairsTyped
  <1>2. \A m \in 0 .. N : f[m] = IF m = k THEN Sym(S, k) ELSE 0
    <2> TAKE m \in 0 .. N
    <2>1. Sym({}, k - m) = IF k - m = 0 THEN 1 ELSE 0
      BY SymEmpty
    <2>2. Sym(S, m) \in Nat
      BY SymTyped
    <2>3. f[m] = Sym(S, m) * Sym({}, k - m)
      BY <1>1
    <2>4. CASE m = k
      BY <2>1, <2>2, <2>3, <2>4
    <2>5. CASE m # k
      BY <2>1, <2>2, <2>3, <2>5
    <2> QED BY <2>4, <2>5
  <1>3. S \cup {} = S
    OBVIOUS
  <1> HIDE DEF f
  <1>4. CASE k < 0
    <2>1. Total(f, 0 .. N) = 0
      BY <1>1, <1>2, <1>4, TotalZero
    <2>2. Sym(S, k) = 0
      BY <1>4, SymNone
    <2> QED BY <1>3, <2>1, <2>2 DEF PairsAddUp, f
  <1>5. CASE k >= 0
    <2> DEFINE E == {k}
    <2>0. k \in 0 .. N
      BY <1>5
    <2>1. E \in SUBSET (0 .. N) /\ k \in E /\ E \ {k} = {} /\ Naturals(f, E)
      BY <1>1, <2>0 DEF Naturals
    <2>2. \A m \in (0 .. N) \ E : f[m] = 0
      BY <1>2
    <2>3. IsFiniteSet(E)
      BY FS_Singleton
    <2>4. f[k] = Sym(S, k) /\ Sym(S, k) \in Nat
      BY <1>2, <2>0, SymTyped
    <2> HIDE DEF E
    <2>5. Total(f, 0 .. N) = Total(f, E)
      BY <1>1, <2>1, <2>2, TotalWithin
    <2>6. Total(f, E) = f[k] + Total(f, E \ {k})
      BY <2>1, <2>3, TotalStep
    <2>7. Total(f, E \ {k}) = 0
      BY Zenon, <2>1, TotalNone
    <2>8. Total(f, 0 .. N) = Sym(S, k)
      BY <2>4, <2>5, <2>6, <2>7
    <2> QED BY <1>3, <2>8 DEF PairsAddUp, f
  <1> QED BY <1>4, <1>5

LEMMA JoinMore ==
  ASSUME Weighing, NEW S \in SUBSET Indices, NEW T \in SUBSET Indices, S \cap T = {}, NEW x \in T,
         NEW N \in Nat, NEW k \in Int, PairsAddUp(S, T \ {x}, N, k), PairsAddUp(S, T \ {x}, N, k - 1)
  PROVE  PairsAddUp(S, T, N, k)
  <1> DEFINE R == T \ {x}
             f == Pairs(S, R, N, k)
             g == Pairs(S, R, N, k - 1)
             h == Pairs(S, T, N, k)
             w == weights[x]
  <1>1. R \in SUBSET Indices /\ x \in Indices /\ k - 1 \in Int /\ S \cup T \in SUBSET Indices
        /\ x \in S \cup T /\ (S \cup T) \ {x} = S \cup R
    OBVIOUS
  <1>2. w \in Nat
    BY <1>1 DEF Weighing
  <1> HIDE DEF R
  <1>3. IsFiniteSet(0 .. N) /\ Naturals(f, 0 .. N)
        /\ \A m \in 0 .. N : f[m] = Sym(S, m) * Sym(R, k - m)
    BY <1>1, PairsTyped
  <1>4. Naturals(g, 0 .. N) /\ \A m \in 0 .. N : g[m] = Sym(S, m) * Sym(R, (k - 1) - m)
    BY <1>1, PairsTyped
  <1>5. \A m \in 0 .. N : h[m] = Sym(S, m) * Sym(T, k - m)
    BY <1>1, PairsTyped
  <1>6. \A m \in 0 .. N : h[m] = f[m] + w * g[m]
    <2> TAKE m \in 0 .. N
    <2>0. PICK v \in Nat : v = w
      BY <1>2
    <2>1. PICK a \in Nat : a = Sym(S, m)
      BY SymTyped
    <2>2. PICK b \in Nat : b = Sym(R, k - m)
      BY <1>1, SymTyped
    <2>3. PICK c \in Nat : c = Sym(R, (k - m) - 1)
      BY <1>1, SymTyped
    <2>4. Sym(T, k - m) = b + v * c
      <3>1. PICK q \in Int : q = k - m
        OBVIOUS
      <3>2. Sym(T, q) = Sym(T \ {x}, q) + weights[x] * Sym(T \ {x}, q - 1)
        BY SymStep
      <3> QED BY Zenon, <2>0, <2>2, <2>3, <3>1, <3>2 DEF R
    <2>5. (k - 1) - m = (k - m) - 1
      OBVIOUS
    <2>6. f[m] = a * b /\ g[m] = a * c /\ h[m] = a * (b + v * c)
      BY <1>3, <1>4, <1>5, <2>1, <2>2, <2>3, <2>4, <2>5
    <2> HIDE DEF f, g, h
    <2>7. a * (b + v * c) = a * b + v * (a * c)
      OBVIOUS
    <2>8. w * g[m] = v * (a * c)
      BY Zenon, <2>0, <2>6
    <2>9. f[m] + w * g[m] = a * b + v * (a * c)
      <3>1. f[m] = a * b
        BY <2>6
      <3> QED BY Zenon, <2>8, <3>1
    <2>10. h[m] = a * (b + v * c)
      BY <2>6
    <2> QED BY Zenon, <2>7, <2>9, <2>10
  <1> HIDE DEF f, g, h, w
  <1>7. Total(h, 0 .. N) = Total(f, 0 .. N) + w * Total(g, 0 .. N)
    BY <1>2, <1>3, <1>4, <1>6, TotalLinear
  <1>8. Sym(S \cup R, k) = Total(f, 0 .. N) /\ Sym(S \cup R, k - 1) = Total(g, 0 .. N)
    BY DEF PairsAddUp, f, g, R
  <1>9. Sym(S \cup T, k) = Sym(S \cup R, k) + w * Sym(S \cup R, k - 1)
    BY <1>1, SymStep DEF w
  <1> QED BY <1>7, <1>8, <1>9 DEF PairsAddUp, h

LEMMA SymJoin ==
  ASSUME Weighing, NEW S \in SUBSET Indices, NEW T \in SUBSET Indices, S \cap T = {}, NEW N \in Nat
  PROVE  \A k \in Int : k <= N => PairsAddUp(S, T, N, k)
  <1> DEFINE P == {U \in SUBSET T : \A k \in Int : k <= N => PairsAddUp(S, U, N, k)}
  <1>1. ASSUME NEW U \in SUBSET T, \A x \in U : U \ {x} \in P PROVE U \in P
    <2> SUFFICES ASSUME NEW k \in Int, k <= N PROVE PairsAddUp(S, U, N, k)
      OBVIOUS
    <2>1. CASE U = {}
      BY <2>1, JoinNone
    <2>2. ASSUME NEW x \in U PROVE PairsAddUp(S, U, N, k)
      <3>1. PairsAddUp(S, U \ {x}, N, k) /\ PairsAddUp(S, U \ {x}, N, k - 1)
        BY <1>1
      <3>2. U \in SUBSET Indices /\ S \cap U = {}
        OBVIOUS
      <3> QED BY <3>1, <3>2, JoinMore
    <2> QED BY <2>1, <2>2
  <1>2. IsFiniteSet(T)
    BY IndicesFinite
  <1> HIDE DEF P
  <1>3. T \in P
    BY <1>1, <1>2, SetsByParts
  <1> QED BY <1>3 DEF P

-----------------------------------------------------------------------------
(* Hits.                                                                   *)

\* The largest, which FoldLeft takes last.
LEMMA LastOf ==
  ASSUME NEW n \in Nat, NEW I \in SUBSET (1 .. n), I # {}
  PROVE  Max(I) \in I /\ \A j \in I : Max(I) >= j
  <1> DEFINE P == {J \in SUBSET I : J # {} => \E i \in J : \A j \in J : i >= j}
  <1>1. ASSUME NEW J \in SUBSET I, \A x \in J : J \ {x} \in P PROVE J \in P
    <2> SUFFICES ASSUME NEW x \in J PROVE \E i \in J : \A j \in J : i >= j
      OBVIOUS
    <2>1. \A j \in J : j \in Nat
      OBVIOUS
    <2>2. CASE J \ {x} = {}
      BY <2>1, <2>2
    <2>3. CASE J \ {x} # {}
      <3>1. PICK y \in J \ {x} : \A j \in J \ {x} : y >= j
        BY <1>1, <2>3
      <3>2. CASE y >= x
        BY <2>1, <3>1, <3>2
      <3>3. CASE ~(y >= x)
        BY <2>1, <3>1, <3>3
      <3> QED BY <3>2, <3>3
    <2> QED BY <2>2, <2>3
  <1>2. IsFiniteSet(I)
    <2>1. IsFiniteSet(1 .. n)
      BY FS_Interval
    <2> QED BY <2>1, FS_Subset
  <1> HIDE DEF P
  <1>3. I \in P
    BY <1>1, <1>2, SetsByParts
  <1>4. \E i \in I : \A j \in I : i >= j
    BY <1>3 DEF P
  <1> QED BY <1>4 DEF Max

\* Hits turns over ws, whose calls of j experts so far are out[j].
Outs(n) == [0 .. n -> Nat]
HitTurn(ws, n) ==
  [p \in (1 .. n) \X Outs(n) |->
     [j \in 0 .. n |-> p[2][j] + (IF j = 0 THEN 0 ELSE p[2][j - 1] * ws[p[1]])]]
NoHit(n) == [j \in 0 .. n |-> IF j = 0 THEN 1 ELSE 0]
Largest(n) == [s \in SUBSET (1 .. n) |-> Max(s)]

LEMMA HitTurns ==
  ASSUME NEW n \in Nat, NEW ws \in [1 .. n -> Nat]
  PROVE  /\ IsFiniteSet(1 .. n) /\ NoHit(n) \in Outs(n) /\ Choosing(Largest(n), 1 .. n)
         /\ HitTurn(ws, n) \in Ops(1 .. n, Outs(n))
  <1>1. IsFiniteSet(1 .. n)
    BY FS_Interval
  <1>2. NoHit(n) \in Outs(n)
    BY DEF NoHit, Outs
  <1>3. Choosing(Largest(n), 1 .. n)
    <2> SUFFICES ASSUME NEW s \in SUBSET (1 .. n), s # {} PROVE Largest(n)[s] \in s
      BY DEF Choosing
    <2> QED BY LastOf DEF Largest
  <1>4. HitTurn(ws, n) \in Ops(1 .. n, Outs(n))
    <2> SUFFICES ASSUME NEW p \in (1 .. n) \X Outs(n)
                 PROVE  [j \in 0 .. n |-> p[2][j] + (IF j = 0 THEN 0 ELSE p[2][j - 1] * ws[p[1]])]
                          \in Outs(n)
      BY DEF HitTurn, Ops
    <2> SUFFICES ASSUME NEW j \in 0 .. n
                 PROVE  p[2][j] + (IF j = 0 THEN 0 ELSE p[2][j - 1] * ws[p[1]]) \in Nat
      BY DEF Outs
    <2>1. p[2] \in [0 .. n -> Nat] /\ ws[p[1]] \in Nat
      BY DEF Outs
    <2>2. CASE j = 0
      BY <2>1, <2>2
    <2>3. CASE j # 0
      <3>1. j - 1 \in 0 .. n
        BY <2>3
      <3>2. p[2][j] \in Nat /\ p[2][j - 1] \in Nat
        BY <2>1, <3>1
      <3>3. \A a, b, c \in Nat : a + b * c \in Nat
        OBVIOUS
      <3> QED BY <2>1, <2>3, <3>2, <3>3
    <2> QED BY <2>2, <2>3
  <1> QED BY <1>1, <1>2, <1>3, <1>4

LEMMA HitsFolds ==
  ASSUME NEW n \in Nat, NEW ws \in [1 .. n -> Nat]
  PROVE  \E it : Hits(ws) = it[1 .. n]
                 /\ Folding(it, 1 .. n, Outs(n), NoHit(n), HitTurn(ws, n), Largest(n))
  <1> DEFINE L == 1 .. n
             Turn(w, out) == [j \in 0 .. n |-> out[j] + (IF j = 0 THEN 0 ELSE out[j - 1] * w)]
             P(g) == g = [s \in SUBSET L |-> IF s = {} THEN NoHit(n)
                            ELSE Turn(ws[Max(s)], g[s \ {Max(s)}])]
             it == CHOOSE g : P(g)
             O == HitTurn(ws, n)
             C == Largest(n)
             b == NoHit(n)
  <1>0. Len(ws) = n /\ DOMAIN ws = L
    <2>1. ws \in Seq(Nat)
      BY SeqDef
    <2> QED BY <2>1
  <1>1. Hits(ws) = it[L]
    BY <1>0 DEF Hits, FoldLeft, MapThenFoldSet, NoHit
  <1>2. /\ IsFiniteSet(L) /\ b \in Outs(n) /\ Choosing(C, L) /\ O \in Ops(L, Outs(n))
        /\ L \subseteq L
    BY HitTurns
  <1>3. \A i \in L, out \in Outs(n) : O[<<i, out>>] = Turn(ws[i], out)
    BY DEF HitTurn
  <1>4. \A s \in SUBSET L : C[s] = Max(s)
    BY DEF Largest
  <1> HIDE DEF L, O, C, b, Turn
  <1>5. PICK g \in [SUBSET L -> Outs(n)] : Folded(g, L, Outs(n), b, O, C)
    BY <1>2, FoldExists
  <1>6. P(g)
    <2>1. ASSUME NEW s \in SUBSET L
          PROVE  g[s] = IF s = {} THEN NoHit(n) ELSE Turn(ws[Max(s)], g[s \ {Max(s)}])
      <3>1. g[s] = IF s = {} THEN b ELSE O[<<C[s], g[s \ {C[s]}]>>]
        BY <1>5 DEF Folded
      <3>2. CASE s = {}
        BY <3>1, <3>2 DEF b
      <3>3. CASE s # {}
        <4>1. C[s] \in L /\ s \ {C[s]} \in SUBSET L
          BY <1>2, <3>3 DEF Choosing
        <4>2. g[s \ {C[s]}] \in Outs(n)
          BY <4>1
        <4>3. g[s] = Turn(ws[C[s]], g[s \ {C[s]}])
          BY <1>3, <3>1, <3>3, <4>1, <4>2
        <4> QED BY Zenon, <1>4, <3>3, <4>3
      <3> QED BY <3>2, <3>3
    <2>2. g = [s \in SUBSET L |-> g[s]]
      OBVIOUS
    <2> HIDE DEF P
    <2>3. ASSUME NEW f, f = [s \in SUBSET L |-> f[s]],
                 \A s \in SUBSET L :
                   f[s] = IF s = {} THEN NoHit(n) ELSE Turn(ws[Max(s)], f[s \ {Max(s)}])
          PROVE  P(f)
      BY <2>3 DEF P
    <2> QED BY <2>1, <2>2, <2>3
  <1>7. P(it)
    BY Zenon, <1>6
  <1> HIDE DEF it
  <1>8. \A s \in SUBSET L :
          it[s] = IF s = {} THEN NoHit(n) ELSE Turn(ws[Max(s)], it[s \ {Max(s)}])
    BY <1>7
  <1>9. it[{}] = b
    BY <1>8 DEF b
  <1>10. ASSUME NEW s \in SUBSET L, s # {}, it[s \ {C[s]}] \in Outs(n)
         PROVE  it[s] = O[<<C[s], it[s \ {C[s]}]>>]
    <2>1. it[s] = Turn(ws[Max(s)], it[s \ {Max(s)}])
      BY <1>8, <1>10
    <2>2. C[s] \in L
      BY <1>2, <1>10 DEF Choosing
    <2>3. O[<<C[s], it[s \ {C[s]}]>>] = Turn(ws[C[s]], it[s \ {C[s]}])
      BY <1>3, <1>10, <2>2
    <2> QED BY Zenon, <1>4, <2>1, <2>3
  <1>11. Folding(it, L, Outs(n), b, O, C)
    BY <1>9, <1>10 DEF Folding
  <1> QED BY <1>1, <1>11 DEF L, b, O, C

\* These are the weights of the n experts behind the first a.
PartOf(ws, a, n) ==
  /\ n \in Nat /\ a \in Nat /\ a + n <= Experts
  /\ ws \in [1 .. n -> Nat] /\ \A i \in 1 .. n : ws[i] = weights[a + i]

\* And h are the weights of the calls of these experts.
CallsOfPart(h, a, n) == h \in [0 .. n -> Nat] /\ \A j \in 0 .. n : h[j] = Sym(a + 1 .. a + n, j)

LEMMA HitsKnown ==
  ASSUME Weighing, NEW ws, NEW a, NEW n, PartOf(ws, a, n)
  PROVE  CallsOfPart(Hits(ws), a, n)
  <1> DEFINE L == 1 .. n
             O == HitTurn(ws, n)
             C == Largest(n)
             b == NoHit(n)
             D == Outs(n)
             G(i) == [j \in 0 .. n |-> Sym(a + 1 .. a + i, j)]
  <1>1. /\ n \in Nat /\ a \in Nat /\ a + n <= Experts /\ ws \in [1 .. n -> Nat]
        /\ Experts \in Nat /\ \A i \in 1 .. n : ws[i] = weights[a + i] /\ ws[i] \in Nat
    BY PlanAssumption DEF PartOf, PlanAssumption
  <1>2. PICK it : Hits(ws) = it[L] /\ Folding(it, L, D, b, O, C)
    BY <1>1, HitsFolds
  <1>3. IsFiniteSet(L) /\ b \in D /\ O \in Ops(L, D) /\ Choosing(C, L) /\ L \subseteq L
    BY <1>1, HitTurns
  <1>4. \A i \in 0 .. n : a + 1 .. a + i \in SUBSET Indices
    BY <1>1 DEF Indices
  <1>5. \A i \in 0 .. n : G(i) \in D
    BY <1>4, SymTyped DEF Outs
  <1> DEFINE S == {i \in 0 .. n : it[1 .. i] = G(i)}
  <1>6. 0 \in S
    <2>1. a + 1 .. a + 0 = {} /\ 1 .. 0 = {}
      BY <1>1
    <2>2. \A j \in 0 .. n : Sym({}, j) = IF j = 0 THEN 1 ELSE 0
      BY <1>1, SymEmpty
    <2>3. it[{}] = NoHit(n)
      BY <1>2 DEF Folding
    <2>4. G(0) = NoHit(n)
      BY <2>1, <2>2 DEF NoHit
    <2>5. it[1 .. 0] = G(0)
      BY Zenon, <2>1, <2>3, <2>4
    <2> QED BY <1>1, <2>5
  <1>7. ASSUME NEW i \in 0 .. n - 1, i \in S PROVE i + 1 \in S
    <2>0. n \in Nat /\ a \in Nat /\ i \in Nat /\ i < n
      BY <1>1
    <2>1. /\ i + 1 \in 1 .. n /\ 1 .. i + 1 # {} /\ (1 .. i + 1) \ {i + 1} = 1 .. i
          /\ 1 .. i + 1 \in SUBSET (1 .. n) /\ i \in 0 .. n /\ i + 1 \in 0 .. n
      <3>1. i + 1 \in 1 .. n /\ i \in 0 .. n /\ i + 1 \in 0 .. n
        BY <2>0
      <3>2. 1 .. i + 1 # {} /\ (1 .. i + 1) \ {i + 1} = 1 .. i
        BY <2>0
      <3>3. 1 .. i + 1 \in SUBSET (1 .. n)
        BY <2>0
      <3> QED BY <3>1, <3>2, <3>3
    <2>2. PICK J : J = 1 .. i + 1
      OBVIOUS
    <2>3. it[1 .. i] = G(i) /\ G(i) \in D
      BY <1>5, <1>7, <2>1
    <2>4. Max(J) = i + 1
      <3>1. PICK x : x = Max(J)
        OBVIOUS
      <3>2. x \in J /\ \A j \in J : x >= j
        BY <1>1, <2>1, <2>2, <3>1, LastOf
      <3>3. x \in 1 .. i + 1 /\ x >= i + 1
        BY <2>1, <2>2, <3>2
      <3> QED BY <3>1, <3>3
    <2>5. it[1 .. i + 1] = O[<<i + 1, G(i)>>]
      <3>1. J \in SUBSET (1 .. n) /\ J # {} /\ J \ {i + 1} = 1 .. i
        BY Zenon, <2>1, <2>2
      <3>2. C[J] = i + 1
        BY <2>4, <3>1 DEF Largest
      <3>3. it[J \ {C[J]}] = G(i)
        BY Zenon, <2>3, <3>1, <3>2
      <3> HIDE DEF D, O, C, b, G
      <3>4. it[J] = O[<<C[J], it[J \ {C[J]}]>>]
        BY <1>2, <2>3, <3>1, <3>3 DEF Folding
      <3> QED BY Zenon, <2>2, <3>2, <3>3, <3>4
    <2>6. O[<<i + 1, G(i)>>]
            = [j \in 0 .. n |-> G(i)[j] + (IF j = 0 THEN 0 ELSE G(i)[j - 1] * ws[i + 1])]
      <3>1. \A x \in 1 .. n, out \in D :
              O[<<x, out>>] = [j \in 0 .. n |-> out[j] + (IF j = 0 THEN 0 ELSE out[j - 1] * ws[x])]
        BY DEF HitTurn
      <3> HIDE DEF O, G
      <3> QED BY <2>1, <2>3, <3>1
    <2>7. \A j \in 0 .. n :
            G(i)[j] + (IF j = 0 THEN 0 ELSE G(i)[j - 1] * ws[i + 1]) = Sym(a + 1 .. a + (i + 1), j)
      <3> DEFINE T == a + 1 .. a + i
                 U == a + 1 .. a + (i + 1)
                 x == a + (i + 1)
      <3>1. x \in U /\ U \ {x} = T /\ U \in SUBSET Indices /\ T \in SUBSET Indices /\ x \in Indices
        <4>1. U \in SUBSET Indices /\ T \in SUBSET Indices
          BY <1>4, <2>1
        <4>2. x \in U /\ U \ {x} = T
          BY <2>0
        <4> QED BY <4>1, <4>2
      <3>2. PICK w \in Nat : w = ws[i + 1] /\ w = weights[x]
        BY <1>1, <2>1
      <3>3. \A j \in 0 .. n : G(i)[j] = Sym(T, j) /\ j \in Int
        OBVIOUS
      <3> HIDE DEF G, T, U, x
      <3> TAKE j \in 0 .. n
      <3>4. Sym(U, j) = Sym(T, j) + w * Sym(T, j - 1)
        <4>1. Sym(U, j) = Sym(U \ {x}, j) + weights[x] * Sym(U \ {x}, j - 1)
          BY <3>1, SymStep
        <4> QED BY Zenon, <3>1, <3>2, <4>1
      <3>5. Sym(T, j) \in Nat /\ Sym(T, j - 1) \in Nat
        BY <3>1, SymTyped
      <3>6. CASE j = 0
        <4>1. Sym(T, j - 1) = 0
          BY <3>1, <3>6, SymNone
        <4>2. Sym(U, j) = Sym(T, j)
          BY <3>4, <3>5, <4>1
        <4> QED BY <3>3, <3>5, <3>6, <4>2 DEF U
      <3>7. CASE j # 0
        <4>1. j - 1 \in 0 .. n
          BY <2>0, <3>7
        <4>2. G(i)[j] = Sym(T, j) /\ G(i)[j - 1] = Sym(T, j - 1)
          BY <3>3, <4>1
        <4>3. PICK c \in Nat, d \in Nat : c = Sym(T, j) /\ d = Sym(T, j - 1)
          BY <3>5
        <4>4. c + d * w = c + w * d
          OBVIOUS
        <4>5. G(i)[j] + G(i)[j - 1] * ws[i + 1] = c + d * w
          BY Zenon, <3>2, <4>2, <4>3
        <4>6. Sym(U, j) = c + w * d
          BY Zenon, <3>4, <4>3
        <4> QED BY Zenon, <3>7, <4>4, <4>5, <4>6 DEF U
      <3> QED BY <3>6, <3>7
    <2>8. O[<<i + 1, G(i)>>] = G(i + 1)
      BY <2>6, <2>7
    <2> QED BY Zenon, <2>1, <2>5, <2>8
  <1> HIDE DEF S
  <1>8. n \in S
    <2>1. n \in Nat
      BY <1>1
    <2>2. \A i \in 0 .. n : i \in S
      BY <1>6, <1>7, <2>1, UpToBySteps
    <2> QED BY <2>1, <2>2
  <1>9. Hits(ws) = G(n) /\ G(n) \in D
    BY <1>1, <1>2, <1>5, <1>8 DEF S
  <1> QED BY <1>9 DEF Outs, CallsOfPart

\* h are the hits of the n experts of S.
HitsOf(h, S, n) ==
  /\ h \in [0 .. n -> Nat] /\ \A j \in 0 .. n : h[j] = Sym(S, j)
  /\ S \in SUBSET Indices /\ Cardinality(S) = n

\* The hits of a part of the experts, from lo to hi.
LEMMA PartHits ==
  ASSUME Weighing, NEW lo \in Nat, lo >= 1, NEW hi \in Nat, hi <= Experts, lo <= hi + 1
  PROVE  HitsOf(Hits(SubSeq(weights, lo, hi)), lo .. hi, hi - lo + 1)
  <1>1. PICK a \in Nat, n \in Nat : a = lo - 1 /\ n = hi - lo + 1
    <2>1. lo - 1 \in Nat /\ hi - lo + 1 \in Nat
      OBVIOUS
    <2> QED BY <2>1
  <1>2. lo = a + 1 /\ hi = a + n
    BY <1>1
  <1>3. Experts \in Nat
    BY PlanAssumption DEF PlanAssumption
  <1>4. \A i \in lo .. hi : weights[i] \in Nat
    BY <1>3 DEF Weighing, Indices
  <1>5. PICK ws : ws = SubSeq(weights, lo, hi)
    OBVIOUS
  <1>6. ws \in Seq(Nat) /\ Len(ws) = n /\ \A i \in 1 .. n : ws[i] = weights[lo + i - 1]
    <2>1. /\ ws \in Seq(Nat) /\ Len(ws) = IF lo <= hi THEN hi - lo + 1 ELSE 0
          /\ \A i \in 1 .. hi - lo + 1 : ws[i] = weights[lo + i - 1]
      BY <1>4, <1>5, SubSeqProperties
    <2>2. (IF lo <= hi THEN hi - lo + 1 ELSE 0) = n
      BY <1>1
    <2> QED BY Zenon, <1>1, <2>1, <2>2
  <1>7. ws \in [1 .. n -> Nat]
    BY <1>6
  <1>8. PartOf(ws, a, n)
    <2>1. \A i \in 1 .. n : ws[i] = weights[a + i]
      <3> TAKE i \in 1 .. n
      <3>1. lo + i - 1 = a + i
        BY <1>2
      <3> QED BY <1>6, <3>1
    <2> QED BY <1>2, <1>7, <2>1 DEF PartOf
  <1>9. Hits(ws) \in [0 .. n -> Nat] /\ \A j \in 0 .. n : Hits(ws)[j] = Sym(a + 1 .. a + n, j)
    <2>1. CallsOfPart(Hits(ws), a, n)
      BY <1>8, HitsKnown
    <2> QED BY <2>1 DEF CallsOfPart
  <1>10. lo .. hi \in SUBSET Indices
    BY <1>3 DEF Indices
  <1>11. Cardinality(lo .. hi) = hi - lo + 1
    <2>1. lo \in Int /\ hi \in Int
      OBVIOUS
    <2>2. Cardinality(lo .. hi) = IF lo > hi THEN 0 ELSE hi - lo + 1
      BY <2>1, FS_Interval
    <2> QED BY <2>2
  <1> QED BY Zenon, <1>1, <1>2, <1>5, <1>9, <1>10, <1>11 DEF HitsOf

\* The slots of the two pools.
LEMMA SizesNatural ==
  ASSUME NEW r \in 1 .. 99, mem \in Nat
  PROVE  FullSize(r) \in Nat /\ SmSize(r) \in Nat
  <1>1. Layers \in Nat \ {0} /\ SmSlot \in Nat \ {0}
    BY PlanAssumption DEF PlanAssumption
  <1>2. \A x, y \in Nat \ {0} : 100 * x * 2 * y \in Nat \ {0} /\ 100 * x * y \in Nat \ {0}
    OBVIOUS
  <1>3. \A x, y \in Nat : x * y \in Nat
    OBVIOUS
  <1>4. \A x \in Nat : \A y \in Nat \ {0} : x \div y \in Nat
    OBVIOUS
  <1>5. r * mem \in Nat /\ (100 - r) * mem \in Nat
    BY <1>3
  <1> QED BY <1>1, <1>2, <1>4, <1>5 DEF FullSize, SmSize

\* The hits of the three parts together.
Triples(S, T, U, k) ==
  [s \in (0 .. k) \X (0 .. k) |-> Sym(S, s[1]) * (Sym(T, s[2]) * Sym(U, k - s[1] - s[2]))]

TripleSums(S, T, U, k) ==
  /\ Naturals(Triples(S, T, U, k), (0 .. k) \X (0 .. k))
  /\ Total(Triples(S, T, U, k), (0 .. k) \X (0 .. k)) = Sym(S \cup (T \cup U), k)

LEMMA TriplesAddUp ==
  ASSUME Weighing, NEW S \in SUBSET Indices, NEW T \in SUBSET Indices, NEW U \in SUBSET Indices,
         S \cap T = {}, S \cap U = {}, T \cap U = {}, NEW k \in Nat
  PROVE  TripleSums(S, T, U, k)
  <1> DEFINE K == 0 .. k
             f == Triples(S, T, U, k)
             V == T \cup U
             R == Rows(f, K, K)
             H == Pairs(S, V, k, k)
  <1>1. /\ V \in SUBSET Indices /\ S \cap V = {} /\ k \in Int /\ k <= k
        /\ \A a \in K : k - a \in Int /\ k - a <= k
    OBVIOUS
  <1>2. \A m, n, p \in Nat : m * (n * p) \in Nat
    OBVIOUS
  <1>3. \A a, b \in K :
          f[<<a, b>>] = Sym(S, a) * (Sym(T, b) * Sym(U, (k - a) - b)) /\ f[<<a, b>>] \in Nat
    <2> TAKE a, b \in K
    <2>1. Sym(S, a) \in Nat /\ Sym(T, b) \in Nat /\ Sym(U, (k - a) - b) \in Nat
      BY SymTyped
    <2>2. f[<<a, b>>] = Sym(S, a) * (Sym(T, b) * Sym(U, (k - a) - b))
      BY DEF Triples
    <2> QED BY <1>2, <2>1, <2>2
  <1>4. Naturals(f, K \X K)
    <2> SUFFICES ASSUME NEW p \in K \X K PROVE f[p] \in Nat
      BY DEF Naturals
    <2>1. PICK a \in K, b \in K : p = <<a, b>>
      OBVIOUS
    <2> HIDE DEF f, K
    <2> QED BY <1>3, <2>1
  <1>5. IsFiniteSet(K)
    BY FS_Interval
  <1>6. Naturals(H, K) /\ \A a \in K : H[a] = Sym(S, a) * Sym(V, k - a)
    BY <1>1, PairsTyped
  <1>7. \A a \in K : R[a] = H[a]
    <2> TAKE a \in K
    <2> DEFINE P == Pairs(T, U, k, k - a)
               M == [b \in K |-> <<a, b>>]
               g == [b \in K |-> Sym(S, a) * P[b]]
    <2>1. Naturals(P, K) /\ \A b \in K : P[b] = Sym(T, b) * Sym(U, (k - a) - b)
      BY <1>1, PairsTyped
    <2>2. Sym(S, a) \in Nat
      BY SymTyped
    <2>3. \A b \in K : g[b] = Sym(S, a) * P[b]
      OBVIOUS
    <2>4. {M[b] : b \in K} = {a} \X K
      OBVIOUS
    <2>5. \A b \in K : M[b] = <<a, b>>
      OBVIOUS
    <2>6. \A b, c \in K : M[b] = M[c] => b = c
      BY <2>5
    <2> HIDE DEF f, g, M, P, K
    <2>7. Naturals(g, K)
      <3>1. \A m, n \in Nat : m * n \in Nat
        OBVIOUS
      <3> QED BY <2>1, <2>2, <2>3, <3>1 DEF Naturals
    <2>8. \A b \in K : f[M[b]] = g[b]
      <3> TAKE b \in K
      <3>1. f[M[b]] = Sym(S, a) * (Sym(T, b) * Sym(U, (k - a) - b))
        BY Zenon, <1>3, <2>5
      <3> QED BY Zenon, <2>1, <2>3, <3>1
    <2>9. Total(f, {M[b] : b \in K}) = Total(g, K)
      BY <1>5, <2>6, <2>7, <2>8, TotalImage
    <2>10. Total(g, K) = Sym(S, a) * Total(P, K)
      BY <1>5, <2>1, <2>2, <2>3, TotalScale
    <2>11. Sym(V, k - a) = Total(P, K)
      <3>1. PairsAddUp(T, U, k, k - a)
        BY <1>1, SymJoin DEF K
      <3> QED BY <3>1 DEF PairsAddUp, P, K
    <2>12. R[a] = Total(f, {a} \X K)
      BY DEF Rows
    <2> QED BY Zenon, <1>6, <2>4, <2>9, <2>10, <2>11, <2>12
  <1>8. Sym(S \cup V, k) = Total(H, K)
    <2>1. PairsAddUp(S, V, k, k)
      BY <1>1, SymJoin
    <2> QED BY <2>1 DEF PairsAddUp
  <1> HIDE DEF f, H, K
  <1>9. Total(f, K \X K) = Total(R, K)
    BY <1>4, <1>5, TotalRows
  <1> HIDE DEF R
  <1>10. Total(R, K) = Total(H, K)
    BY <1>5, <1>6, <1>7, TotalSame
  <1> QED BY <1>4, <1>8, <1>9, <1>10 DEF f, K, TripleSums

\* What the walk goes through for a share with room, and its weight altogether.
SplitsFit(r) ==
  /\ IsFiniteSet(Splits(r)) /\ Naturals(SplitWeight(r), Splits(r))
  /\ \A s \in Splits(r) : s[1] \in Nat /\ s[2] \in Nat /\ s[1] + s[2] <= avgk

LEMMA WholeWeight ==
  ASSUME Weighing, mem \in Nat, avgk \in Nat, NEW r \in 1 .. 99, HasRoom(r)
  PROVE  SplitsFit(r) /\ TotalWeight(r) = Sym(Indices, avgk)
  <1>1. PICK k \in Nat : k = avgk
    OBVIOUS
  <1>2. PICK F \in Nat, M \in Nat : F = FullSize(r) /\ M = SmSize(r)
    BY SizesNatural
  <1>3. PICK E \in Nat : E = Experts
    BY PlanAssumption DEF PlanAssumption
  <1>4. F + M <= E
    BY <1>2, <1>3 DEF HasRoom
  <1> DEFINE S == 1 .. F
             T == F + 1 .. F + M
             U == F + M + 1 .. E
             K == 0 .. k
             f == Triples(S, T, U, k)
             Z == Splits(r)
  <1>5. HitsOf(InFull(r), S, F)
    <2>1. 1 \in Nat /\ 1 >= 1 /\ F <= Experts /\ 1 <= F + 1 /\ F - 1 + 1 = F
      BY <1>3, <1>4
    <2>2. HitsOf(Hits(SubSeq(weights, 1, F)), 1 .. F, F - 1 + 1)
      BY <2>1, PartHits
    <2> QED BY Zenon, <1>2, <2>1, <2>2 DEF InFull
  <1>6. HitsOf(InSm(r), T, M)
    <2>1. PICK lo \in Nat, hi \in Nat : lo = F + 1 /\ hi = F + M
      OBVIOUS
    <2>2. lo >= 1 /\ hi <= Experts /\ lo <= hi + 1 /\ hi - lo + 1 = M
      BY <1>3, <1>4, <2>1
    <2>3. HitsOf(Hits(SubSeq(weights, lo, hi)), lo .. hi, hi - lo + 1)
      BY <2>2, PartHits
    <2> QED BY Zenon, <1>2, <2>1, <2>2, <2>3 DEF InSm
  <1>7. HitsOf(InRest(r), U, E - F - M)
    <2>1. PICK lo \in Nat : lo = F + M + 1
      OBVIOUS
    <2>2. lo >= 1 /\ E <= Experts /\ lo <= E + 1 /\ E - lo + 1 = E - F - M
      BY <1>3, <1>4, <2>1
    <2>3. HitsOf(Hits(SubSeq(weights, lo, E)), lo .. E, E - lo + 1)
      BY <2>2, PartHits
    <2> QED BY Zenon, <1>2, <1>3, <2>1, <2>2, <2>3 DEF InRest
  <1>7a. /\ S \in SUBSET Indices /\ T \in SUBSET Indices /\ U \in SUBSET Indices
         /\ Cardinality(S) = F /\ Cardinality(T) = M /\ Cardinality(U) = E - F - M
    BY <1>5, <1>6, <1>7 DEF HitsOf
  <1>8. S \cap T = {} /\ S \cap U = {} /\ T \cap U = {} /\ S \cup (T \cup U) = Indices
    BY <1>3, <1>4 DEF Indices
  <1>9. Z = {s \in (0 .. F) \X (0 .. M) : s[1] + s[2] <= k /\ k - s[1] - s[2] \in 0 .. E - F - M}
    <2>1. DOMAIN InFull(r) = 0 .. F /\ DOMAIN InSm(r) = 0 .. M /\ DOMAIN InRest(r) = 0 .. E - F - M
      BY <1>5, <1>6, <1>7 DEF HitsOf
    <2> QED BY <1>1, <2>1 DEF Splits
  <1>10. Z \in SUBSET (K \X K)
    BY <1>9
  <1> HIDE DEF S, T, U
  <1>11. Naturals(f, K \X K) /\ Total(f, K \X K) = Sym(Indices, k)
    <2>1. Naturals(f, K \X K) /\ Total(f, K \X K) = Sym(S \cup (T \cup U), k)
      <3>1. S \cap T = {} /\ S \cap U = {} /\ T \cap U = {}
        BY <1>8
      <3> HIDE DEF f
      <3>2. TripleSums(S, T, U, k)
        BY <1>7a, <3>1, TriplesAddUp
      <3> QED BY Zenon, <3>2 DEF f, K, TripleSums
    <2> QED BY Zenon, <1>8, <2>1
  <1>12. IsFiniteSet(K \X K)
    <2>1. IsFiniteSet(K)
      BY FS_Interval
    <2> QED BY <2>1, FS_Product
  <1>13. \A s \in (K \X K) \ Z : f[s] = 0
    <2> SUFFICES ASSUME NEW a \in K, NEW b \in K, <<a, b>> \notin Z PROVE f[<<a, b>>] = 0
      OBVIOUS
    <2>1. f[<<a, b>>] = Sym(S, a) * (Sym(T, b) * Sym(U, k - a - b))
      BY DEF Triples
    <2>2. a > F \/ b > M \/ k - a - b < 0 \/ k - a - b > E - F - M
      BY <1>4, <1>9
    <2>3. Sym(S, a) = 0 \/ Sym(T, b) = 0 \/ Sym(U, k - a - b) = 0
      <3>1. a \in Int /\ b \in Int /\ k - a - b \in Int
        OBVIOUS
      <3> QED BY <1>7a, <2>2, <3>1, SymNone
    <2>4. Sym(S, a) \in Nat /\ Sym(T, b) \in Nat /\ Sym(U, k - a - b) \in Nat
      BY <1>7a, SymTyped
    <2>5. \A m, n, p \in Nat : m = 0 \/ n = 0 \/ p = 0 => m * (n * p) = 0
      OBVIOUS
    <2> QED BY <2>1, <2>3, <2>4, <2>5
  <1>14. \A s \in Z : SplitWeight(r)[s] = f[s]
    <2> TAKE s \in Z
    <2>1. PICK a \in 0 .. F, b \in 0 .. M :
            s = <<a, b>> /\ a + b <= k /\ k - a - b \in 0 .. E - F - M /\ a \in K /\ b \in K
      BY <1>9
    <2>2. SplitWeight(r)[s] = InFull(r)[a] * InSm(r)[b] * InRest(r)[k - a - b]
      BY <1>1, <2>1 DEF SplitWeight
    <2>3. InFull(r)[a] = Sym(S, a) /\ InSm(r)[b] = Sym(T, b) /\ InRest(r)[k - a - b] = Sym(U, k - a - b)
      BY <1>5, <1>6, <1>7, <2>1 DEF HitsOf
    <2>4. Sym(S, a) \in Nat /\ Sym(T, b) \in Nat /\ Sym(U, k - a - b) \in Nat
      BY <1>7a, SymTyped
    <2>5. f[s] = Sym(S, a) * (Sym(T, b) * Sym(U, k - a - b))
      BY <2>1 DEF Triples
    <2>6. \A m, n, p \in Nat : m * n * p = m * (n * p)
      OBVIOUS
    <2>7. SplitWeight(r)[s] = Sym(S, a) * Sym(T, b) * Sym(U, k - a - b)
      BY Zenon, <2>2, <2>3
    <2> QED BY <2>4, <2>5, <2>6, <2>7
  <1> HIDE DEF Z, f, K
  <1>15. IsFiniteSet(Z)
    BY <1>10, <1>12, FS_Subset
  <1>16. Naturals(f, Z)
    BY <1>10, <1>11 DEF Naturals
  <1>17. Total(SplitWeight(r), Z) = Total(f, Z)
    BY <1>14, <1>15, <1>16, TotalSame
  <1>18. Total(f, K \X K) = Total(f, Z)
    BY <1>10, <1>12, <1>13, <1>16, TotalWithin
  <1>19. SplitsFit(r)
    <2>1. Naturals(SplitWeight(r), Z)
      BY <1>14, <1>16 DEF Naturals
    <2>2. \A s \in Z : s[1] \in Nat /\ s[2] \in Nat /\ s[1] + s[2] <= avgk
      BY <1>1, <1>9
    <2> QED BY <1>15, <2>1, <2>2 DEF SplitsFit, Z
  <1> QED BY <1>1, <1>11, <1>17, <1>18, <1>19 DEF TotalWeight, Z

\* The calls without one expert.
LEMMA WeightWithout ==
  ASSUME Weighing, NEW i \in Indices, NEW n \in Nat
  PROVE  Without(weights, i, n) = Sym(Indices \ {i}, n)
  <1>1. PICK E \in Nat : E = Experts
    BY PlanAssumption DEF PlanAssumption
  <1>2. i \in Nat /\ 1 <= i /\ i <= E
    BY <1>1 DEF Indices
  <1>3. Len(weights) = E
    <2>1. weights \in [1 .. E -> Nat]
      BY <1>1 DEF Weighing, Indices
    <2>2. weights \in Seq(Nat)
      BY <2>1, SeqDef
    <2> QED BY <1>1, <2>1, <2>2
  <1> DEFINE S == 1 .. i - 1
             T == i + 1 .. E
             f == Pairs(S, T, n, n)
             g == [m \in 0 .. n |-> At(From(weights, i), m) * At(Behind(weights, i), n - m)]
  <1>4. HitsOf(From(weights, i), S, i - 1)
    <2>1. PICK hi \in Nat : hi = i - 1
      BY <1>2
    <2>2. 1 \in Nat /\ 1 >= 1 /\ hi <= Experts /\ 1 <= hi + 1 /\ hi - 1 + 1 = hi
      BY <1>1, <1>2, <2>1
    <2>3. HitsOf(Hits(SubSeq(weights, 1, hi)), 1 .. hi, hi - 1 + 1)
      BY <2>2, PartHits
    <2> QED BY Zenon, <2>1, <2>2, <2>3 DEF From
  <1>5. HitsOf(Behind(weights, i), T, E - i)
    <2>1. PICK lo \in Nat : lo = i + 1
      BY <1>2
    <2>2. lo >= 1 /\ E <= Experts /\ lo <= E + 1 /\ E - lo + 1 = E - i
      BY <1>1, <1>2, <2>1
    <2>3. HitsOf(Hits(SubSeq(weights, lo, E)), lo .. E, E - lo + 1)
      BY <2>2, PartHits
    <2> QED BY Zenon, <1>3, <2>1, <2>2, <2>3 DEF Behind
  <1>5a. /\ S \in SUBSET Indices /\ T \in SUBSET Indices
         /\ Cardinality(S) = i - 1 /\ Cardinality(T) = E - i
         /\ DOMAIN From(weights, i) = 0 .. i - 1 /\ DOMAIN Behind(weights, i) = 0 .. E - i
    BY <1>4, <1>5 DEF HitsOf
  <1>6. S \cap T = {} /\ S \cup T = Indices \ {i}
    BY <1>1, <1>2 DEF Indices
  <1> HIDE DEF S, T
  <1>7. \A j \in Int : At(From(weights, i), j) = Sym(S, j)
    <2> TAKE j \in Int
    <2>1. DOMAIN From(weights, i) = 0 .. i - 1
      BY <1>5a
    <2>2. CASE j \in 0 .. i - 1
      BY <1>4, <2>1, <2>2 DEF At, HitsOf
    <2>3. CASE j \notin 0 .. i - 1
      <3>1. j < 0 \/ j > Cardinality(S)
        BY <1>2, <1>5a, <2>3
      <3> QED BY <1>5a, <2>1, <2>3, <3>1, SymNone DEF At
    <2> QED BY <2>2, <2>3
  <1>8. \A j \in Int : At(Behind(weights, i), j) = Sym(T, j)
    <2> TAKE j \in Int
    <2>1. DOMAIN Behind(weights, i) = 0 .. E - i
      BY <1>5a
    <2>2. CASE j \in 0 .. E - i
      BY <1>5, <2>1, <2>2 DEF At, HitsOf
    <2>3. CASE j \notin 0 .. E - i
      <3>1. j < 0 \/ j > Cardinality(T)
        BY <1>2, <1>5a, <2>3
      <3> QED BY <1>5a, <2>1, <2>3, <3>1, SymNone DEF At
    <2> QED BY <2>2, <2>3
  <1>9. IsFiniteSet(0 .. n) /\ Naturals(f, 0 .. n) /\ \A m \in 0 .. n : f[m] = Sym(S, m) * Sym(T, n - m)
    BY <1>5a, PairsTyped
  <1>10. \A m \in 0 .. n : g[m] = f[m]
    <2> TAKE m \in 0 .. n
    <2>1. m \in Int /\ n - m \in Int
      OBVIOUS
    <2> QED BY Zenon, <1>7, <1>8, <1>9, <2>1
  <1>11. Without(weights, i, n) = Total(g, 0 .. n)
    BY DEF Without
  <1> HIDE DEF f, g
  <1>12. Total(g, 0 .. n) = Total(f, 0 .. n)
    BY <1>9, <1>10, TotalSame
  <1>13. Sym(S \cup T, n) = Total(f, 0 .. n)
    <2>1. n \in Int /\ n <= n
      OBVIOUS
    <2>2. PairsAddUp(S, T, n, n)
      BY <1>5a, <1>6, <2>1, SymJoin
    <2> QED BY <2>2 DEF PairsAddUp, f
  <1> QED BY <1>6, <1>11, <1>12, <1>13

\* avgk's product of 1 + w.
AllOdds == FoldFunction(LAMBDA w, product : (1 + w) * product, 1, weights)
Odds == [p \in Indices \X (Nat \ {0}) |-> (1 + weights[p[1]]) * p[2]]

LEMMA AllOddsPositive == ASSUME Weighing PROVE AllOdds \in Nat \ {0}
  <1> DEFINE D == Nat \ {0}
             P(g) == g = [s \in SUBSET Indices |-> IF s = {} THEN 1
                            ELSE (1 + weights[CHOOSE x \in s : TRUE])
                                   * g[s \ {CHOOSE x \in s : TRUE}]]
             it == CHOOSE g : P(g)
             O == Odds
             C == Chosen(Indices)
  <1>0. DOMAIN weights = Indices
    BY DEF Weighing
  <1>1. AllOdds = it[Indices]
    BY <1>0 DEF AllOdds, FoldFunction, FoldFunctionOnSet, MapThenFoldSet
  <1>2. O \in Ops(Indices, D) /\ \A x \in Indices, d \in D : O[<<x, d>>] = (1 + weights[x]) * d
    <2>1. \A w \in Nat, d \in D : (1 + w) * d \in D
      OBVIOUS
    <2>2. \A x \in Indices, d \in D : (1 + weights[x]) * d \in D
      BY <2>1 DEF Weighing
    <2> QED BY <2>2 DEF Ops, Odds
  <1>3. Choosing(C, Indices) /\ \A s \in SUBSET Indices : C[s] = CHOOSE x \in s : TRUE
    BY ChosenOne DEF Chosen
  <1>4. IsFiniteSet(Indices) /\ Indices \subseteq Indices /\ 1 \in D
    BY IndicesFinite
  <1> HIDE DEF O, C, D
  <1>5. PICK g \in [SUBSET Indices -> D] : Folded(g, Indices, D, 1, O, C)
    BY <1>2, <1>3, <1>4, FoldExists
  <1>6. P(g)
    <2>1. ASSUME NEW s \in SUBSET Indices
          PROVE  g[s] = IF s = {} THEN 1
                        ELSE (1 + weights[CHOOSE x \in s : TRUE]) * g[s \ {CHOOSE x \in s : TRUE}]
      <3>1. g[s] = IF s = {} THEN 1 ELSE O[<<C[s], g[s \ {C[s]}]>>]
        BY <1>5 DEF Folded
      <3>2. CASE s = {}
        BY <3>1, <3>2
      <3>3. CASE s # {}
        <4>1. C[s] \in Indices /\ s \ {C[s]} \in SUBSET Indices
          BY <1>3, <3>3 DEF Choosing
        <4>2. g[s] = (1 + weights[C[s]]) * g[s \ {C[s]}]
          BY <1>2, <3>1, <3>3, <4>1
        <4> QED BY <1>3, <3>3, <4>2
      <3> QED BY <3>2, <3>3
    <2>2. g = [s \in SUBSET Indices |-> g[s]]
      OBVIOUS
    <2> QED BY <2>1, <2>2
  <1>7. P(it)
    BY Zenon, <1>6
  <1> HIDE DEF it
  <1>8. \A s \in SUBSET Indices :
          it[s] = IF s = {} THEN 1
                  ELSE (1 + weights[CHOOSE x \in s : TRUE]) * it[s \ {CHOOSE x \in s : TRUE}]
    BY <1>7
  <1>9. it[{}] = 1
    BY <1>8
  <1>10. ASSUME NEW s \in SUBSET Indices, s # {}, it[s \ {C[s]}] \in D
         PROVE  it[s] = O[<<C[s], it[s \ {C[s]}]>>]
    <2>1. it[s] = (1 + weights[C[s]]) * it[s \ {C[s]}]
      BY <1>3, <1>8, <1>10
    <2>2. C[s] \in Indices
      BY <1>3, <1>10 DEF Choosing
    <2> QED BY <1>2, <1>10, <2>1, <2>2
  <1>11. Folding(it, Indices, D, 1, O, C)
    BY <1>9, <1>10 DEF Folding
  <1>12. \A s \in SUBSET Indices : it[s] \in D
    BY <1>2, <1>3, <1>4, <1>11, FoldTyped
  <1> QED BY <1>1, <1>12 DEF D

LEMMA TotalBound ==
  ASSUME NEW S, IsFiniteSet(S), NEW f, Naturals(f, S), NEW c \in Nat, \A x \in S : f[x] <= c
  PROVE  Total(f, S) <= c * Cardinality(S)
  <1> DEFINE P == {T \in SUBSET S : Total(f, T) <= c * Cardinality(T)}
  <1>1. ASSUME NEW T \in SUBSET S, \A x \in T : T \ {x} \in P PROVE T \in P
    <2>1. IsFiniteSet(T) /\ Naturals(f, T)
      BY FS_Subset DEF Naturals
    <2>2. CASE T = {}
      <3>1. Total(f, T) = 0 /\ Cardinality(T) = 0
        BY <2>2, FS_EmptySet, TotalNone
      <3> QED BY <3>1
    <2>3. ASSUME NEW x \in T PROVE Total(f, T) <= c * Cardinality(T)
      <3>1. Total(f, T) = f[x] + Total(f, T \ {x})
        BY <2>1, TotalStep
      <3>2. PICK n \in Nat : n = Cardinality(T \ {x})
        BY <2>1, FS_RemoveElement, FS_CardinalityType
      <3>3. Cardinality(T) = n + 1
        <4>1. PICK m \in Nat : m = Cardinality(T)
          BY <2>1, FS_CardinalityType
        <4>2. Cardinality(T \ {x}) = Cardinality(T) - 1
          BY <2>1, FS_RemoveElement
        <4>3. n = m - 1
          BY Zenon, <3>2, <4>1, <4>2
        <4> QED BY <4>1, <4>3
      <3>4. Total(f, T \ {x}) <= c * n
        BY <1>1, <3>2
      <3>5. PICK t \in Nat : t = Total(f, T \ {x})
        <4>1. IsFiniteSet(T \ {x}) /\ Naturals(f, T \ {x})
          BY <2>1, FS_Subset DEF Naturals
        <4> QED BY <4>1, TotalStep
      <3>6. PICK y \in Nat : y = f[x] /\ y <= c
        BY DEF Naturals
      <3>7. c * (n + 1) = c * n + c /\ c * n \in Nat
        OBVIOUS
      <3>8. y + t <= c * (n + 1)
        BY <3>4, <3>5, <3>6, <3>7
      <3> QED BY <3>1, <3>3, <3>5, <3>6, <3>8
    <2> QED BY <2>2, <2>3
  <1> HIDE DEF P
  <1>2. S \in P
    BY <1>1, SetsByParts
  <1> QED BY <1>2 DEF P

\* The experts that are ever called.
Called == {i \in Indices : weights[i] # 0}

\* No more experts are called on average than are ever called.
LEMMA AvgKnown == ASSUME Weighing PROVE avgk \in Nat /\ avgk <= Cardinality(Called)
  <1> DEFINE f == [i \in 1 .. Experts |-> weights[i] * (AllOdds \div (1 + weights[i]))]
  <1>1. PICK all \in Nat \ {0} : all = AllOdds
    BY AllOddsPositive
  <1>2. avgk = Total(f, Indices) \div all
    BY <1>1 DEF avgk, AllOdds, Indices
  <1>3. ASSUME NEW w \in Nat PROVE w * (all \div (1 + w)) \in Nat /\ w * (all \div (1 + w)) <= all
    <2>1. PICK q \in Nat : q = all \div (1 + w)
      OBVIOUS
    <2>2. (1 + w) * q <= all
      BY <2>1
    <2>3. (1 + w) * q = q + w * q /\ w * q \in Nat
      OBVIOUS
    <2> QED BY <2>1, <2>2, <2>3
  <1>4. \A i \in Indices : f[i] = weights[i] * (all \div (1 + weights[i]))
    BY <1>1 DEF Indices
  <1>5. \A i \in Indices : weights[i] \in Nat
    BY DEF Weighing
  <1> HIDE DEF f
  <1>6. \A i \in Indices : f[i] \in Nat /\ f[i] <= all
    <2> TAKE i \in Indices
    <2>1. PICK w \in Nat : w = weights[i]
      BY <1>5
    <2> QED BY <1>3, <1>4, <2>1
  <1>7. \A i \in Indices \ Called : f[i] = 0
    <2> TAKE i \in Indices \ Called
    <2>1. weights[i] = 0
      BY DEF Called
    <2>2. PICK q \in Nat : q = all \div (1 + 0)
      OBVIOUS
    <2>3. f[i] = 0 * q
      BY Zenon, <1>4, <2>1, <2>2
    <2> QED BY <2>3
  <1>8. Called \in SUBSET Indices /\ IsFiniteSet(Indices) /\ IsFiniteSet(Called)
    BY IndicesFinite DEF Called
  <1>9. Naturals(f, Called)
    BY <1>6, <1>8 DEF Naturals
  <1>10. Total(f, Indices) = Total(f, Called)
    BY <1>7, <1>8, <1>9, TotalWithin
  <1>11. PICK n \in Nat : n = Cardinality(Called)
    BY <1>8, FS_CardinalityType
  <1>12. Total(f, Called) <= all * n
    BY <1>6, <1>8, <1>9, <1>11, TotalBound
  <1>13. PICK t \in Nat : t = Total(f, Called)
    BY <1>8, <1>9, TotalStep
  <1>14. t <= all * n => t \div all \in Nat /\ t \div all <= n
    <2> SUFFICES ASSUME t <= all * n PROVE t \div all \in Nat /\ t \div all <= n
      OBVIOUS
    <2>1. PICK q \in Nat : q = t \div all
      OBVIOUS
    <2>2. all * q <= t
      BY <2>1
    <2>3. q > n => all * q > all * n
      <3>1. ASSUME q > n PROVE all * q >= all * n + all
        <4>1. PICK d \in Nat : q = n + 1 + d
          BY <3>1
        <4>2. all * (n + 1 + d) = all * n + all + all * d /\ all * d \in Nat /\ all * n \in Nat
          OBVIOUS
        <4> QED BY <4>1, <4>2
      <3>2. all * n \in Nat /\ all * q \in Nat
        OBVIOUS
      <3> QED BY <3>1, <3>2
    <2>4. all * n \in Nat /\ all * q \in Nat
      OBVIOUS
    <2> QED BY <2>1, <2>2, <2>3, <2>4
  <1> QED BY <1>2, <1>10, <1>11, <1>12, <1>13, <1>14

\* A set of any smaller size is in a set.
LEMMA SomeOfThem ==
  ASSUME NEW S, IsFiniteSet(S), NEW k \in Nat, k <= Cardinality(S)
  PROVE  \E A \in SUBSET S : Cardinality(A) = k
  <1> DEFINE n == Cardinality(S)
             E == {m \in 0 .. n : \E A \in SUBSET S : Cardinality(A) = n - m}
  <1>1. n \in Nat
    BY FS_CardinalityType
  <1>2. 0 \in E
    BY <1>1
  <1>3. ASSUME NEW m \in 0 .. n - 1, m \in E PROVE m + 1 \in E
    <2>1. PICK A \in SUBSET S : Cardinality(A) = n - m
      BY <1>3
    <2>2. IsFiniteSet(A)
      BY FS_Subset
    <2>3. A # {}
      BY <1>1, <2>1, FS_EmptySet
    <2>4. PICK x : x \in A
      BY <2>3
    <2>5. Cardinality(A \ {x}) = n - (m + 1)
      <3>1. Cardinality(A \ {x}) = Cardinality(A) - 1
        BY <2>2, <2>4, FS_RemoveElement
      <3>2. Cardinality(A \ {x}) = (n - m) - 1
        BY Zenon, <2>1, <3>1
      <3>3. (n - m) - 1 = n - (m + 1)
        BY <1>1
      <3> QED BY Zenon, <3>2, <3>3
    <2>6. A \ {x} \in SUBSET S /\ m + 1 \in 0 .. n
      BY <1>1
    <2> QED BY <2>5, <2>6
  <1>4. k \in 0 .. n /\ n - k \in 0 .. n /\ n - (n - k) = k
    BY <1>1
  <1> HIDE DEF E, n
  <1>5. \A m \in 0 .. n : m \in E
    BY <1>1, <1>2, <1>3, UpToBySteps
  <1> QED BY <1>4, <1>5 DEF E

LEMMA ProductPositive ==
  ASSUME Weighing, NEW A \in SUBSET Called
  PROVE  Product[A] \in Nat \ {0}
  <1> DEFINE P == {T \in SUBSET A : Product[T] \in Nat \ {0}}
  <1>1. A \in SUBSET Indices /\ IsFiniteSet(A)
    BY IndicesFinite DEF Called
  <1>2. ASSUME NEW T \in SUBSET A, \A x \in T : T \ {x} \in P PROVE T \in P
    <2>1. CASE T = {}
      BY <2>1, ProductStep
    <2>2. ASSUME NEW x \in T PROVE Product[T] \in Nat \ {0}
      <3>1. Product[T] = weights[x] * Product[T \ {x}]
        BY <1>1, ProductStep
      <3>2. Product[T \ {x}] \in Nat \ {0}
        BY <1>2
      <3>3. weights[x] \in Nat \ {0}
        BY <1>1 DEF Called, Weighing
      <3>4. \A a, b \in Nat \ {0} : a * b \in Nat \ {0}
        OBVIOUS
      <3> QED BY <3>1, <3>2, <3>3, <3>4
    <2> QED BY <2>1, <2>2
  <1> HIDE DEF P
  <1>3. A \in P
    BY <1>1, <1>2, SetsByParts
  <1> QED BY <1>3 DEF P

\* The calls of avgk experts are possible.
LEMMA CallsPossible == ASSUME Weighing PROVE Sym(Indices, avgk) > 0 /\ Sym(Indices, avgk) \in Nat
  <1>1. Called \in SUBSET Indices /\ IsFiniteSet(Called)
    BY IndicesFinite DEF Called
  <1>2. PICK k \in Nat : k = avgk /\ k <= Cardinality(Called)
    BY AvgKnown
  <1>3. PICK A \in SUBSET Called : Cardinality(A) = k
    BY <1>1, <1>2, SomeOfThem
  <1>4. PICK X : X = kSubset(k, Indices)
    OBVIOUS
  <1>5. A \in X
    BY <1>1, <1>3, <1>4 DEF kSubset
  <1>6. IsFiniteSet(X) /\ Naturals(Product, X) /\ Sym(Indices, k) \in Nat
    BY <1>4, SymTyped
  <1>7. Total(Product, X) = Product[A] + Total(Product, X \ {A})
    BY <1>5, <1>6, TotalStep
  <1>8. Total(Product, X \ {A}) \in Nat
    <2>1. IsFiniteSet(X \ {A}) /\ Naturals(Product, X \ {A})
      BY <1>6, FS_Subset DEF Naturals
    <2> QED BY <2>1, TotalStep
  <1>9. Product[A] \in Nat \ {0}
    BY ProductPositive
  <1>10. Total(Product, X) > 0
    BY <1>7, <1>8, <1>9
  <1> QED BY <1>2, <1>4, <1>6, <1>10 DEF Sym

-----------------------------------------------------------------------------
(* Division.                                                               *)

\* The quotient of a natural number is the largest multiple below it.
LEMMA DivBound ==
  ASSUME NEW a \in Nat, NEW b \in Nat \ {0}
  PROVE  /\ a \div b \in Nat
         /\ b * (a \div b) <= a
         /\ a < b * (a \div b) + b
  OBVIOUS

\* A product that is not larger gives a quotient that is not smaller.
LEMMA DivAtLeast ==
  ASSUME NEW a \in Nat, NEW b \in Nat \ {0}, NEW q \in Nat, b * q <= a
  PROVE  q <= a \div b
  <1>1. a < b * (a \div b) + b /\ a \div b \in Nat
    BY DivBound
  <1>2. CASE a \div b < q
    <2>1. (a \div b) + 1 <= q
      BY <1>1, <1>2
    <2>2. b * ((a \div b) + 1) <= b * q
      BY <1>1, <2>1
    <2>3. b * ((a \div b) + 1) = b * (a \div b) + b
      BY <1>1
    <2> QED BY <1>1, <2>2, <2>3
  <1> QED BY <1>1, <1>2

\* Rounding up the quotient loses nothing either.
LEMMA CeilAtLeast ==
  ASSUME NEW a \in Nat, NEW b \in Nat \ {0}, NEW q \in Nat, b * q <= a
  PROVE  q <= CeilDiv(a, b)
  <1>1. a + b - 1 \in Nat /\ b * q <= a + b - 1
    OBVIOUS
  <1> QED BY <1>1, DivAtLeast DEF CeilDiv

\* The percentages of the walk are those between 0 and 100.
LEMMA PercentRange ==
  ASSUME NEW i \in 1 .. Steps - 1
  PROVE  Percent(i) \in 1 .. 99
  <1>1. PICK q \in Nat : q = 100 \div Steps /\ Steps * q = 100
    BY PlanAssumption DEF PlanAssumption
  <1>2. Steps \in Nat /\ q >= 1 /\ i \in Nat /\ i >= 1 /\ i <= Steps - 1
    BY <1>1, PlanAssumption DEF PlanAssumption
  <1>3. i * q >= 1 * q
    BY <1>2
  <1>4. i * q <= (Steps - 1) * q
    BY <1>2
  <1>5. (Steps - 1) * q = 100 - q
    BY <1>1, <1>2
  <1>6. i * q \in Nat
    BY <1>2
  <1> QED BY <1>1, <1>2, <1>3, <1>4, <1>5, <1>6 DEF Percent

\* Slots that fit into a layer's part of a share, taken for all layers, are slots
\* of the pool that gets the share of the whole memory.
LEMMA LayersTogether ==
  ASSUME NEW a \in Nat, NEW L \in Nat \ {0}, NEW slot \in Nat \ {0}
  PROVE  slot * ((a \div (100 * L * slot)) * L) <= a \div 100
  <1> DEFINE n == a \div (100 * L * slot)
  <1>1. 100 * L * slot \in Nat \ {0}
    <2>1. L * slot \in Nat \ {0}
      OBVIOUS
    <2>2. 100 * L * slot = 100 * (L * slot)
      OBVIOUS
    <2> QED BY <2>1, <2>2
  <1>2. n \in Nat /\ (100 * L * slot) * n <= a
    BY <1>1, DivBound
  <1> HIDE DEF n
  <1>3. (100 * L * slot) * n = 100 * (slot * (n * L)) /\ slot * (n * L) \in Nat
    BY <1>2
  <1>4. slot * (n * L) <= a \div 100
    BY <1>2, <1>3, DivAtLeast
  <1> QED BY <1>4 DEF n

-----------------------------------------------------------------------------
(* The walk.                                                               *)

\* A share with room, if it is the one that is taken.
LEMMA RoomIsBuilt ==
  ASSUME mem \in Nat, ratio \in 1 .. 99, HasRoom(ratio)
  PROVE  /\ CeilDiv(GpuBytes, 2 * SmSlot) >= Experts
         /\ CeilDiv(mem - GpuBytes, SmSlot) >= Experts
  <1>a. Experts \in Nat \ {0} /\ Layers \in Nat \ {0} /\ SmSlot \in Nat \ {0}
    BY PlanAssumption DEF PlanAssumption
  <1>b. 2 * SmSlot \in Nat \ {0} /\ ratio * mem \in Nat /\ (100 - ratio) * mem \in Nat
    BY <1>a
  <1>1. GpuBytes \in Nat /\ 100 * GpuBytes <= ratio * mem
    BY <1>b, DivBound DEF GpuBytes
  <1>2. FullSize(ratio) \in Nat /\ SmSize(ratio) \in Nat
    <2>1. 100 * Layers * 2 * SmSlot \in Nat \ {0} /\ 100 * Layers * SmSlot \in Nat \ {0}
      BY <1>a
    <2> QED BY <1>b, <2>1, DivBound DEF FullSize, SmSize
  <1>3. (2 * SmSlot) * (FullSize(ratio) * Layers) <= GpuBytes
    <2>1. 100 * Layers * (2 * SmSlot) = 100 * Layers * 2 * SmSlot
      BY <1>a
    <2> QED BY <1>a, <1>b, <2>1, LayersTogether DEF FullSize, GpuBytes
  <1>4. SmSlot * (SmSize(ratio) * Layers) <= mem - GpuBytes
    <2>1. SmSlot * (SmSize(ratio) * Layers) <= ((100 - ratio) * mem) \div 100
      BY <1>a, <1>b, LayersTogether DEF SmSize
    <2>2. ((100 - ratio) * mem) \div 100 \in Nat
          /\ 100 * (((100 - ratio) * mem) \div 100) <= (100 - ratio) * mem
      BY <1>b, DivBound
    <2>3. (100 - ratio) * mem = 100 * mem - ratio * mem
      OBVIOUS
    <2>4. ((100 - ratio) * mem) \div 100 <= mem - GpuBytes
      BY <1>1, <1>b, <2>2, <2>3
    <2>5. SmSlot * (SmSize(ratio) * Layers) \in Nat
      BY <1>a, <1>2
    <2> QED BY <1>1, <2>1, <2>2, <2>4, <2>5
  <1>5. mem - GpuBytes \in Nat
    <2>1. SmSlot * (SmSize(ratio) * Layers) \in Nat
      BY <1>a, <1>2
    <2> QED BY <1>1, <1>4, <2>1
  <1>6. FullSize(ratio) * Layers \in Nat /\ FullSize(ratio) * Layers >= Experts
        /\ SmSize(ratio) * Layers \in Nat /\ SmSize(ratio) * Layers >= Experts
    BY <1>a, <1>2 DEF HasRoom
  <1>7. CeilDiv(GpuBytes, 2 * SmSlot) >= FullSize(ratio) * Layers
    BY <1>1, <1>b, <1>3, <1>6, CeilAtLeast
  <1>8. CeilDiv(mem - GpuBytes, SmSlot) >= SmSize(ratio) * Layers
    BY <1>5, <1>a, <1>4, <1>6, CeilAtLeast
  <1> QED BY <1>a, <1>b, <1>1, <1>5, <1>6, <1>7, <1>8 DEF CeilDiv

\* The shares with room.
Roomy == {r \in 1 .. 99 : HasRoom(r)}

\* What is listed has room, and what is built is cut from the taken share.
PlanInv ==
  /\ mem \in Nat /\ step \in Nat /\ step >= 1
  /\ listed \in Seq(Roomy)
  /\ at = "built" => /\ gpuSlots = CeilDiv(GpuBytes, 2 * SmSlot)
                     /\ smSlots = CeilDiv(mem - GpuBytes, SmSlot)

LEMMA InitPlanInv == PlanInit => PlanInv
  BY PlanAssumption DEF PlanInit, PlanInv, PlanAssumption

LEMMA StepPlanInv == PlanInv /\ [PlanNext]_planVars => PlanInv'
  <1> SUFFICES ASSUME PlanInv, [PlanNext]_planVars PROVE PlanInv'
    OBVIOUS
  <1>r. ASSUME UNCHANGED mem PROVE Roomy' = Roomy
    BY <1>r DEF Roomy, HasRoom, FullSize, SmSize
  <1>1. CASE TryShare
    <2>1. step \in 1 .. Steps - 1 /\ step' \in Nat /\ step' >= 1 /\ at' # "built"
      BY <1>1, PlanAssumption DEF TryShare, PlanInv, PlanAssumption
    <2>2. Percent(step) \in 1 .. 99 /\ HasRoom(Percent(step))
      BY <1>1, <2>1, PercentRange DEF TryShare
    <2>3. listed' = listed \/ listed' = Append(listed, Percent(step))
      BY <1>1 DEF TryShare
    <2>4. listed' \in Seq(Roomy)
      <3>1. Percent(step) \in Roomy /\ listed \in Seq(Roomy)
        BY <2>2 DEF PlanInv, Roomy
      <3> QED BY <2>3, <3>1
    <2>5. UNCHANGED <<mem, ratio>>
      BY <1>1 DEF TryShare, inputs
    <2> QED BY <1>r, <2>1, <2>4, <2>5 DEF PlanInv
  <1>2. CASE PassShare \/ EndWalk
    <2>1. UNCHANGED <<mem, ratio, listed>> /\ at' # "built" /\ step' \in Nat /\ step' >= 1
      BY <1>2 DEF PassShare, EndWalk, inputs, PlanInv
    <2> QED BY <1>r, <2>1 DEF PlanInv
  <1>3. CASE Choose
    <2>1. UNCHANGED <<mem, listed>> /\ at' # "built" /\ step' = 1
      BY <1>3 DEF Choose, inputs
    <2> QED BY <1>r, <2>1 DEF PlanInv
  <1>4. CASE Build
    <2>1. UNCHANGED <<mem, ratio, listed, step>>
      BY <1>4 DEF Build, inputs
    <2>2. GpuBytes' = GpuBytes
      BY <2>1 DEF GpuBytes
    <2> QED BY <1>4, <1>r, <2>1, <2>2 DEF Build, PlanInv, CeilDiv
  <1>5. CASE UNCHANGED planVars
    <2>1. UNCHANGED <<mem, ratio, listed, step, at, gpuSlots, smSlots>> /\ GpuBytes' = GpuBytes
      BY <1>5 DEF planVars, GpuBytes
    <2> QED BY <1>r, <2>1 DEF PlanInv, CeilDiv
  <1> QED BY <1>1, <1>2, <1>3, <1>4, <1>5 DEF PlanNext

\* Every listed share that is taken gives pools with a slot of each kind for every
\* expert of a layer: the sizes under which the pipeline faults and evicts nothing
\* while it serves one layer.
THEOREM PlannedPoolsFit == StartSpec => []PlanFits
  <1>1. PlanInv => PlanFits
    <2> SUFFICES ASSUME PlanInv, at = "built", ratio \in Range(listed)
                 PROVE  gpuSlots >= Experts /\ smSlots >= Experts
      BY DEF PlanFits
    <2>1. PICK j \in DOMAIN listed : ratio = listed[j]
      BY DEF Range
    <2>2. mem \in Nat /\ ratio \in 1 .. 99 /\ HasRoom(ratio)
      BY <2>1 DEF PlanInv, Roomy
    <2> QED BY <2>2, RoomIsBuilt DEF PlanInv
  <1>2. StartInit => PlanInv
    BY InitPlanInv DEF StartInit
  <1>3. PlanInv /\ [StartNext]_<<planVars, vars>> => PlanInv'
    BY StepPlanInv DEF StartNext
  <1> QED BY <1>1, <1>2, <1>3, PTL DEF StartSpec

-----------------------------------------------------------------------------
(* What comes of the walk.                                                 *)

\* Of two products with the same factor, the smaller has the smaller other factor.
LEMMA FactorLess ==
  ASSUME NEW d \in Nat \ {0}, NEW a \in Nat, NEW b \in Nat, d * a < d * b
  PROVE  a < b
  <1> SUFFICES ASSUME b <= a PROVE FALSE
    OBVIOUS
  <1>1. PICK c \in Nat : a = b + c
    OBVIOUS
  <1>2. d * a = d * b + d * c /\ d * c \in Nat /\ d * b \in Nat
    BY <1>1
  <1> QED BY <1>2

\* If a share below 30 has room, so has a larger one up to 58 that is at least twice as
\* large: its GPU pool gains less than the other pool loses.
LEMMA MoreRoom ==
  ASSUME mem \in Nat, NEW r \in 1 .. 29, HasRoom(r), NEW t \in 1 .. 58, 2 * r <= t
  PROVE  HasRoom(t)
  <1>1. PICK E \in Nat \ {0}, L \in Nat \ {0}, z \in Nat \ {0} : E = Experts /\ L = Layers /\ z = SmSlot
    BY PlanAssumption DEF PlanAssumption
  <1>2. PICK d \in Nat \ {0} : d = 100 * L * z /\ 100 * L * 2 * z = 2 * d
    <2>1. PICK e \in Nat \ {0} : e = L * z
      OBVIOUS
    <2>2. 100 * L * z = 100 * e
      BY <2>1
    <2>3. 100 * L * 2 * z = 2 * (100 * e)
      BY <2>1
    <2>4. 100 * e \in Nat \ {0}
      OBVIOUS
    <2> QED BY <2>2, <2>3, <2>4
  <1>3. PICK p \in Nat, q \in Nat, m \in Nat : p = r * mem /\ q = t * mem /\ m = 100 * mem
    <2>1. \A x, y \in Nat : x * y \in Nat
      OBVIOUS
    <2> QED BY <2>1
  <1>4. (100 - r) * mem = m - p /\ m - p \in Nat /\ (100 - t) * mem = m - q /\ m - q \in Nat
    <2>1. \A x \in 1 .. 99, y \in Nat : (100 - x) * y = 100 * y - x * y /\ (100 - x) * y \in Nat
      OBVIOUS
    <2>2. r \in 1 .. 99 /\ t \in 1 .. 99
      OBVIOUS
    <2> QED BY <1>3, <2>1, <2>2
  <1>5. q >= 2 * p /\ m - q >= p
    <2>1. PICK c \in Nat : t = 2 * r + c
      OBVIOUS
    <2>2. (2 * r + c) * mem = 2 * (r * mem) + c * mem /\ c * mem \in Nat
      OBVIOUS
    <2>3. PICK e \in Nat : 100 - t = r + e
      OBVIOUS
    <2>4. (r + e) * mem = r * mem + e * mem /\ e * mem \in Nat
      OBVIOUS
    <2>5. q = 2 * p + c * mem
      BY <1>3, <2>1, <2>2
    <2>6. m - q = p + e * mem
      BY <1>3, <1>4, <2>3, <2>4
    <2> QED BY <2>2, <2>4, <2>5, <2>6
  <1> DEFINE F == FullSize(r)
             M == SmSize(r)
             G == FullSize(t)
             N == SmSize(t)
  <1>6. F = p \div (2 * d) /\ M = (m - p) \div d /\ G = q \div (2 * d) /\ N = (m - q) \div d
    BY Zenon, <1>1, <1>2, <1>3, <1>4 DEF FullSize, SmSize
  <1>7. 2 * d \in Nat \ {0}
    OBVIOUS
  <1> HIDE DEF F, M, G, N
  <1>8. F \in Nat /\ (2 * d) * F <= p
    BY <1>6, <1>7, DivBound
  <1>9. M \in Nat /\ m - p < d * M + d
    BY <1>4, <1>6, DivBound
  <1>10. G \in Nat /\ (2 * d) * G <= q
    BY <1>6, <1>7, DivBound
  <1>11. N \in Nat /\ d * N <= m - q
    BY <1>4, <1>6, DivBound
  <1>12. /\ (2 * d) * F = 2 * (d * F) /\ d * F \in Nat /\ d * M \in Nat
         /\ (2 * d) * G = 2 * (d * G) /\ d * G \in Nat /\ d * N \in Nat
    BY <1>8, <1>9, <1>10, <1>11
  <1>13. G >= F
    <2>1. (2 * d) * F <= q
      BY <1>5, <1>8, <1>12
    <2> QED BY <1>6, <1>7, <1>8, <2>1, DivAtLeast
  <1>14. N >= F
    <2>1. d * F <= m - q
      BY <1>4, <1>5, <1>8, <1>12
    <2> QED BY <1>4, <1>6, <1>8, <2>1, DivAtLeast
  <1>15. F + M <= E /\ F * L >= E
    BY <1>1 DEF HasRoom, F, M
  <1>16. F >= 1
    <2>1. F = 0 => F * L = 0
      OBVIOUS
    <2> QED BY <1>8, <1>15, <2>1
  <1>17. d * F >= d
    <2>1. PICK c \in Nat : F = 1 + c
      BY <1>8, <1>16
    <2>2. d * (1 + c) = d + d * c /\ d * c \in Nat
      OBVIOUS
    <2> QED BY <2>1, <2>2
  <1>18. 2 * (d * G) + 2 * (d * N) < 2 * (d * F) + 2 * (d * M)
    <2>1. 2 * (d * G) + 2 * (d * N) <= q + 2 * (m - q)
      BY <1>4, <1>10, <1>11, <1>12
    <2>2. q + 2 * (m - q) <= 2 * (m - p)
      BY <1>3, <1>5
    <2>3. 2 * (m - p) < 2 * (d * M) + 2 * d
      BY <1>4, <1>9, <1>12
    <2> QED BY <1>4, <1>12, <1>17, <2>1, <2>2, <2>3
  <1>19. G + N < F + M
    <2>1. d * (G + N) = d * G + d * N /\ d * (F + M) = d * F + d * M
      BY <1>8, <1>9, <1>10, <1>11
    <2>2. d * (G + N) < d * (F + M)
      BY <1>12, <1>18, <2>1
    <2>3. G + N \in Nat /\ F + M \in Nat
      BY <1>8, <1>9, <1>10, <1>11
    <2> QED BY <2>2, <2>3, FactorLess
  <1>20. G * L >= E /\ N * L >= E
    <2>1. \A x \in Nat : x >= F => x * L >= F * L
      <3> SUFFICES ASSUME NEW x \in Nat, x >= F PROVE x * L >= F * L
        OBVIOUS
      <3>1. PICK c \in Nat : x = F + c
        BY <1>8
      <3>2. (F + c) * L = F * L + c * L /\ c * L \in Nat /\ F * L \in Nat
        BY <1>8
      <3> QED BY <3>1, <3>2
    <2>2. G * L \in Nat /\ N * L \in Nat /\ F * L \in Nat
      BY <1>8, <1>10, <1>11
    <2> QED BY <1>10, <1>11, <1>13, <1>14, <1>15, <2>1, <2>2
  <1>21. G + N <= E
    BY <1>8, <1>9, <1>10, <1>11, <1>15, <1>19
  <1> QED BY <1>1, <1>20, <1>21 DEF HasRoom, G, N

\* If the walk finds room at all, then it does at 30 or above.
LEMMA RoomFrom30 ==
  ASSUME mem \in Nat, NEW i \in 1 .. Steps - 1, HasRoom(Percent(i))
  PROVE  \E j \in 1 .. Steps - 1 : Percent(j) >= 30 /\ HasRoom(Percent(j))
  <1>1. PICK u \in Nat : u = 100 \div Steps /\ Steps * u = 100 /\ u >= 1
    BY PlanAssumption DEF PlanAssumption
  <1>2. Steps \in Nat
    BY PlanAssumption DEF PlanAssumption
  <1>3. PICK r \in 1 .. 99 : r = Percent(i) /\ r = i * u
    BY <1>1, PercentRange DEF Percent
  <1>4. ASSUME NEW j \in Nat, j * u >= 30, j * u >= 2 * r, j * u <= 58, r < 30
        PROVE  \E n \in 1 .. Steps - 1 : Percent(n) >= 30 /\ HasRoom(Percent(n))
    <2>1. PICK t \in 1 .. 58 : t = j * u
      BY <1>4
    <2>2. HasRoom(t)
      <3>1. r \in 1 .. 29 /\ HasRoom(r) /\ 2 * r <= t
        BY <1>3, <1>4, <2>1
      <3> QED BY <3>1, MoreRoom
    <2>3. j >= 1
      <3>1. j = 0 => j * u = 0
        OBVIOUS
      <3> QED BY <1>4, <3>1
    <2>4. j <= Steps - 1
      <3> SUFFICES ASSUME j >= Steps PROVE FALSE
        BY <1>2
      <3>1. PICK c \in Nat : j = Steps + c
        BY <1>2
      <3>2. (Steps + c) * u = Steps * u + c * u /\ c * u \in Nat
        BY <1>2
      <3> QED BY <1>1, <1>4, <3>1, <3>2
    <2>5. Percent(j) = t
      BY <1>1, <2>1 DEF Percent
    <2> QED BY <1>2, <1>4, <2>1, <2>2, <2>3, <2>4, <2>5
  <1>5. CASE r >= 30
    BY <1>3, <1>5
  <1>6. CASE r < 30 /\ 2 * r >= 30
    <2>1. PICK j \in Nat : j = 2 * i
      OBVIOUS
    <2>2. j * u = 2 * r
      <3>1. (2 * i) * u = 2 * (i * u)
        OBVIOUS
      <3> QED BY <1>3, <2>1, <3>1
    <2> QED BY <1>4, <1>6, <2>2
  <1>7. CASE r < 15
    <2>1. u <= r
      <3>1. PICK c \in Nat : i = 1 + c
        BY <1>2
      <3>2. (1 + c) * u = u + c * u /\ c * u \in Nat
        OBVIOUS
      <3> QED BY <1>3, <3>1, <3>2
    <2>2. u \in 1 .. 14
      BY <1>1, <1>7, <2>1
    <2>3. PICK j \in Nat : j = (30 + u - 1) \div u
      BY <2>2
    <2>4. u * j <= 30 + u - 1 /\ 30 + u - 1 < u * j + u
      <3>1. 30 + u - 1 \in Nat /\ u \in Nat \ {0}
        BY <2>2
      <3> QED BY <2>3, <3>1, DivBound
    <2>5. u * j = j * u /\ j * u \in Nat
      OBVIOUS
    <2>6. j * u >= 30 /\ j * u <= 58
      BY <2>2, <2>4, <2>5
    <2> QED BY <1>4, <1>7, <2>6
  <1> QED BY <1>5, <1>6, <1>7

\* Of numbered costs, there is a first one of the smallest.
LEMMA LeastOf ==
  ASSUME NEW n \in Nat, n >= 1, NEW g, \A i \in 1 .. n : g[i] \in Nat
  PROVE  \E j \in 1 .. n : /\ \A i \in 1 .. n : g[j] <= g[i]
                           /\ \A i \in 1 .. j - 1 : g[j] < g[i]
  <1> DEFINE V == {g[i] : i \in 1 .. n}
             v == Min(V)
             J == {i \in 1 .. n : g[i] = v}
             j == Min(J)
  <1>1. V \in SUBSET Nat /\ V # {}
    <2>1. g[1] \in V
      OBVIOUS
    <2> QED BY <2>1
  <1>2. v \in V /\ \A x \in V : v <= x
    BY <1>1, FirstOf
  <1> HIDE DEF v
  <1>3. J \in SUBSET Nat /\ J # {}
    BY <1>2
  <1>4. j \in J /\ \A x \in J : j <= x
    BY <1>3, FirstOf
  <1> HIDE DEF j
  <1>5. j \in 1 .. n /\ g[j] = v
    BY <1>4
  <1>6. \A i \in 1 .. n : v <= g[i] /\ g[i] \in Nat
    BY <1>2
  <1>7. ASSUME NEW i \in 1 .. j - 1 PROVE v < g[i]
    <2>1. i \in 1 .. n /\ ~(j <= i)
      BY <1>5
    <2>2. g[i] # v
      BY <1>4, <2>1
    <2> QED BY <1>5, <1>6, <2>1, <2>2
  <1> QED BY <1>5, <1>6, <1>7

\* What a listed share costs.
LEMMA DelayNatural ==
  ASSUME Weighing, mem \in Nat, NEW r \in 1 .. 99, HasRoom(r)
  PROVE  AvgDelay(r) \in Nat
  <1> DEFINE f == [s \in Splits(r) |-> SplitWeight(r)[s] * DelaySimu(s[1], s[2])]
  <1>1. PICK k \in Nat : k = avgk
    BY AvgKnown
  <1>2. IsFiniteSet(Splits(r)) /\ Naturals(SplitWeight(r), Splits(r))
        /\ \A s \in Splits(r) : s[1] \in Nat /\ s[2] \in Nat /\ s[1] + s[2] <= k
    BY <1>1, WholeWeight DEF SplitsFit
  <1>3. ASSUME NEW a \in Nat, NEW b \in Nat, a + b <= k PROVE DelaySimu(a, b) \in Nat
    <2>1. \A x, y \in Nat : x * y \in Nat /\ x + y \in Nat
      OBVIOUS
    <2>2. k - a \in Nat /\ k - a - b \in Nat
      BY <1>3
    <2>3. /\ Chunks \in Nat /\ TensorsPerExpert \in Nat /\ ComputePool \in Nat
          /\ DecompDelay \in Nat /\ ExpDelay \in Nat /\ SmDelay \in Nat
      BY CostAssumption DEF CostAssumption
    <2>4. Chunks * TensorsPerExpert * (k - a) * (DecompDelay + ExpDelay) \in Nat
      BY Zenon, <2>1, <2>2, <2>3
    <2>5. ComputePool * TensorsPerExpert * (SmDelay * (k - a - b) + b * Chunks * ExpDelay) \in Nat
      BY Zenon, <2>1, <2>2, <2>3
    <2> QED BY Zenon, <1>1, <2>4, <2>5 DEF DelaySimu, Larger
  <1>4. Naturals(f, Splits(r))
    <2> SUFFICES ASSUME NEW s \in Splits(r) PROVE f[s] \in Nat
      BY DEF Naturals
    <2>1. f[s] = SplitWeight(r)[s] * DelaySimu(s[1], s[2])
      OBVIOUS
    <2>2. SplitWeight(r)[s] \in Nat /\ DelaySimu(s[1], s[2]) \in Nat
      BY <1>2, <1>3 DEF Naturals
    <2>3. \A x, y \in Nat : x * y \in Nat
      OBVIOUS
    <2> HIDE DEF f
    <2> QED BY <2>1, <2>2, <2>3
  <1>5. AvgDelay(r) = Total(f, Splits(r))
    BY DEF AvgDelay
  <1> HIDE DEF f
  <1> QED BY <1>2, <1>4, <1>5, TotalStep

\* A listed share is the cheapest.
LEMMA CheapestListed ==
  ASSUME costs \in Seq(Nat), listed \in Seq(Roomy), Len(costs) = Len(listed), Len(listed) >= 1
  PROVE  Cheapest \in Range(listed)
  <1>1. PICK n \in Nat : n = Len(listed) /\ n >= 1 /\ DOMAIN listed = 1 .. n /\ DOMAIN costs = 1 .. n
    OBVIOUS
  <1>2. \A i \in 1 .. n : costs[i] \in Nat
    BY <1>1
  <1>3. ASSUME NEW j \in 1 .. n PROVE Smoothed(j) \in Nat
    <2> DEFINE W == {i \in DOMAIN costs : i \in j - 2 .. j + 2}
    <2>1. IsFiniteSet(W) /\ Naturals(costs, W) /\ W # {}
      <3>1. IsFiniteSet(1 .. n) /\ W \in SUBSET (1 .. n)
        BY <1>1, FS_Interval
      <3>2. j \in W
        BY <1>1
      <3> QED BY <1>2, <3>1, <3>2, FS_Subset DEF Naturals
    <2>2. PICK m \in Nat \ {0} : m = Cardinality(W)
      BY <2>1, FS_CardinalityType, FS_EmptySet
    <2>3. PICK t \in Nat : t = Total(costs, W)
      BY <2>1, TotalStep
    <2>4. PICK q \in Nat : q = 60 \div m
      OBVIOUS
    <2>5. Smoothed(j) = t * q
      BY <2>2, <2>3, <2>4 DEF Smoothed
    <2> QED BY <2>5
  <1> DEFINE g == [i \in 1 .. n |-> Smoothed(i)]
             Best(j) == /\ \A i \in 1 .. n : Smoothed(j) <= Smoothed(i)
                        /\ \A i \in 1 .. j - 1 : Smoothed(j) < Smoothed(i)
  <1>4. \E j \in 1 .. n : Best(j)
    <2>1. \A i \in 1 .. n : g[i] = Smoothed(i) /\ g[i] \in Nat
      BY <1>3
    <2> HIDE DEF g
    <2>2. PICK j \in 1 .. n : /\ \A i \in 1 .. n : g[j] <= g[i]
                              /\ \A i \in 1 .. j - 1 : g[j] < g[i]
      BY <1>1, <2>1, LeastOf
    <2>3. 1 .. j - 1 \subseteq 1 .. n
      OBVIOUS
    <2> QED BY <2>1, <2>2, <2>3
  <1>5. Cheapest = listed[CHOOSE j \in 1 .. n : Best(j)]
    BY <1>1 DEF Cheapest
  <1> HIDE DEF Best
  <1>6. (CHOOSE j \in 1 .. n : Best(j)) \in 1 .. n
    BY <1>4
  <1> QED BY <1>1, <1>5, <1>6 DEF Range

\* The first n shares: those with room are listed with what they cost, and a plan is
\* feasible only if there is one.
Walked(n) ==
  /\ \A i \in 1 .. n : Percent(i) \in Roomy => Percent(i) \in Range(listed)
  /\ feasible => \E i \in 1 .. n : Percent(i) \in Roomy
  /\ costs \in Seq(Nat) /\ Len(costs) = Len(listed)

\* How far the walk is, and what comes of it.
WalkInv ==
  /\ PlanInv /\ Weighing
  /\ at \in {"search", "choose", "build", "built"}
  /\ at = "search" => step <= Steps /\ Walked(step - 1)
  /\ at = "choose" => Walked(Steps - 1)
  /\ at \in {"build", "built"} /\ algorithm = "ZipMoE" => ratio \in Range(listed)

LEMMA InitWalkInv == PlanInit => WalkInv
  <1> SUFFICES ASSUME PlanInit PROVE WalkInv
    OBVIOUS
  <1>1. PlanInv
    BY InitPlanInv
  <1>2. Weighing
    BY WeightAssumption DEF PlanInit, Weighing, Indices
  <1>3. step = 1 /\ feasible = FALSE /\ costs = <<>> /\ listed = <<>>
        /\ at = IF algorithm = "ZipMoE" THEN "search" ELSE "build"
    BY DEF PlanInit
  <1>4. step <= Steps
    BY <1>3, PlanAssumption DEF PlanAssumption
  <1>5. Walked(step - 1)
    BY <1>3 DEF Walked
  <1> QED BY <1>1, <1>2, <1>3, <1>4, <1>5 DEF WalkInv

\* One more share has been tried.
LEMMA StepWalked ==
  ASSUME WalkInv, TryShare \/ PassShare, Roomy' = Roomy
  PROVE  Walked(step - 1)'
  <1>1. step \in Nat /\ step >= 1 /\ step < Steps /\ Steps \in Nat /\ step' = step + 1
        /\ at = "search" /\ listed \in Seq(Roomy) /\ mem \in Nat /\ Weighing /\ Walked(step - 1)
    BY PlanAssumption DEF TryShare, PassShare, WalkInv, PlanInv, PlanAssumption
  <1>2. PICK r \in 1 .. 99 : r = Percent(step)
    <2>1. step \in 1 .. Steps - 1
      BY <1>1
    <2> QED BY <2>1, PercentRange
  <1>3. r \in Roomy <=> HasRoom(Percent(step))
    BY <1>2 DEF Roomy
  <1>4. \A i \in 1 .. step : i \in 1 .. step - 1 \/ i = step
    BY <1>1
  <1>5. step' - 1 = step
    BY <1>1
  <1>6. CASE TryShare
    <2>1. HasRoom(r) /\ feasible' = TRUE /\ TotalWeight(r) > 0
      <3>1. HasRoom(r) /\ feasible' = TRUE
        BY <1>2, <1>6 DEF TryShare
      <3> QED BY <1>1, <3>1, WholeWeight, AvgKnown, CallsPossible
    <2>2. listed' = Append(listed, r) /\ costs' = Append(costs, AvgDelay(r))
      BY <1>2, <1>6, <2>1 DEF TryShare
    <2>3. AvgDelay(r) \in Nat
      BY <1>1, <2>1, DelayNatural
    <2>4. costs' \in Seq(Nat) /\ Len(costs') = Len(listed')
      BY <1>1, <2>2, <2>3 DEF Walked
    <2>5. \A x : x \in Range(listed) \/ x = r => x \in Range(listed')
      BY <1>1, <2>2 DEF Range
    <2>6. \A i \in 1 .. step : Percent(i) \in Roomy => Percent(i) \in Range(listed')
      BY <1>1, <1>2, <1>4, <2>5 DEF Walked
    <2>7. step \in 1 .. step /\ Percent(step) \in Roomy
      BY <1>1, <1>2, <1>3, <2>1
    <2> QED BY <1>5, <2>4, <2>6, <2>7 DEF Walked, Percent
  <1>7. CASE PassShare
    <2>1. UNCHANGED <<listed, costs, feasible>> /\ Percent(step) \notin Roomy
      BY <1>2, <1>3, <1>7 DEF PassShare
    <2>2. \A i \in 1 .. step : Percent(i) \in Roomy => Percent(i) \in Range(listed)
      BY <1>1, <1>4, <2>1 DEF Walked
    <2>3. feasible => \E i \in 1 .. step : Percent(i) \in Roomy
      BY <1>1 DEF Walked
    <2>4. costs \in Seq(Nat) /\ Len(costs) = Len(listed)
      BY <1>1 DEF Walked
    <2> QED BY <1>5, <2>1, <2>2, <2>3, <2>4 DEF Walked, Percent
  <1> QED BY <1>6, <1>7

\* A plan of the walk takes a listed share.
LEMMA ListedTaken ==
  ASSUME WalkInv, at = "choose", feasible
  PROVE  /\ ~(\A j \in DOMAIN listed : listed[j] < 30)
         /\ Cheapest \in Range(listed)
  <1>1. Walked(Steps - 1) /\ listed \in Seq(Roomy) /\ mem \in Nat
    BY DEF WalkInv, PlanInv
  <1>2. PICK i \in 1 .. Steps - 1 : HasRoom(Percent(i))
    BY <1>1 DEF Walked, Roomy
  <1>3. PICK j \in 1 .. Steps - 1 : Percent(j) >= 30 /\ HasRoom(Percent(j))
    BY <1>1, <1>2, RoomFrom30
  <1>4. PICK r \in 1 .. 99 : r = Percent(j)
    BY PercentRange
  <1>5. r \in Range(listed)
    BY <1>1, <1>3, <1>4 DEF Walked, Roomy
  <1>6. PICK n \in DOMAIN listed : listed[n] = r
    BY <1>5 DEF Range
  <1>7. ~(listed[n] < 30)
    BY <1>3, <1>4, <1>6
  <1>8. Len(listed) >= 1
    BY <1>1, <1>6
  <1>9. Cheapest \in Range(listed)
    BY <1>1, <1>8, CheapestListed DEF Walked
  <1> QED BY <1>7, <1>9

LEMMA StepWalkInv == WalkInv /\ [PlanNext]_planVars => WalkInv'
  <1> SUFFICES ASSUME WalkInv, [PlanNext]_planVars PROVE WalkInv'
    OBVIOUS
  <1>1. PlanInv'
    BY StepPlanInv DEF WalkInv
  <1>2. UNCHANGED <<mem, weights>>
    BY DEF PlanNext, planVars, inputs, TryShare, PassShare, EndWalk, Choose, Build
  <1>3. Roomy' = Roomy
    BY <1>2 DEF Roomy, HasRoom, FullSize, SmSize
  <1>4. Weighing'
    BY <1>2 DEF WalkInv, Weighing
  <1>5. CASE TryShare \/ PassShare
    <2>1. Walked(step - 1)'
      BY <1>3, <1>5, StepWalked
    <2>2. at' = "search" /\ step' <= Steps
      BY <1>5, PlanAssumption DEF TryShare, PassShare, WalkInv, PlanInv, PlanAssumption
    <2> QED BY <1>1, <1>4, <2>1, <2>2 DEF WalkInv
  <1>6. CASE EndWalk
    <2>1. at' = "choose" /\ UNCHANGED <<listed, costs, feasible>> /\ Walked(Steps - 1)
      BY <1>6 DEF EndWalk, WalkInv
    <2>2. Walked(Steps - 1)'
      BY <1>3, <2>1 DEF Walked, Percent
    <2> QED BY <1>1, <1>4, <2>1, <2>2 DEF WalkInv
  <1>7. CASE Choose
    <2>1. at = "choose" /\ at' = "build" /\ UNCHANGED listed
      BY <1>7 DEF Choose
    <2>2. ASSUME algorithm' = "ZipMoE" PROVE ratio' \in Range(listed)
      <3>1. feasible
        BY <1>7, <2>2 DEF Choose
      <3>2. ~(\A j \in DOMAIN listed : listed[j] < 30) /\ Cheapest \in Range(listed)
        BY <2>1, <3>1, ListedTaken
      <3> QED BY <1>7, <3>1, <3>2 DEF Choose
    <2> QED BY <1>1, <1>4, <2>1, <2>2 DEF WalkInv
  <1>8. CASE Build
    <2>1. at = "build" /\ at' = "built" /\ UNCHANGED <<algorithm, ratio, listed>>
      BY <1>8 DEF Build
    <2> QED BY <1>1, <1>4, <2>1 DEF WalkInv
  <1>9. CASE UNCHANGED planVars
    <2>1. UNCHANGED <<at, step, algorithm, ratio, listed, costs, feasible>>
      BY <1>9 DEF planVars
    <2>2. Walked(step - 1) => Walked(step - 1)'
      BY <1>3, <2>1 DEF Walked, Percent
    <2>3. Walked(Steps - 1) => Walked(Steps - 1)'
      BY <1>3, <2>1 DEF Walked, Percent
    <2> QED BY <1>1, <1>4, <2>1, <2>2, <2>3 DEF WalkInv
  <1> QED BY <1>5, <1>6, <1>7, <1>8, <1>9 DEF PlanNext

LEMMA WalkInvAlways == StartSpec => []WalkInv
  <1>1. StartInit => WalkInv
    BY InitWalkInv DEF StartInit
  <1>2. WalkInv /\ [StartNext]_<<planVars, vars>> => WalkInv'
    BY StepWalkInv DEF StartNext
  <1> QED BY <1>1, <1>2, PTL DEF StartSpec

\* A plan of the walk is always one of the shares it has tried for room.
THEOREM TriedShareTaken == StartSpec => []FallbackUnused
  <1>1. WalkInv => FallbackUnused
    BY DEF WalkInv, FallbackUnused
  <1> QED BY <1>1, WalkInvAlways, PTL

\* Put together, the hits of the three parts have the weight of all the calls, wherever
\* the experts are cut; so have those in front of and behind an expert, without it.
THEOREM HitsAlwaysAddUp == StartSpec => []HitsAddUp
  <1>1. WalkInv => HitsAddUp
    <2> SUFFICES ASSUME WalkInv PROVE HitsAddUp
      OBVIOUS
    <2>1. Weighing /\ mem \in Nat /\ listed \in Seq(Roomy)
      BY DEF WalkInv, PlanInv
    <2>2. PICK k \in Nat : k = avgk
      BY <2>1, AvgKnown
    <2>3. ASSUME NEW S \in SUBSET Indices, NEW n
          PROVE  Total([A \in kSubset(n, S) |-> CallsOf(A)], kSubset(n, S)) = Sym(S, n)
      <3>1. PICK X : X = kSubset(n, S)
        OBVIOUS
      <3>2. X \subseteq SUBSET Indices
        BY <3>1 DEF kSubset
      <3> DEFINE f == [A \in X |-> CallsOf(A)]
      <3>3. \A A \in X : f[A] = Product[A]
        BY <3>2 DEF Product
      <3>4. IsFiniteSet(X) /\ Naturals(Product, X)
        BY <2>1, <3>1, SymTyped
      <3> HIDE DEF f
      <3>5. Total(f, X) = Total(Product, X)
        BY <3>3, <3>4, TotalSame
      <3> QED BY <3>1, <3>5 DEF Sym, f
    <2>4. ASSUME listed # <<>>
          PROVE  TotalWeight(Last(listed)) = Total([A \in kSubset(avgk, 1 .. Experts) |-> CallsOf(A)],
                                                   kSubset(avgk, 1 .. Experts))
      <3>1. Len(listed) \in 1 .. Len(listed)
        BY <2>1, <2>4
      <3>2. PICK r \in Roomy : r = Last(listed)
        BY <2>1, <3>1 DEF Last
      <3>3. r \in 1 .. 99 /\ HasRoom(r)
        BY DEF Roomy
      <3>4. TotalWeight(r) = Sym(Indices, avgk)
        BY <2>1, <2>2, <3>3, WholeWeight
      <3>5. Total([A \in kSubset(avgk, Indices) |-> CallsOf(A)], kSubset(avgk, Indices))
              = Sym(Indices, avgk)
        BY <2>3
      <3> QED BY <3>2, <3>4, <3>5 DEF Indices
    <2>5. ASSUME avgk > 0, NEW i \in 1 .. Experts
          PROVE  LET others == kSubset(avgk - 1, (1 .. Experts) \ {i})
                 IN  Without(weights, i, avgk - 1) = Total([A \in others |-> CallsOf(A)], others)
      <3>1. avgk - 1 \in Nat /\ i \in Indices /\ Indices \ {i} \in SUBSET Indices
        BY <2>2, <2>5 DEF Indices
      <3>2. Without(weights, i, avgk - 1) = Sym(Indices \ {i}, avgk - 1)
        BY <2>1, <3>1, WeightWithout
      <3>3. Total([A \in kSubset(avgk - 1, Indices \ {i}) |-> CallsOf(A)],
                  kSubset(avgk - 1, Indices \ {i})) = Sym(Indices \ {i}, avgk - 1)
        BY <2>3, <3>1
      <3> QED BY <3>2, <3>3 DEF Indices
    <2> QED BY <2>4, <2>5 DEF HitsAddUp
  <1> QED BY <1>1, WalkInvAlways, PTL
=============================================================================
