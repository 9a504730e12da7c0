------------------------- MODULE SparseBlockProofs -------------------------
(***************************************************************************)
(* PendingBarrier keeps the promise of ExpertService for every set of      *)
(* experts, although its notifications may be lost; and SparseBlock, which *)
(* takes its steps, adds to each token what the gate gave it, for any      *)
(* number of tokens.                                                       *)
(***************************************************************************)
EXTENDS SparseBlock, FiniteSetTheorems, SequenceTheorems, TLAPS

-----------------------------------------------------------------------------
(* The inductive invariant: PendingBehindOutputs says nothing between the  *)
(* calls, where the output thread may still be busy with its notification, *)
(* and does not say what the waiter has already seen.                      *)

Counts == IF out = "pushed" THEN 1 ELSE 0

BarrierInv ==
  /\ wait \in {"idle", "check", "block", "asleep", "swap"}
  /\ out \in {"idle", "pushed", "counted", "notify"}
  /\ wanted \subseteq Experts /\ outputs \subseteq wanted
  /\ left = wanted \ outputs
  /\ pending = Cardinality(left) + Counts
  /\ wait = "idle" => wanted = {} /\ out # "pushed"
  /\ wait = "swap" => pending = 0

\* All the sets of experts are finite.
LEMMA FiniteExperts ==
  ASSUME NEW A \in SUBSET Experts
  PROVE  IsFiniteSet(A) /\ Cardinality(A) \in Nat
  BY BarrierAssumption, FS_Subset, FS_CardinalityType DEF BarrierAssumption

\* At the start nothing is expected.
LEMMA InitBarrierInv == Init => BarrierInv
  BY FS_EmptySet DEF Init, BarrierInv, Counts

\* Every step of the two threads keeps the count.
LEMMA StepBarrierInv == BarrierInv /\ [Next]_vars => BarrierInv'
  <1> SUFFICES ASSUME BarrierInv, [Next]_vars PROVE BarrierInv'
    OBVIOUS
  <1>1. ASSUME NEW A \in (SUBSET Experts) \ {{}}, SetExpectedQueue(A) PROVE BarrierInv'
    <2>1. Cardinality(A) \in Nat
      BY FiniteExperts
    <2> QED BY <1>1, <2>1, FS_EmptySet DEF SetExpectedQueue, BarrierInv, Counts
  <1>2. CASE WaitCheck
    BY <1>2 DEF WaitCheck, BarrierInv, Counts
  <1>3. CASE WaitBlock
    BY <1>3 DEF WaitBlock, BarrierInv, Counts
  <1>4. CASE SpuriousWakeup
    BY <1>4 DEF SpuriousWakeup, BarrierInv, Counts
  <1>5. CASE WaitReturn
    <2>1. Cardinality(left) \in Nat /\ IsFiniteSet(left)
      BY FiniteExperts DEF BarrierInv
    <2>2. out # "pushed" /\ Cardinality(left) = 0
      BY <1>5, <2>1 DEF WaitReturn, BarrierInv, Counts
    <2>3. left = {}
      BY <2>1, <2>2, FS_EmptySet
    <2> QED BY <1>5, <2>2, <2>3 DEF WaitReturn, BarrierInv, Counts
  <1>6. ASSUME NEW e \in Experts, OutputPush(e) PROVE BarrierInv'
    <2>1. IsFiniteSet(left) /\ e \in left /\ left' = left \ {e}
      BY <1>6, FiniteExperts DEF OutputPush, BarrierInv
    <2>2. Cardinality(left') = Cardinality(left) - 1 /\ Cardinality(left) \in Nat
      BY <2>1, FS_RemoveElement, FS_CardinalityType
    <2> QED BY <1>6, <2>1, <2>2 DEF OutputPush, BarrierInv, Counts
  <1>7. CASE OutputCount
    <2>1. Cardinality(left) \in Nat
      BY FiniteExperts DEF BarrierInv
    <2> QED BY <1>7, <2>1 DEF OutputCount, BarrierInv, Counts
  <1>8. CASE OutputLoad
    BY <1>8 DEF OutputLoad, BarrierInv, Counts
  <1>9. CASE OutputNotify
    BY <1>9 DEF OutputNotify, BarrierInv, Counts
  <1>10. CASE UNCHANGED vars
    BY <1>10 DEF vars, BarrierInv, Counts
  <1> QED
    BY <1>1, <1>2, <1>3, <1>4, <1>5, <1>6, <1>7, <1>8, <1>9, <1>10
       DEF Next, Waiter, Output

\* The counter of results to come is right in every state of a call, whatever
\* the output thread still has to do for an earlier one.
THEOREM CounterCorrect == Spec => []PendingBehindOutputs
  <1>1. BarrierInv => PendingBehindOutputs
    BY DEF BarrierInv, PendingBehindOutputs, Counts
  <1> QED BY <1>1, InitBarrierInv, StepBarrierInv, PTL DEF Spec

-----------------------------------------------------------------------------
(* Refinement of ExpertService.                                            *)

\* The instance of ExpertService counts with the same Cardinality.
LEMMA SameCardinality == \A S : Service!Cardinality(S) = Cardinality(S)
  BY DEF Service!Cardinality, Cardinality

\* Every step of the handshake is a step of the service or invisible.
LEMMA StepServes == BarrierInv /\ [Next]_vars => [Service!ServiceNext]_(Service!serviceVars)
  <1> SUFFICES ASSUME BarrierInv, [Next]_vars
               PROVE  Service!ServiceNext \/ UNCHANGED Service!serviceVars
    OBVIOUS
  <1>0. IsFiniteSet(wanted) /\ Cardinality(wanted) \in Nat /\ Cardinality(outputs) \in Nat
        /\ Cardinality(left) \in Nat /\ IsFiniteSet(left)
    BY FiniteExperts DEF BarrierInv
  <1>1. ASSUME NEW A \in (SUBSET Experts) \ {{}}, SetExpectedQueue(A) PROVE Service!ServiceNext
    <2>1. Service!Request(A)
      <3>1. wait = "idle" /\ wait' = "check" /\ outputs = {} /\ outputs' = {}
        BY <1>1 DEF SetExpectedQueue, BarrierInv
      <3>2. wanted' = A /\ pending' = Cardinality(A)
        BY <1>1 DEF SetExpectedQueue
      <3> QED BY <3>1, <3>2, SameCardinality DEF Service!Request
    <2> QED BY <2>1 DEF Service!ServiceNext
  <1>2. CASE WaitReturn
    <2>1. left = {} /\ pending = 0
      <3>1. pending = 0 /\ pending = Cardinality(left) + Counts /\ Counts \in {0, 1}
        BY <1>2 DEF WaitReturn, BarrierInv, Counts
      <3>2. Cardinality(left) = 0
        BY <1>0, <3>1
      <3> QED BY <1>0, <3>1, <3>2, FS_EmptySet
    <2>2. Service!Collect
      BY <1>2, <2>1 DEF WaitReturn, BarrierInv, Service!Collect
    <2> QED BY <2>2 DEF Service!ServiceNext
  <1>3. ASSUME NEW e \in Experts, OutputPush(e) PROVE Service!ServiceNext
    <2>1. Service!Serve(e)
      BY <1>3 DEF OutputPush, BarrierInv, Service!Serve
    <2> QED BY <2>1 DEF Service!ServiceNext
  <1>4. CASE OutputCount
    <2>1. Cardinality(left) = Cardinality(wanted) - Cardinality(outputs)
      <3>1. left = wanted \ outputs /\ wanted \cap outputs = outputs
        BY DEF BarrierInv
      <3>2. Cardinality(wanted \ outputs) = Cardinality(wanted) - Cardinality(wanted \cap outputs)
        BY <1>0, FS_Difference
      <3> QED BY <3>1, <3>2
    <2>2. wait # "idle" /\ pending = Cardinality(left) + 1
      BY <1>4 DEF OutputCount, BarrierInv, Counts
    <2>3. Cardinality(wanted) - Cardinality(outputs) < pending
      BY <1>0, <2>1, <2>2
    <2>4. Service!Acknowledge
      <3>1. pending' = pending - 1 /\ UNCHANGED <<wait, wanted, outputs>>
        BY <1>4 DEF OutputCount
      <3> QED BY <2>2, <2>3, <3>1, SameCardinality DEF Service!Acknowledge
    <2> QED BY <2>4 DEF Service!ServiceNext
  <1>5. CASE WaitCheck \/ WaitBlock \/ SpuriousWakeup \/ OutputLoad \/ OutputNotify
             \/ UNCHANGED vars
    BY <1>5 DEF WaitCheck, WaitBlock, SpuriousWakeup, OutputLoad, OutputNotify, vars,
                Service!serviceVars
  <1> QED
    BY <1>1, <1>2, <1>3, <1>4, <1>5 DEF Next, Waiter, Output

\* Wait returns exactly one output of every requested expert, for any number
\* of experts and however the two threads interleave.
THEOREM BarrierServes == Spec => WaitReturnsAll
  <1>1. Init => Service!ServiceInit
    BY DEF Init, Service!ServiceInit
  <1> QED
    BY <1>1, InitBarrierInv, StepBarrierInv, StepServes, PTL
       DEF Spec, WaitReturnsAll, Service!ServiceSpec

-----------------------------------------------------------------------------
(* The inductive invariant of the block.                                   *)

Rows    == [call : {0, 1}, token : Tokens]
Results == [expert : Experts, rows : Seq(Rows)]

\* The experts of a list of results, each with one, computed on the rows it had.
ExpertsIn(s) == {s[i].expert : i \in DOMAIN s}
OneEach(s)   == \A i, j \in DOMAIN s : s[i].expert = s[j].expert => i = j
Computed(s)  == \A i \in DOMAIN s : s[i].rows = RowsOf(inputs, s[i].expert)

\* What the outputs of a set of experts add to a token.
Added(t, A) == SetToBag({[expert |-> e, row |-> Row(call, t)] : e \in A})

\* The handshake is on while the block waits.
BlockPhases ==
  /\ block \in {"gate", "dispatch", "wait", "combine"} /\ call \in {0, 1}
  /\ mask \in [Tokens -> SUBSET Experts]
  /\ block = "dispatch" => mask \in Masks
  /\ block = "wait" <=> wait # "idle"
  /\ block = "wait" => wanted = Activated(mask)

\* The dispatcher works on the hidden states and the mask of this call, and an
\* expert that is not through with its rows is missing yet.
InputsInStep ==
  /\ block \in {"wait", "combine"} => inputs = [call |-> call, mask |-> mask]
  /\ DOMAIN input = Experts
  /\ \A e \in Experts : input[e] # <<>> => e \in left /\ input[e] = RowsOf(inputs, e)

QueueInStep ==
  /\ queue \in Seq(Results) /\ ExpertsIn(queue) = outputs
  /\ OneEach(queue) /\ Computed(queue)

\* A token has what it is to get, but for the results that are left.
CombineInStep ==
  /\ block \in {"dispatch", "wait"} => \A t \in Tokens : combined[t] = EmptyBag
  /\ block = "combine" =>
       /\ results \in Seq(Results) /\ OneEach(results) /\ Computed(results)
       /\ \A t \in Tokens : combined[t] = Added(t, mask[t] \ ExpertsIn(results))

BlockInv == BarrierInv /\ BlockPhases /\ InputsInStep /\ QueueInStep /\ CombineInStep

-----------------------------------------------------------------------------
(* Tokens in order.                                                        *)

\* Of a finite set of naturals every place below its size is taken by one of them.
LEMMA Places ==
  ASSUME NEW S \in SUBSET Nat, IsFiniteSet(S), NEW i \in 1 .. Cardinality(S)
  PROVE  \E t \in S : Cardinality({u \in S : u < t}) = i - 1
  <1> DEFINE n == Cardinality(S)
             Under(t) == {u \in S : u < t}
             rank == [t \in S |-> Cardinality(Under(t))]
  <1>0. n \in Nat
    BY FS_CardinalityType
  <1>1. ASSUME NEW t \in S
        PROVE  IsFiniteSet(Under(t)) /\ Cardinality(Under(t)) \in 0 .. n - 1
    <2>1. IsFiniteSet(S \ {t}) /\ Cardinality(S \ {t}) = n - 1
      BY FS_RemoveElement
    <2>2. Under(t) \in SUBSET (S \ {t})
      OBVIOUS
    <2> HIDE DEF Under, n
    <2>3. IsFiniteSet(Under(t)) /\ Cardinality(Under(t)) <= n - 1
      BY <2>1, <2>2, FS_Subset
    <2>4. Cardinality(Under(t)) \in Nat
      BY <2>3, FS_CardinalityType
    <2> QED BY <1>0, <2>3, <2>4
  <1>2. ASSUME NEW t \in S, NEW v \in S, t < v
        PROVE  Cardinality(Under(t)) < Cardinality(Under(v))
    <2>1. t \in Under(v) /\ Under(t) \in SUBSET (Under(v) \ {t})
      <3>1. t \in Nat /\ v \in Nat /\ \A u \in S : u \in Nat
        OBVIOUS
      <3>2. \A u \in S : u < t => u < v /\ u # t
        BY <1>2, <3>1
      <3> QED BY <1>2, <3>2
    <2> HIDE DEF Under, n
    <2>2. IsFiniteSet(Under(v) \ {t}) /\ Cardinality(Under(v) \ {t}) = Cardinality(Under(v)) - 1
      BY <1>1, <2>1, FS_RemoveElement
    <2>3. Cardinality(Under(t)) <= Cardinality(Under(v)) - 1
      BY <2>1, <2>2, FS_Subset
    <2> QED BY <1>0, <1>1, <2>3
  <1> HIDE DEF Under
  <1>3. rank \in Injection(S, 0 .. n - 1)
    <2>1. rank \in [S -> 0 .. n - 1]
      BY <1>1
    <2>2. ASSUME NEW t \in S, NEW v \in S, rank[t] = rank[v] PROVE t = v
      <3>1. ~(t < v) /\ ~(v < t)
        BY <1>1, <1>2, <2>2
      <3> QED BY <3>1
    <2> HIDE DEF rank
    <2> QED BY <2>1, <2>2 DEF Injection, IsInjective
  <1> HIDE DEF rank
  <1> HIDE DEF n
  <1>4. IsFiniteSet(0 .. n - 1) /\ Cardinality(0 .. n - 1) = n
    BY <1>0, FS_Interval
  <1>5. rank \in Surjection(S, 0 .. n - 1)
    <2>1. Cardinality(S) = Cardinality(0 .. n - 1)
      BY <1>4 DEF n
    <2> QED BY <1>3, <1>4, <2>1, FS_Injection
  <1>6. i - 1 \in 0 .. n - 1
    BY <1>0 DEF n
  <1>7. PICK t \in S : rank[t] = i - 1
    BY <1>5, <1>6 DEF Surjection
  <1> QED BY <1>7 DEF rank, Under

\* The tokens of an expert are those the mask gives it.
LEMMA TokensOfExpert ==
  ASSUME NEW m, NEW e
  PROVE  /\ TokensOf(m, e) \in Seq(Tokens)
         /\ {TokensOf(m, e)[i] : i \in DOMAIN TokensOf(m, e)} = {t \in Tokens : e \in m[t]}
  <1> DEFINE S == {t \in Tokens : e \in m[t]}
             Under(t) == {u \in S : u < t}
             n == Cardinality(S)
  <1>1. S \in SUBSET Nat /\ IsFiniteSet(S) /\ n \in Nat
    <2>1. IsFiniteSet(Tokens) /\ S \in SUBSET Tokens /\ Tokens \subseteq Nat
      BY BlockAssumption, FS_Interval DEF Tokens
    <2> QED BY <2>1, FS_Subset, FS_CardinalityType
  <1>2. TokensOf(m, e) = [i \in 1 .. n |-> CHOOSE t \in S : Cardinality(Under(t)) = i - 1]
    BY DEF TokensOf
  <1>3. S \subseteq Tokens
    OBVIOUS
  <1>4. ASSUME NEW t \in S, NEW v \in S, t < v
        PROVE  Cardinality(Under(t)) # Cardinality(Under(v))
    <2>1. t \in Under(v) /\ Under(t) \in SUBSET (Under(v) \ {t}) /\ Under(v) \in SUBSET S
      BY <1>1, <1>4
    <2> HIDE DEF Under, S, n
    <2>2. IsFiniteSet(Under(v))
      BY <1>1, <2>1, FS_Subset
    <2>3. /\ IsFiniteSet(Under(v) \ {t}) /\ Cardinality(Under(v)) \in Nat
          /\ Cardinality(Under(v) \ {t}) = Cardinality(Under(v)) - 1
      BY <2>1, <2>2, FS_RemoveElement, FS_CardinalityType
    <2>4. Cardinality(Under(t)) <= Cardinality(Under(v)) - 1
      BY <2>1, <2>3, FS_Subset
    <2>5. Cardinality(Under(t)) \in Nat
      BY <2>1, <2>3, FS_Subset, FS_CardinalityType
    <2> QED BY <2>3, <2>4, <2>5
  <1>5. ASSUME NEW t \in S
        PROVE  Cardinality(Under(t)) \in 0 .. n - 1
    <2>1. IsFiniteSet(S \ {t}) /\ Cardinality(S \ {t}) = n - 1 /\ Under(t) \in SUBSET (S \ {t})
      BY <1>1, FS_RemoveElement
    <2> HIDE DEF Under, S, n
    <2>2. IsFiniteSet(Under(t)) /\ Cardinality(Under(t)) <= n - 1
      BY <2>1, FS_Subset
    <2>3. Cardinality(Under(t)) \in Nat
      BY <2>2, FS_CardinalityType
    <2> QED BY <1>1, <2>2, <2>3
  <1>6. \A i \in 1 .. n : \E t \in S : Cardinality(Under(t)) = i - 1
    BY <1>1, Places
  <1> HIDE DEF S, n, Under
  <1>7. ASSUME NEW i \in 1 .. n
        PROVE  TokensOf(m, e)[i] \in S /\ Cardinality(Under(TokensOf(m, e)[i])) = i - 1
    BY <1>2, <1>6
  <1>8. TokensOf(m, e) \in [1 .. n -> Tokens]
    BY <1>2, <1>3, <1>7
  <1>9. TokensOf(m, e) \in Seq(Tokens)
    BY <1>1, <1>8, SeqDef
  <1>10. DOMAIN TokensOf(m, e) = 1 .. n
    BY <1>8
  <1>11. ASSUME NEW t \in S PROVE \E i \in 1 .. n : TokensOf(m, e)[i] = t
    <2> DEFINE i == Cardinality(Under(t)) + 1
    <2>1. i \in 1 .. n /\ i - 1 = Cardinality(Under(t))
      BY <1>1, <1>5
    <2> HIDE DEF i
    <2> DEFINE v == TokensOf(m, e)[i]
    <2>2. v \in S /\ Cardinality(Under(v)) = Cardinality(Under(t))
      BY <1>7, <2>1
    <2> HIDE DEF v
    <2>3. ~(t < v) /\ ~(v < t)
      BY <1>4, <2>2
    <2>4. v = t
      BY <1>1, <2>2, <2>3
    <2> QED BY <2>1, <2>4 DEF v
  <1>12. {TokensOf(m, e)[i] : i \in DOMAIN TokensOf(m, e)} = S
    BY <1>7, <1>10, <1>11
  <1> QED BY <1>9, <1>12 DEF S

LEMMA RowsOfExpert ==
  ASSUME NEW in, in.call \in {0, 1}, NEW e
  PROVE  /\ RowsOf(in, e) \in Seq(Rows)
         /\ DOMAIN RowsOf(in, e) = DOMAIN TokensOf(in.mask, e)
         /\ \A i \in DOMAIN TokensOf(in.mask, e) :
              RowsOf(in, e)[i] = Row(in.call, TokensOf(in.mask, e)[i])
  <1> DEFINE s == TokensOf(in.mask, e)
             r == RowsOf(in, e)
  <1>1. s \in Seq(Tokens)
    BY TokensOfExpert
  <1>2. r = [i \in DOMAIN s |-> Row(in.call, s[i])]
    BY DEF RowsOf
  <1> HIDE DEF s, r
  <1>3. Len(s) \in Nat /\ DOMAIN s = 1 .. Len(s) /\ \A i \in DOMAIN s : s[i] \in Tokens
    BY <1>1
  <1>4. r \in [1 .. Len(s) -> Rows]
    BY <1>2, <1>3 DEF Row, Rows
  <1>5. r \in Seq(Rows)
    BY <1>3, <1>4, SeqDef
  <1> QED BY <1>2, <1>4, <1>5 DEF r, s

-----------------------------------------------------------------------------
(* The block takes the steps of the handshake.                             *)

LEMMA NothingBetweenCalls ==
  ASSUME BarrierInv
  PROVE  /\ wait = "idle" => wanted = {} /\ left = {} /\ outputs = {}
         /\ wait = "swap" => left = {} /\ outputs = wanted
  <1>1. IsFiniteSet(left) /\ Cardinality(left) \in Nat
    BY FiniteExperts DEF BarrierInv
  <1>2. wait = "swap" => Cardinality(left) = 0
    BY <1>1 DEF BarrierInv, Counts
  <1> QED BY <1>1, <1>2, FS_EmptySet DEF BarrierInv

\* Some token has an expert, so the handshake is for one at least.
LEMMA SomeActivated ==
  ASSUME NEW m \in Masks
  PROVE  m \in [Tokens -> SUBSET Experts] /\ Activated(m) \in (SUBSET Experts) \ {{}}
  BY DEF Masks, Activated

LEMMA BlockStepsBarrier ==
  BlockInv /\ [BlockNext]_<<vars, blockVars>> => [Next]_vars
  <1> SUFFICES ASSUME BlockInv, [BlockNext]_<<vars, blockVars>> PROVE [Next]_vars
    OBVIOUS
  <1>1. CASE Dispatch
    <2>1. mask \in Masks /\ SetExpectedQueue(Activated(mask))
      BY <1>1 DEF Dispatch, BlockInv, BlockPhases
    <2> QED BY <2>1, SomeActivated DEF Next
  <1>2. CASE Handshake
    BY <1>2 DEF Handshake, Next, Waiter, Output
  <1>3. CASE Collect
    BY <1>3 DEF Collect, Next, Waiter
  <1>4. ASSUME NEW e \in Experts, Push(e) PROVE Next
    BY <1>4 DEF Push, Next, Output
  <1>5. CASE UNCHANGED vars
    BY <1>5
  <1>6. CASE (\E m \in Masks : Gate(m)) \/ Combine \/ Finish \/ (\E e \in Experts : FetchInput(e))
    BY <1>5, <1>6 DEF Gate, Combine, Finish, FetchInput
  <1> QED BY <1>1, <1>2, <1>3, <1>4, <1>5, <1>6 DEF BlockNext

\* What a step of the handshake leaves alone.
LEMMA HandshakeKeeps ==
  ASSUME Handshake
  PROVE  /\ UNCHANGED <<wanted, left, outputs>> /\ UNCHANGED blockVars
         /\ wait' = "idle" <=> wait = "idle"
  BY DEF Handshake, WaitCheck, WaitBlock, SpuriousWakeup, OutputCount, OutputLoad, OutputNotify

LEMMA StepBlockPhases == BlockInv /\ [BlockNext]_<<vars, blockVars>> => BlockPhases'
  <1> SUFFICES ASSUME BlockInv, [BlockNext]_<<vars, blockVars>> PROVE BlockPhases'
    OBVIOUS
  <1>0. BlockPhases
    BY DEF BlockInv
  <1>1. ASSUME NEW m \in Masks, Gate(m) PROVE BlockPhases'
    <2>1. m \in [Tokens -> SUBSET Experts]
      BY SomeActivated
    <2> QED BY <1>0, <1>1, <2>1 DEF Gate, vars, BlockPhases
  <1>2. CASE Dispatch
    BY <1>0, <1>2 DEF Dispatch, SetExpectedQueue, BlockPhases
  <1>3. CASE Handshake
    BY <1>0, <1>3, HandshakeKeeps DEF blockVars, BlockPhases
  <1>4. CASE Collect
    BY <1>0, <1>4 DEF Collect, WaitReturn, BlockPhases
  <1>5. ASSUME NEW e \in Experts, Push(e) PROVE BlockPhases'
    BY <1>0, <1>5 DEF Push, OutputPush, BlockPhases
  <1>6. CASE Combine \/ Finish \/ (\E e \in Experts : FetchInput(e)) \/ UNCHANGED <<vars, blockVars>>
    BY <1>0, <1>6 DEF Combine, Finish, FetchInput, vars, blockVars, BlockPhases
  <1> QED BY <1>1, <1>2, <1>3, <1>4, <1>5, <1>6 DEF BlockNext

LEMMA StepInputsInStep == BlockInv /\ [BlockNext]_<<vars, blockVars>> => InputsInStep'
  <1> SUFFICES ASSUME BlockInv, [BlockNext]_<<vars, blockVars>> PROVE InputsInStep'
    OBVIOUS
  <1>0. InputsInStep /\ BlockPhases /\ BarrierInv
    BY DEF BlockInv
  <1>1. CASE Dispatch
    <2>1. /\ wait = "idle" /\ block' = "wait" /\ inputs' = [call |-> call, mask |-> mask]
          /\ UNCHANGED <<call, mask, input>>
      BY <1>1 DEF Dispatch, SetExpectedQueue, SetInputs
    <2>2. \A e \in Experts : input[e] = <<>>
      BY <1>0, <2>1, NothingBetweenCalls DEF InputsInStep
    <2> QED BY <1>0, <2>1, <2>2 DEF InputsInStep
  <1>2. CASE Handshake
    BY <1>0, <1>2, HandshakeKeeps DEF blockVars, InputsInStep
  <1>3. CASE Collect
    BY <1>0, <1>3 DEF Collect, WaitReturn, InputsInStep, BlockPhases
  <1>4. ASSUME NEW e \in Experts, Push(e) PROVE InputsInStep'
    <2>1. /\ left' = left \ {e} /\ input' = [input EXCEPT ![e] = <<>>]
          /\ UNCHANGED <<block, call, mask, inputs>>
      BY <1>4 DEF Push, OutputPush
    <2> QED BY <1>0, <2>1 DEF InputsInStep
  <1>5. ASSUME NEW e \in Experts, FetchInput(e) PROVE InputsInStep'
    <2>1. /\ e \in left /\ left' = left /\ input' = [input EXCEPT ![e] = RowsOf(inputs, e)]
          /\ UNCHANGED <<block, call, mask, inputs>>
      BY <1>5 DEF FetchInput, vars
    <2>2. RowsOf(inputs, e)' = RowsOf(inputs, e)
      BY <2>1
    <2>3. \A d \in Experts \ {e} : input'[d] = input[d]
      BY <1>0, <2>1 DEF InputsInStep
    <2>4. input'[e] = RowsOf(inputs, e) /\ DOMAIN input' = Experts
      BY <1>0, <2>1 DEF InputsInStep
    <2> QED BY <1>0, <2>1, <2>3, <2>4 DEF InputsInStep
  <1>6. CASE (\E m \in Masks : Gate(m)) \/ Combine \/ Finish \/ UNCHANGED <<vars, blockVars>>
    BY <1>0, <1>6 DEF Gate, Combine, Finish, vars, blockVars, InputsInStep
  <1> QED BY <1>1, <1>2, <1>3, <1>4, <1>5, <1>6 DEF BlockNext

\* A result that comes to a list.
LEMMA ResultAppended ==
  ASSUME NEW q \in Seq(Results), OneEach(q), NEW r \in Results, r.expert \notin ExpertsIn(q)
  PROVE  /\ Append(q, r) \in Seq(Results) /\ OneEach(Append(q, r))
         /\ ExpertsIn(Append(q, r)) = ExpertsIn(q) \cup {r.expert}
         /\ Computed(q) /\ r.rows = RowsOf(inputs, r.expert) => Computed(Append(q, r))
  <1> DEFINE a == Append(q, r)
             n == Len(q)
  <1>1. /\ a \in Seq(Results) /\ n \in Nat /\ DOMAIN q = 1 .. n /\ DOMAIN a = 1 .. n + 1
        /\ a[n + 1] = r /\ \A i \in 1 .. n : a[i] = q[i]
    OBVIOUS
  <1> HIDE DEF a, n
  <1>2. 1 .. n + 1 = (1 .. n) \cup {n + 1}
    BY <1>1
  <1>3. \A i \in 1 .. n : q[i].expert # r.expert
    BY <1>1 DEF ExpertsIn
  <1>4. OneEach(a)
    BY <1>1, <1>2, <1>3 DEF OneEach
  <1>5. ExpertsIn(a) = ExpertsIn(q) \cup {r.expert}
    BY <1>1, <1>2 DEF ExpertsIn
  <1>6. ASSUME Computed(q), r.rows = RowsOf(inputs, r.expert) PROVE Computed(a)
    BY <1>1, <1>2, <1>6 DEF Computed
  <1> QED BY <1>1, <1>4, <1>5, <1>6 DEF a

LEMMA StepQueueInStep == BlockInv /\ [BlockNext]_<<vars, blockVars>> => QueueInStep'
  <1> SUFFICES ASSUME BlockInv, [BlockNext]_<<vars, blockVars>> PROVE QueueInStep'
    OBVIOUS
  <1>0. QueueInStep /\ InputsInStep /\ BlockPhases /\ BarrierInv
    BY DEF BlockInv
  <1>n. <<>> \in Seq(Results) /\ ExpertsIn(<<>>) = {} /\ DOMAIN <<>> = {}
    BY DEF ExpertsIn
  <1>1. CASE Dispatch
    <2>1. wait = "idle" /\ UNCHANGED <<queue, outputs>>
      BY <1>1 DEF Dispatch, SetExpectedQueue
    <2>2. DOMAIN queue = {}
      BY <1>0, <2>1, NothingBetweenCalls DEF QueueInStep, ExpertsIn
    <2> QED BY <1>0, <2>1, <2>2 DEF QueueInStep, OneEach, Computed
  <1>2. CASE Collect
    <2>1. queue' = <<>> /\ outputs' = {}
      BY <1>2 DEF Collect, WaitReturn
    <2> QED BY <1>n, <2>1 DEF QueueInStep, OneEach, Computed
  <1>3. ASSUME NEW e \in Experts, Push(e) PROVE QueueInStep'
    <2> DEFINE r == [expert |-> e, rows |-> input[e]]
    <2>1. /\ input[e] # <<>> /\ outputs' = outputs \cup {e} /\ e \in left
          /\ queue' = Append(queue, r) /\ UNCHANGED inputs
      BY <1>3 DEF Push, OutputPush
    <2>2. input[e] = RowsOf(inputs, e)
      BY <1>0, <2>1 DEF InputsInStep
    <2>3. block = "wait" /\ e \notin outputs
      BY <1>0, <2>1 DEF BarrierInv, BlockPhases
    <2>4. r \in Results /\ r.expert = e /\ r.rows = input[e]
      <3>1. inputs.call \in {0, 1}
        BY <1>0, <2>3 DEF InputsInStep, BlockPhases
      <3>2. input[e] \in Seq(Rows)
        BY <2>2, <3>1, RowsOfExpert
      <3> QED BY <3>2 DEF Results
    <2> HIDE DEF r
    <2>5. /\ Append(queue, r) \in Seq(Results) /\ OneEach(Append(queue, r))
          /\ ExpertsIn(Append(queue, r)) = ExpertsIn(queue) \cup {e}
          /\ Computed(Append(queue, r))
      BY <1>0, <2>2, <2>3, <2>4, ResultAppended DEF QueueInStep
    <2> QED BY <1>0, <2>1, <2>5 DEF QueueInStep, Computed
  <1>4. ASSUME UNCHANGED <<queue, outputs, inputs>> PROVE QueueInStep'
    BY <1>0, <1>4 DEF QueueInStep, Computed
  <1>5. CASE Handshake
    BY <1>4, <1>5, HandshakeKeeps DEF blockVars
  <1>6. CASE (\E m \in Masks : Gate(m)) \/ Combine \/ Finish \/ (\E e \in Experts : FetchInput(e))
             \/ UNCHANGED <<vars, blockVars>>
    BY <1>4, <1>6 DEF Gate, Combine, Finish, FetchInput, vars, blockVars
  <1> QED BY <1>1, <1>2, <1>3, <1>5, <1>6 DEF BlockNext

\* What adding a result's rows leaves for the results behind it.
LEMMA ResultAdded ==
  ASSUME BlockInv, Combine, NEW t \in Tokens
  PROVE  combined'[t] = Added(t, mask[t] \ ExpertsIn(Tail(results)))
  <1> DEFINE r == Head(results)
             e == r.expert
             s == TokensOf(mask, e)
             new == {[expert |-> e, row |-> r.rows[i]] : i \in {j \in DOMAIN s : s[j] = t}}
             rec(d) == [expert |-> d, row |-> Row(call, t)]
             open == mask[t] \ ExpertsIn(results)
             rest == mask[t] \ ExpertsIn(Tail(results))
  <1>1. /\ block = "combine" /\ results # <<>> /\ combined'[t] = combined[t] (+) SetToBag(new)
    BY DEF Combine, Indices
  <1>2. /\ results \in Seq(Results) /\ OneEach(results) /\ Computed(results)
        /\ combined[t] = SetToBag({rec(d) : d \in open})
    BY <1>1 DEF BlockInv, CombineInStep, Added
  <1>3. ExpertsIn(results) = ExpertsIn(Tail(results)) \cup {e} /\ e \notin ExpertsIn(Tail(results))
    <2>1. /\ Len(results) \in Nat \ {0} /\ DOMAIN results = 1 .. Len(results) /\ r = results[1]
          /\ DOMAIN Tail(results) = 1 .. Len(results) - 1
          /\ \A i \in 1 .. Len(results) - 1 : Tail(results)[i] = results[i + 1]
      BY <1>1, <1>2
    <2> HIDE DEF r
    <2>2. ExpertsIn(results) \subseteq ExpertsIn(Tail(results)) \cup {e}
      <3> SUFFICES ASSUME NEW i \in 1 .. Len(results)
                   PROVE  results[i].expert \in ExpertsIn(Tail(results)) \cup {e}
        BY <2>1 DEF ExpertsIn
      <3>1. CASE i = 1
        BY <2>1, <3>1
      <3>2. CASE i # 1
        <4>1. i - 1 \in DOMAIN Tail(results) /\ Tail(results)[i - 1] = results[i]
          BY <2>1, <3>2
        <4> QED BY <4>1 DEF ExpertsIn
      <3> QED BY <3>1, <3>2
    <2>3. \A i \in 1 .. Len(results) - 1 : i + 1 \in DOMAIN results /\ i + 1 # 1
      BY <2>1
    <2>4. ExpertsIn(Tail(results)) \cup {e} \subseteq ExpertsIn(results)
      <3>1. ExpertsIn(Tail(results)) \subseteq ExpertsIn(results)
        BY <2>1, <2>3 DEF ExpertsIn
      <3>2. 1 \in DOMAIN results
        BY <2>1
      <3> QED BY <2>1, <3>1, <3>2 DEF ExpertsIn
    <2>5. e \notin ExpertsIn(Tail(results))
      <3>1. 1 \in DOMAIN results
        BY <2>1
      <3>2. \A i \in DOMAIN Tail(results) : Tail(results)[i].expert # e
        BY <1>2, <2>1, <2>3, <3>1 DEF OneEach
      <3> QED BY <3>2 DEF ExpertsIn
    <2> QED BY <2>2, <2>4, <2>5
  <1>4. inputs = [call |-> call, mask |-> mask] /\ call \in {0, 1}
    BY <1>1 DEF BlockInv, InputsInStep, BlockPhases
  <1>5. r.rows = RowsOf(inputs, e)
    <2>1. 1 \in DOMAIN results /\ r = results[1]
      BY <1>1, <1>2
    <2> QED BY <1>2, <2>1 DEF Computed
  <1>6. \A i \in DOMAIN s : r.rows[i] = Row(call, s[i])
    <2>1. inputs.call \in {0, 1} /\ inputs.call = call /\ inputs.mask = mask
      BY <1>4
    <2> HIDE DEF r
    <2> QED BY <1>5, <2>1, RowsOfExpert
  <1>7. {s[i] : i \in DOMAIN s} = {u \in Tokens : e \in mask[u]}
    BY TokensOfExpert
  <1>8. new = IF e \in mask[t] THEN {rec(e)} ELSE {}
    <2> HIDE DEF s, r
    <2>1. \A i \in DOMAIN s : s[i] = t => r.rows[i] = Row(call, t)
      BY <1>6
    <2>2. (\E i \in DOMAIN s : s[i] = t) <=> e \in mask[t]
      BY <1>7
    <2> QED BY <2>1, <2>2
  <1> HIDE DEF r, s, new
  <1>9. ASSUME NEW A, NEW x, x \notin A
        PROVE  SetToBag(A) (+) SetToBag({x}) = SetToBag(A \cup {x})
    BY <1>9 DEF SetToBag, (+)
  <1>10. ASSUME NEW A PROVE SetToBag(A) (+) SetToBag({}) = SetToBag(A)
    BY DEF SetToBag, (+)
  <1>11. CASE e \in mask[t]
    <2>1. rest = open \cup {e} /\ e \notin open
      BY <1>3, <1>11
    <2> HIDE DEF e, rest, open
    <2>2. {rec(d) : d \in rest} = {rec(d) : d \in open} \cup {rec(e)}
      BY <2>1
    <2>3. rec(e) \notin {rec(d) : d \in open}
      BY <2>1
    <2> HIDE DEF rec
    <2>4. combined'[t] = SetToBag({rec(d) : d \in rest})
      <3>1. PICK A, x : A = {rec(d) : d \in open} /\ x = rec(e)
        OBVIOUS
      <3>2. combined'[t] = SetToBag(A) (+) SetToBag({x})
        BY <1>1, <1>2, <1>8, <1>11, <3>1
      <3>3. SetToBag(A) (+) SetToBag({x}) = SetToBag(A \cup {x})
        BY <1>9, <2>3, <3>1
      <3> QED BY <2>2, <3>1, <3>2, <3>3
    <2> QED BY <2>4 DEF Added, rec, rest
  <1>12. CASE e \notin mask[t]
    <2>1. rest = open
      BY <1>3, <1>12
    <2> HIDE DEF e, rest, open, rec
    <2>2. combined'[t] = SetToBag({rec(d) : d \in rest})
      BY <1>1, <1>2, <1>8, <1>10, <1>12, <2>1
    <2> QED BY <2>2 DEF Added, rec, rest
  <1> QED BY <1>11, <1>12

LEMMA StepCombineInStep == BlockInv /\ [BlockNext]_<<vars, blockVars>> => CombineInStep'
  <1> SUFFICES ASSUME BlockInv, [BlockNext]_<<vars, blockVars>> PROVE CombineInStep'
    OBVIOUS
  <1>0. CombineInStep /\ QueueInStep /\ InputsInStep /\ BlockPhases /\ BarrierInv
    BY DEF BlockInv
  <1>1. ASSUME NEW m \in Masks, Gate(m) PROVE CombineInStep'
    BY <1>1 DEF Gate, CombineInStep
  <1>2. CASE Dispatch
    BY <1>0, <1>2 DEF Dispatch, CombineInStep
  <1>3. CASE Collect
    <2>1. /\ wait = "swap" /\ block' = "combine" /\ results' = queue
          /\ UNCHANGED <<call, mask, inputs, combined>>
      BY <1>3 DEF Collect, WaitReturn
    <2>2. block = "wait" /\ wanted = Activated(mask) /\ mask \in [Tokens -> SUBSET Experts]
      BY <1>0, <2>1 DEF BlockPhases
    <2>3. ExpertsIn(queue) = Activated(mask)
      BY <1>0, <2>1, <2>2, NothingBetweenCalls DEF QueueInStep
    <2>4. ASSUME NEW t \in Tokens PROVE combined[t] = Added(t, mask[t] \ ExpertsIn(queue))
      <3>1. mask[t] \ ExpertsIn(queue) = {}
        BY <2>2, <2>3 DEF Activated
      <3>2. {[expert |-> e, row |-> Row(call, t)] : e \in {}} = {}
        OBVIOUS
      <3>3. combined[t] = EmptyBag
        BY <1>0, <2>2 DEF CombineInStep
      <3> QED BY <3>1, <3>2, <3>3 DEF Added, EmptyBag
    <2>5. queue \in Seq(Results) /\ OneEach(queue) /\ Computed(queue)
      BY <1>0 DEF QueueInStep
    <2> QED BY <2>1, <2>4, <2>5 DEF CombineInStep, Computed, Added
  <1>4. CASE Combine
    <2>1. /\ block = "combine" /\ results # <<>> /\ results' = Tail(results)
          /\ UNCHANGED <<block, call, mask, inputs>>
      BY <1>4 DEF Combine
    <2>2. results \in Seq(Results) /\ OneEach(results) /\ Computed(results)
      BY <1>0, <2>1 DEF CombineInStep
    <2>3. /\ Tail(results) \in Seq(Results) /\ DOMAIN Tail(results) = 1 .. Len(results) - 1
          /\ DOMAIN results = 1 .. Len(results) /\ Len(results) \in Nat
          /\ \A i \in 1 .. Len(results) - 1 : Tail(results)[i] = results[i + 1]
      BY <2>1, <2>2
    <2>4. \A i \in 1 .. Len(results) - 1 : i + 1 \in DOMAIN results
      BY <2>3
    <2>5. Computed(Tail(results))
      BY <2>2, <2>3, <2>4 DEF Computed
    <2>6. OneEach(Tail(results))
      <3> SUFFICES ASSUME NEW i \in 1 .. Len(results) - 1, NEW j \in 1 .. Len(results) - 1,
                          Tail(results)[i].expert = Tail(results)[j].expert
                   PROVE  i = j
        BY <2>3 DEF OneEach
      <3>1. i + 1 = j + 1
        BY <2>2, <2>3, <2>4 DEF OneEach
      <3> QED BY <3>1
    <2>7. \A t \in Tokens : combined'[t] = Added(t, mask[t] \ ExpertsIn(Tail(results)))
      BY <1>4, ResultAdded
    <2> QED BY <2>1, <2>3, <2>5, <2>6, <2>7 DEF CombineInStep, Computed, Added
  <1>5. CASE Finish
    BY <1>5 DEF Finish, CombineInStep
  <1>6. ASSUME UNCHANGED <<block, call, mask, inputs, results, combined>> PROVE CombineInStep'
    BY <1>0, <1>6 DEF CombineInStep, Computed, Added
  <1>7. CASE Handshake
    BY <1>6, <1>7, HandshakeKeeps DEF blockVars
  <1>8. CASE (\E e \in Experts : FetchInput(e) \/ Push(e)) \/ UNCHANGED <<vars, blockVars>>
    BY <1>6, <1>8 DEF FetchInput, Push, blockVars
  <1> QED BY <1>1, <1>2, <1>3, <1>4, <1>5, <1>7, <1>8 DEF BlockNext

LEMMA InitBlockInv == BlockInit => BlockInv
  <1> SUFFICES ASSUME BlockInit PROVE BlockInv
    OBVIOUS
  <1>1. BarrierInv
    BY InitBarrierInv DEF BlockInit
  <1>2. wait = "idle" /\ outputs = {} /\ ExpertsIn(<<>>) = {} /\ <<>> \in Seq(Results)
    BY DEF BlockInit, Init, ExpertsIn
  <1>3. BlockPhases
    BY <1>2 DEF BlockInit, BlockPhases
  <1>4. InputsInStep
    BY DEF BlockInit, InputsInStep
  <1>5. QueueInStep
    BY <1>2 DEF BlockInit, QueueInStep, OneEach, Computed
  <1>6. CombineInStep
    BY DEF BlockInit, CombineInStep
  <1> QED BY <1>1, <1>3, <1>4, <1>5, <1>6 DEF BlockInv

LEMMA StepBlockInv == BlockInv /\ [BlockNext]_<<vars, blockVars>> => BlockInv'
  <1> SUFFICES ASSUME BlockInv, [BlockNext]_<<vars, blockVars>> PROVE BlockInv'
    OBVIOUS
  <1>1. BarrierInv'
    BY BlockStepsBarrier, StepBarrierInv DEF BlockInv
  <1> QED
    BY <1>1, StepBlockPhases, StepInputsInStep, StepQueueInStep, StepCombineInStep DEF BlockInv

\* Between the gate and the output of a sparse block (models/*/modeling_*.py and
\* GPUFetchFunc) no token loses the output of an expert, gets one twice or gets
\* one computed on another token's or another call's hidden state, for any number
\* of tokens and experts and any order of loading.
THEOREM BlockCombines == BlockSpec => []CombinesRouted
  <1>1. BlockInv => CombinesRouted
    <2> SUFFICES ASSUME BlockInv, block = "combine", results = <<>>, NEW t \in Tokens
                 PROVE  combined[t] = SetToBag({[expert |-> e, row |-> Row(call, t)] : e \in mask[t]})
      BY DEF CombinesRouted
    <2>1. ExpertsIn(results) = {}
      BY DEF ExpertsIn
    <2>2. mask[t] \ ExpertsIn(results) = mask[t]
      BY <2>1
    <2>3. combined[t] = Added(t, mask[t])
      BY <2>2 DEF BlockInv, CombineInStep
    <2> QED BY <2>3 DEF Added
  <1> QED BY <1>1, InitBlockInv, StepBlockInv, PTL DEF BlockSpec

\* set_inputs replaces the dispatcher's copies only when every expert of the last
\* call has been through.
THEOREM InputsStayFixed == BlockSpec => InputsFixed
  <1>1. BlockInv /\ [BlockNext]_<<vars, blockVars>> =>
          [inputs' # inputs => left = {}]_<<vars, blockVars>>
    <2> SUFFICES ASSUME BlockInv, [BlockNext]_<<vars, blockVars>>, inputs' # inputs PROVE left = {}
      OBVIOUS
    <2>1. ~Handshake
      BY HandshakeKeeps DEF blockVars
    <2>2. Dispatch
      BY <2>1 DEF BlockNext, Gate, Collect, Combine, Finish, FetchInput, Push, blockVars
    <2>3. wait = "idle"
      BY <2>2 DEF Dispatch, SetExpectedQueue
    <2> QED BY <2>3, NothingBetweenCalls DEF BlockInv
  <1> QED BY <1>1, InitBlockInv, StepBlockInv, PTL DEF BlockSpec, InputsFixed

\* The block's steps are steps of the handshake, so what is proved of the
\* handshake holds in the block.
LEMMA BlockKeepsBarrier == BlockSpec => Spec
  <1>1. BlockInit => Init
    BY DEF BlockInit
  <1> QED BY <1>1, InitBlockInv, StepBlockInv, BlockStepsBarrier, PTL DEF BlockSpec, Spec

\* Wait returns one output of each expert of the mask within the block as well.
THEOREM BlockServes == BlockSpec => WaitReturnsAll
  BY BlockKeepsBarrier, BarrierServes, PTL

\* pending_ is right within the block too.
THEOREM BlockCounterCorrect == BlockSpec => []PendingBehindOutputs
  BY BlockKeepsBarrier, CounterCorrect, PTL
=============================================================================
