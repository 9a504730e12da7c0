---------------------------- MODULE SparseBlock ----------------------------
(***************************************************************************)
(* A sparse block of the model, call after call: the gate routes each      *)
(* token to some experts, the dispatcher copies hidden states and mask,    *)
(* its fetch thread picks the rows of an expert from the copies when that  *)
(* expert's weights are there, the results come in any order, and the      *)
(* block adds their rows to the tokens of the mask it kept itself.  Wait   *)
(* and OutputFunc are those of PendingBarrier, in all their steps.         *)
(***************************************************************************)
EXTENDS PendingBarrier, Sequences, Bags

CONSTANTS
  NumTokens,  \* tokens of a call
  TopK        \* most experts of a token

ASSUME BlockAssumption == NumTokens \in Nat \ {0} /\ TopK \in Nat \ {0}

Tokens == 0 .. NumTokens - 1

\* The masks a gate can give.  Each token has its TopK experts, or fewer when the
\* capacity of a Switch expert is used up, which drops never all of the tokens.
Masks == {m \in [Tokens -> {A \in SUBSET Experts : Cardinality(A) <= TopK}] :
            \E t \in Tokens : m[t] # {}}

VARIABLES
  block,      \* where the block's forward is
  call,       \* tells the hidden states of a call from those of its neighbours
  mask,       \* router_mask, the block's own
  inputs,     \* hidden_states_ and router_mask_ of the dispatcher
  input,      \* ExecArgs::hidden_states of an expert, or the empty sequence
  queue,      \* output_queue_, in the order of arrival
  results,    \* what wait_expert returned and is not yet added
  combined    \* output_hidden_states: of each token, what was added to it

blockVars == <<block, call, mask, inputs, input, queue, results, combined>>

\* A row is a token's hidden state in one call.
Row(c, t) == [call |-> c, token |-> t]

\* The tokens of an expert in ascending order: the i-th has i - 1 before it.
TokensOf(m, e) ==
  LET chosen == {t \in Tokens : e \in m[t]}
  IN [i \in 1 .. Cardinality(chosen) |->
        CHOOSE t \in chosen : Cardinality({u \in chosen : u < t}) = i - 1]

RowsOf(in, e) == [i \in DOMAIN TokensOf(in.mask, e) |-> Row(in.call, TokensOf(in.mask, e)[i])]
Activated(m) == UNION {m[t] : t \in Tokens}

BlockInit ==
  /\ Init
  /\ block = "gate" /\ call = 0
  /\ mask = [t \in Tokens |-> {}] /\ inputs = [call |-> 0, mask |-> mask]
  /\ input = [e \in Experts |-> <<>>]
  /\ queue = <<>> /\ results = <<>> /\ combined = [t \in Tokens |-> EmptyBag]

-----------------------------------------------------------------------------

\* The gate routes the tokens of the next call.
Gate(m) ==
  /\ block = "gate"
  /\ block' = "dispatch" /\ call' = 1 - call /\ mask' = m
  /\ combined' = [t \in Tokens |-> EmptyBag]
  /\ UNCHANGED <<vars, inputs, input, queue, results>>

\* Mutant: the dispatcher keeps the hidden states it has.
SetInputsStale == inputs' = [inputs EXCEPT !.mask = mask]

\* The dispatcher clones both.
SetInputs == inputs' = [call |-> call, mask |-> mask]

\* dispatch_local: set_inputs, set_expected_queue and the enqueue_expert calls.
Dispatch ==
  /\ block = "dispatch"
  /\ block' = "wait"
  /\ SetInputs
  /\ SetExpectedQueue(Activated(mask))
  /\ UNCHANGED <<call, mask, input, queue, results, combined>>

\* GPUFetchFunc of an expert whose task is ready picks its rows.
FetchInput(e) ==
  /\ e \in left /\ input[e] = <<>>
  /\ input' = [input EXCEPT ![e] = RowsOf(inputs, e)]
  /\ UNCHANGED <<vars, block, call, mask, inputs, queue, results, combined>>

\* GPUExecFunc runs the expert on its rows, OutputFunc appends the result.
Push(e) ==
  /\ input[e] # <<>>
  /\ OutputPush(e)
  /\ queue' = Append(queue, [expert |-> e, rows |-> input[e]])
  /\ input' = [input EXCEPT ![e] = <<>>]
  /\ UNCHANGED <<block, call, mask, inputs, results, combined>>

\* The steps of Wait and OutputFunc that touch nothing else.
Handshake ==
  /\ WaitCheck \/ WaitBlock \/ SpuriousWakeup \/ OutputCount \/ OutputLoad \/ OutputNotify
  /\ UNCHANGED blockVars

\* wait_expert returns.
Collect ==
  /\ WaitReturn
  /\ block' = "combine" /\ results' = queue /\ queue' = <<>>
  /\ UNCHANGED <<call, mask, inputs, input, combined>>

\* The tokens a result is added to: those of its expert in the block's own mask.
Indices(r) == TokensOf(mask, r.expert)

\* One round of the loop over the results.  Rows and tokens are as many, or the
\* addition throws.  Adding to a token that has one expert at most is what the
\* assignment of the Switch block does.
Combine ==
  LET r == Head(results) IN
  /\ block = "combine" /\ results # <<>>
  /\ Len(r.rows) = Len(Indices(r))
  /\ combined' = [t \in Tokens |-> combined[t] (+)
                   SetToBag({[expert |-> r.expert, row |-> r.rows[i]] :
                     i \in {j \in DOMAIN Indices(r) : Indices(r)[j] = t}})]
  /\ results' = Tail(results)
  /\ UNCHANGED <<vars, block, call, mask, inputs, input, queue>>

\* The block returns its output.
Finish ==
  /\ block = "combine" /\ results = <<>>
  /\ block' = "gate"
  /\ UNCHANGED <<vars, call, mask, inputs, input, queue, results, combined>>

BlockNext ==
  \/ \E m \in Masks : Gate(m)
  \/ Dispatch \/ Handshake \/ Collect \/ Combine \/ Finish
  \/ \E e \in Experts : FetchInput(e) \/ Push(e)

BlockSpec == BlockInit /\ [][BlockNext]_<<vars, blockVars>>

-----------------------------------------------------------------------------
(* Properties.                                                             *)

\* The block's output adds to each token the outputs of exactly the experts the
\* gate gave it, each computed on that token's own hidden state of this call and
\* each once, in whatever order the experts were loaded and their results came.
CombinesRouted ==
  block = "combine" /\ results = <<>> =>
    \A t \in Tokens :
      combined[t] = SetToBag({[expert |-> e, row |-> Row(call, t)] : e \in mask[t]})

\* set_inputs overwrites hidden_states_ and router_mask_ without a lock while the
\* fetch thread lives: it never does before every expert of the last call has
\* been through, so no expert computes on rows of two calls.
InputsFixed == [][inputs' # inputs => left = {}]_<<vars, blockVars>>
=============================================================================
