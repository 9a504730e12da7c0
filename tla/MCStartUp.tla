----------------------------- MODULE MCStartUp -----------------------------
(***************************************************************************)
(* Two small models for TLC.  The one has the shape of DeepSeek and Qwen:  *)
(* a dense first layer, then one whose own parameters stand before and     *)
(* behind those of its experts.  The other has that of Switch, where names *)
(* carry the number of a sublayer and two layers have experts.             *)
(***************************************************************************)
EXTENDS StartUp, TLC

Param(id, prefix, mod, expert, size) ==
  [id |-> id, prefix |-> prefix, module |-> mod, expert |-> expert, size |-> size]

MCDeepSeek == <<
  Param(3, None, "embed_tokens", None, 2),
  Param(1, "layers.0", "mlp.down_proj", None, 1), Param(9, "layers.0", "layernorm", None, 1),
  Param(2, "layers.1", "q_proj", None, 3), Param(0, "layers.1", "q_proj", None, 1),
  Param(4, "layers.1.experts", "experts.0", 0, 2), Param(5, "layers.1.experts", "experts.0", 0, 1),
  Param(6, "layers.1.experts", "experts.1", 1, 2), Param(7, "layers.1.experts", "experts.1", 1, 1),
  Param(8, "layers.1", "gate", None, 2)>>

MCSwitch == <<
  Param(0, None, "shared", None, 3),
  Param(1, "block.0.layer.0", "SelfAttention.q", None, 1),
  Param(2, "block.0.layer.1", "router.0", None, 2),
  Param(4, "block.0.experts", "expert_0", 0, 2), Param(3, "block.0.experts", "expert_1", 1, 2),
  Param(6, "block.1.layer.1", "router.1", None, 1),
  Param(5, "block.1.experts", "expert_0", 0, 2), Param(7, "block.1.experts", "expert_1", 1, 2),
  Param(8, None, "final_layer_norm", None, 1)>>

MCModels == {MCDeepSeek, MCSwitch}
MCWeights == {<<4, 3, 2, 1, 0, 0, 0, 0, 0, 0, 0, 0>>, <<3, 3, 0, 0, 0, 0, 0, 0, 0, 0, 0, 0>>,
              <<1, 1, 1, 1, 1, 0, 0, 0, 0, 0, 0, 0>>}

CellSymmetry == Permutations(Cells)
=============================================================================
