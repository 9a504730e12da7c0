--------------------------- MODULE MCTensorPlanes ---------------------------
(***************************************************************************)
(* Words for TLC that differ in both planes and have both signs.           *)
(***************************************************************************)
EXTENDS TensorPlanes

MCWeight(p) == 128 * (255 - p) + p - (IF p % 2 = 0 THEN 0 ELSE 32768)
=============================================================================
