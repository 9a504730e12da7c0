-------------------------- MODULE MCExpertPipeline --------------------------
(* Instances of ExpertPipeline for TLC.  Slots and docks are interchangeable. *)
EXTENDS ExpertPipeline, TLC

RegionSymmetry ==
  Permutations(GpuSlots) \cup Permutations(SmSlots) \cup Permutations(Docks)
=============================================================================
