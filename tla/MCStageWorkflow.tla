-------------------------- MODULE MCStageWorkflow --------------------------
(* Two operations, two contents of equal size: enough for a race on the    *)
(* destination, for a repeated staging of one version, and for a provider  *)
(* that rewrites its asset after publication.                              *)
EXTENDS StageWorkflow, TLC

MCOpSymmetry == Permutations(Ops)
=============================================================================
