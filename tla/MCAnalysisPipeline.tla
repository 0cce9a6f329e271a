-------------------------- MODULE MCAnalysisPipeline --------------------------
(***************************************************************************)
(* Instances of AnalysisPipeline for TLC. Handlers are alike, but the runs  *)
(* that check liveness use no symmetry.                                     *)
(***************************************************************************)
EXTENDS AnalysisPipeline, TLC

Symmetric == Permutations(Handlers)
=============================================================================
