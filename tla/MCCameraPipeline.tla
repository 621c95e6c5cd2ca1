-------------------------- MODULE MCCameraPipeline --------------------------
(* CameraPipeline for TLC. *)
EXTENDS CameraPipeline, TLC

Symmetry == Permutations(Request)
=============================================================================
