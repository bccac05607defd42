---------------------------- MODULE MCLlamaEngine ----------------------------
(***************************************************************************)
(* Instances of LlamaEngine for TLC.                                       *)
(***************************************************************************)
EXTENDS LlamaEngineProps

Symmetry == Permutations(Token)
=============================================================================
