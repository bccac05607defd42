---------------------------- MODULE MCLlamaServer ----------------------------
(***************************************************************************)
(* Instances of LlamaServer for TLC: model values for requests and aliases.*)
(***************************************************************************)
EXTENDS LlamaServerProps, TLC

Symmetry == Permutations(Request)
=============================================================================
