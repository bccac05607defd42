------------------------------ MODULE MCIndexing ------------------------------
(***************************************************************************)
(* Instances of Indexing for TLC.                                          *)
(***************************************************************************)
EXTENDS IndexingProps

CONSTANTS d1, d2, d3, s1, s2

\* Two documents of one source and one of another.
MCSource == [d \in {d1, d2, d3} |-> IF d = d3 THEN s2 ELSE s1]

\* Contents of the loader: one source and both, in batches that split a source.
MCLoads == { << >>, <<d1>>, <<d2, d1>>, <<d1, d3, d2>>, <<d3, d3>> }
=============================================================================
