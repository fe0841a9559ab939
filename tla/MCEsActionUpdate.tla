-------------------------- MODULE MCEsActionUpdate --------------------------
(* The update path for TLC: threads and object IDs are interchangeable.    *)
EXTENDS EsActionUpdate, TLC

Symmetry == Permutations(Threads) \cup Permutations(Ids)
=============================================================================
