--------------------------- MODULE MCVertexStore ---------------------------
(* The vertex store for TLC.                                               *)
EXTENDS VertexStore
=============================================================================
