--------------------------- MODULE MCValueBlocker ---------------------------
(* The blocker and its user for TLC.                                       *)
EXTENDS ValueBlocker
=============================================================================
