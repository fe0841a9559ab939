---------------------------- MODULE MCUserLogging ----------------------------
(* The logging job for TLC.                                                *)
EXTENDS UserLogging
=============================================================================
