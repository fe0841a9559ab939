----------------------------- MODULE MCJobWorker -----------------------------
(* The job worker for TLC.                                                 *)
EXTENDS JobWorker
=============================================================================
