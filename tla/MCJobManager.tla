---------------------------- MODULE MCJobManager ----------------------------
(* Two branches in up to two CRAB tasks, for TLC; values in the            *)
(* configuration.                                                          *)
EXTENDS JobManager
=============================================================================
