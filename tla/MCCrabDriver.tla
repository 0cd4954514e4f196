---------------------------- MODULE MCCrabDriver ----------------------------
(* A small CRAB production, for TLC; values in the configurations.         *)
EXTENDS CrabDriver
=============================================================================
