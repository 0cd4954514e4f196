--------------------------- MODULE MCStallWatchdog ---------------------------
(* One branch on a small clock, for TLC; values in the configuration.      *)
EXTENDS StallWatchdog
=============================================================================
