---------------------------- MODULE MCCopyRename ----------------------------
(* Two jobs publishing one target, for TLC; values in the configurations.  *)
EXTENDS CopyRename
=============================================================================
