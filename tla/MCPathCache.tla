----------------------------- MODULE MCPathCache -----------------------------
(* A production's directory with two files, below a base, for TLC.          *)
EXTENDS PathCache, TLC
CONSTANTS base, era, task, a, b
MCPaths == {base, era, task, a, b}
MCFiles == {a, b}
MCParent == (era :> base) @@ (task :> era) @@ (a :> task) @@ (b :> task)
MCAbove[p \in MCPaths] == IF p = base THEN {} ELSE {MCParent[p]} \cup MCAbove[MCParent[p]]
=============================================================================
