----------------------------- MODULE MCSiteStats -----------------------------
(* A few sites and short bans, for TLC; values in the configurations.  Sites *)
(* are alike, and no liveness is checked.                                   *)
EXTENDS SiteStats, TLC
\* The values around each limit.
MCRequests ==
  [mem : {0, 999, 1000, 2500, 2501, 3000, 3001, 5000, 5001, 10000, 10001, 20000, 20001},
   cpus : 0..9, maxCores : 0..9]
\* One glob that matches every site.
MCWhitelist == {Sites}
Symmetry == Permutations(Sites)
=============================================================================
