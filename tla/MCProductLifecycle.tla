------------------------- MODULE MCProductLifecycle -------------------------
(* A few seeds and merge groups, for TLC; values in the configurations.    *)
EXTENDS ProductLifecycle, TLC

\* Attempts of one job differ by nothing but their slot.
Symmetry == Permutations(Slots)
=============================================================================
