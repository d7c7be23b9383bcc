--------------------------- MODULE MCBoxResources ----------------------------
(* Small instances of BoxResources for TLC. *)
EXTENDS BoxResources

CONSTANTS s1, s2

MCServices == <<s1, s2>>

ProcSymmetry == Permutations(Procs) \cup Permutations(Stale)
=============================================================================
