----------------------------- MODULE MCDocuments ------------------------------
(* Documents with the symmetry of its threads, which run the same calls.     *)
EXTENDS Documents, TLC

Symmetry == Permutations(Threads)
=============================================================================
