---------------------------- MODULE MCLspRequests ----------------------------
(* Instances of LspRequests for TLC.                                         *)
EXTENDS LspRequests, TLC

\* Callers are interchangeable in the safety runs.
Symmetry == Permutations(Callers)
=============================================================================
