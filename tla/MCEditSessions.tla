---------------------------- MODULE MCEditSessions ----------------------------
(* Two threads on one or two files; the threads are alike, and so are the files. *)
EXTENDS EditSessions

Symmetry == Permutations(Threads) \cup Permutations(Files)
=============================================================================
