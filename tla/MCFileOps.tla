------------------------------ MODULE MCFileOps ------------------------------
(***************************************************************************)
(* FileOps for TLC: the callers are interchangeable.                       *)
(***************************************************************************)
EXTENDS FileOps, TLC

Symmetry == Permutations(Callers)
=============================================================================
