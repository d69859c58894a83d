----------------------------- MODULE MCKeyPool -----------------------------
(* Small instances of KeyPool. *)
EXTENDS KeyPool, TLC

Symmetry == Permutations(Attempts) \cup Permutations(Tests)
=============================================================================
