----------------------------- MODULE MCCircuit -----------------------------
(* Small instances of Circuit. *)
EXTENDS Circuit, TLC

Symmetry == Permutations(Requests)
=============================================================================
