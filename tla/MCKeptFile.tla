----------------------------- MODULE MCKeptFile -----------------------------
(* A small instance of KeptFile for the model checker. *)
EXTENDS KeptFile, TLC

CONSTANTS c1, c2, m1

Interchangeable == Permutations(Callers)
=============================================================================
