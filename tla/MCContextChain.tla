---------------------------- MODULE MCContextChain ----------------------------
(* Small instances of ContextChain for the model checker. *)
EXTENDS ContextChain, TLC

\* The calls are interchangeable: nothing in the chain orders them.
Interchangeable == Permutations(Calls)

=============================================================================
