--------------------------- MODULE MCContextLoop ---------------------------
(***************************************************************************)
(* ContextLoop with a few tool calls and signals: over stdio two signals   *)
(* and one call, over HTTP two calls.                                      *)
(***************************************************************************)
EXTENDS ContextLoop

CONSTANTS c1, c2, s1, s2

InScene == transport = "stdio" => call[c2] = "idle"

MCSpec == LoopInit /\ [][LoopNext /\ InScene']_loopVars /\ LoopFairness
=============================================================================
