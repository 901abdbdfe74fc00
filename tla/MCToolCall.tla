----------------------------- MODULE MCToolCall -----------------------------
(* ToolCall for TLC: calls of any tool, the reserves one second past the lag. *)
EXTENDS ToolCall, TLC

MCOffered == Tools
CallSymmetry == Permutations(Calls)
=============================================================================
