--------------------------- MODULE MCMcpTransport ----------------------------
(* A model-checking instance of McpTransport. *)
EXTENDS McpTransport, TLC

Alike == Permutations(Conn) \cup Permutations(Request)
=============================================================================
