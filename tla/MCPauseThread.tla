--------------------------- MODULE MCPauseThread ---------------------------
(* Instances of PauseThread for TLC. *)
EXTENDS PauseThread, TLC

Perms == Permutations(Thread)
=============================================================================
