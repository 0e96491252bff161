--------------------------- MODULE MCDynamicMemory ---------------------------
(* Instances of DynamicMemory for TLC. *)
EXTENDS DynamicMemory, TLC

Perms == Permutations(Vic)
=============================================================================
