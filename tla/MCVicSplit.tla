----------------------------- MODULE MCVicSplit -----------------------------
(* Instances of VicSplit for TLC. *)
EXTENDS VicSplit, TLC

Perms == Permutations(Vic)
=============================================================================
