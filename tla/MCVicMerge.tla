----------------------------- MODULE MCVicMerge -----------------------------
(* Instances of VicMerge for TLC. *)
EXTENDS VicMerge, TLC

Perms == Permutations(Vic)
=============================================================================
