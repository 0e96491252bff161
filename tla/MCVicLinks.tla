----------------------------- MODULE MCVicLinks -----------------------------
(* Instances of VicLinks for TLC. *)
EXTENDS VicLinks, TLC

Perms == Permutations(Vic) \cup Permutations(Name)
=============================================================================
