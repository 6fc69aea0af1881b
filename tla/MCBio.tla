------------------------------- MODULE MCBio -------------------------------
(* Instances of Bio for TLC. *)
EXTENDS BioInv, TLC

Perms == Permutations(Proc) \cup Permutations(Block) \cup Permutations(Val)
=============================================================================
