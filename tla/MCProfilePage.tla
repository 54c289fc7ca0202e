---------------------------- MODULE MCProfilePage ----------------------------
(* An instance of ProfilePage for TLC. *)
EXTENDS ProfilePage, TLC

MCSymmetry == Permutations(Users) \union Permutations(Names)
=============================================================================
