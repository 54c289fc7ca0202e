----------------------------- MODULE MCAccounts -----------------------------
(***************************************************************************)
(* Instances of Accounts for TLC.                                          *)
(***************************************************************************)
EXTENDS Accounts, TLC

CONSTANTS w1, w2, p1, p2, id1, id2

Symmetry == Permutations(Workers) \cup Permutations(Phones) \cup Permutations(Ids)

=============================================================================
