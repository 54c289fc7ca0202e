---------------------------- MODULE MCLists ----------------------------
(* An instance of Lists for TLC. *)
EXTENDS Lists
=============================================================================
