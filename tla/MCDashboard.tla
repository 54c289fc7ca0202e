---------------------------- MODULE MCDashboard ----------------------------
(***************************************************************************)
(* Instances of Dashboard for TLC.                                         *)
(***************************************************************************)
EXTENDS Dashboard, TLC

CONSTANTS t1, t2, w1, w2

Symmetry == Permutations(Trainings) \cup Permutations(Workers)

=============================================================================
