---------------------------- MODULE MCIncidents ----------------------------
(***************************************************************************)
(* Instances of Incidents for TLC: one incident the seed service wrote as  *)
(* resolved, without measures, the other one reported through the API.        *)
(***************************************************************************)
EXTENDS Incidents, TLC

CONSTANTS seeded, fresh, w1, w2, w3

MCSeedRows == seeded :> [status |-> "resolved", measures |-> NoText]

WorkerSymmetry == Permutations(Workers)

=============================================================================
