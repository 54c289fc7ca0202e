--------------------------- MODULE MCRateLimiter ---------------------------
(***************************************************************************)
(* Instances of RateLimiter for TLC.                                       *)
(***************************************************************************)
EXTENDS RateLimiter, TLC

CONSTANTS alice, bob, w1, w2

Symmetry == Permutations(Clients) \cup Permutations(Workers)

=============================================================================
