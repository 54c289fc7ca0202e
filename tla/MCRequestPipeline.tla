------------------------- MODULE MCRequestPipeline -------------------------
(***************************************************************************)
(* Instances of RequestPipeline for TLC: an administrator and a worker.    *)
(***************************************************************************)
EXTENDS RequestPipeline, TLC

CONSTANTS ann, will

MCRoleOf == ann :> "admin" @@ will :> "worker"

=============================================================================
