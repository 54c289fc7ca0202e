--------------------------- MODULE Certifications ---------------------------
(***************************************************************************)
(* WorkerCertificationService with its handler and repository: a            *)
(* certification is submitted as pending and then approved or rejected.    *)
(***************************************************************************)
EXTENDS RowRequests

CONSTANTS
    Certs       \* primary keys

VARIABLES
    certs       \* the column status of worker_certifications, by id

Decisions == {"approved", "rejected"}

\* "expired" exists as a constant and is never assigned.
CertStatuses == {"pending", "expired"} \cup Decisions

InitCertifications == certs = [id \in {} |-> {}]

\* One INSERT, after a look at the holder, who is a user: users are never
\* deleted.  A request for somebody else is answered 500 and changes nothing.
Submit(w, id) ==
    /\ IsIdle(w)
    /\ id \notin DOMAIN certs
    /\ certs' = [i \in DOMAIN certs \cup {id} |-> IF i = id THEN "pending" ELSE certs[i]]
    /\ UNCHANGED req

\* A faulty variant: what was decided before is not looked at.
IsReviewableAlways(id) == TRUE

IsReviewable(id) == certs[id] = "pending"

\* Review, up to the UPDATE; any other status is answered 409.
Review(w, id, decision) ==
    /\ IsIdle(w)
    /\ id \in DOMAIN certs
    /\ IsReviewable(id)
    /\ Hold(w, [op |-> "review", id |-> id, decision |-> decision])
    /\ UNCHANGED certs

\* The UPDATE.  Of the columns, only the status was ever changed.
SaveReview(w) ==
    /\ req[w].op = "review"
    /\ certs' = [certs EXCEPT ![req[w].id] = req[w].decision]
    /\ Drop(w)

NextCertifications(w) ==
    \/ \E id \in Certs : Submit(w, id)
    \/ \E id \in Certs, decision \in Decisions : Review(w, id, decision)
    \/ SaveReview(w)

-----------------------------------------------------------------------------
(***************************************************************************)
(* The properties.                                                         *)
(***************************************************************************)

Reviews == [op : {"review"}, id : Certs, decision : Decisions]

\* Types: a review carries one of the two decisions that a row can hold.
CertsTypeOK ==
    /\ DOMAIN certs \subseteq Certs
    /\ certs \in [DOMAIN certs -> CertStatuses]

DecidedAtRest(id) ==
    /\ certs[id] # "pending"
    /\ \A w \in Workers : req[w].op = "review" => req[w].id # id

\* Once a certification is decided and no reviewer is left who read it as
\* pending, the decision stands: until then a second reviewer who got past
\* the check (worker_certification_service.go 51) turns it over.
DecisionsStand ==
    [][\A id \in DOMAIN certs :
          DecidedAtRest(id) => DecidedAtRest(id)' /\ certs'[id] = certs[id]]_<<certs, req>>

=============================================================================
