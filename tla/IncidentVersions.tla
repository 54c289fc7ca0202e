-------------------------- MODULE IncidentVersions --------------------------
(***************************************************************************)
(* What remains of the lifecycle when requests overlap.  Beside the row    *)
(* each incident has now, "versions" holds every row it ever had.  A       *)
(* transition may start from ANY of those versions - a request that was    *)
(* overtaken writes the successor of the row it once read - but it starts  *)
(* from a version that really existed, in the status the operation asks    *)
(* for, and it installs that version's successor as a whole.               *)
(*                                                                         *)
(* So an incident is never closed unless it was resolved with the very     *)
(* measures it is closed with, whatever the interleaving; what is lost is  *)
(* only that the walk does not go back.                                    *)
(***************************************************************************)
EXTENDS IncidentRows

VARIABLES incidents,    \* the table
          versions      \* every row an incident has had, by id

L == INSTANCE IncidentLifecycle

vvars == <<incidents, versions>>

Init ==
    /\ L!Init
    /\ versions = [id \in Ids |->
                     IF id \in DOMAIN SeedRows THEN {SeedRows[id]} ELSE {}]

Open(id) ==
    /\ L!Open(id)
    /\ versions' = [versions EXCEPT ![id] = @ \cup {L!Fresh}]

AdvanceFrom(old, id, op, text) ==
    LET new == L!Successor(op, old, text) IN
    /\ id \in DOMAIN incidents
    /\ old.status = L!From[op]
    /\ incidents' = [incidents EXCEPT ![id] = new]
    /\ versions' = [versions EXCEPT ![id] = @ \cup {new}]

Next ==
    \/ \E id \in Ids : Open(id)
    \/ \E id \in Ids, op \in Ops, text \in Texts :
          \E old \in versions[id] : AdvanceFrom(old, id, op, text)

Spec == Init /\ [][Next]_vvars

=============================================================================
