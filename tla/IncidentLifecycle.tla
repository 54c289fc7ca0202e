------------------------- MODULE IncidentLifecycle -------------------------
(***************************************************************************)
(* What the incident service promises: every incident walks, one step at a *)
(* time and never back, from reported over investigating and resolved to   *)
(* closed, and the rectification measures it ends with are the ones        *)
(* submitted on the way from investigating to resolved.  Each operation    *)
(* is a single step here; Incidents is the code, where it takes a read and *)
(* a later write.                                                          *)
(***************************************************************************)
EXTENDS IncidentRows

VARIABLE incidents      \* the table

Fresh == [status |-> "reported", measures |-> NoText]

\* The walk: where an operation leads from, and to.
From == [assign |-> "reported", rectify |-> "investigating", close |-> "resolved"]
To == [assign |-> "investigating", rectify |-> "resolved", close |-> "closed"]

Successor(op, row, text) ==
    [status   |-> To[op],
     measures |-> IF op = "rectify" THEN text ELSE row.measures]

Init == incidents = SeedRows

Open(id) ==
    /\ id \notin DOMAIN incidents
    /\ incidents' = Inserted(incidents, id, Fresh)

Advance(id, op, text) ==
    /\ id \in DOMAIN incidents
    /\ incidents[id].status = From[op]
    /\ incidents' = [incidents EXCEPT ![id] = Successor(op, @, text)]

Next ==
    \/ \E id \in Ids : Open(id)
    \/ \E id \in Ids, op \in Ops, text \in Texts : Advance(id, op, text)

Spec == Init /\ [][Next]_incidents

=============================================================================
