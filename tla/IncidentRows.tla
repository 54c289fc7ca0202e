---------------------------- MODULE IncidentRows ----------------------------
(***************************************************************************)
(* The safety_incidents table: its constants and the shape of its rows,    *)
(* shared by the promise (IncidentLifecycle), its weaker form under        *)
(* overlapping requests (IncidentVersions) and the code (Incidents).       *)
(***************************************************************************)

CONSTANTS
    Ids,        \* incident primary keys
    Texts,      \* rectification measures a manager may submit (never empty)
    NoText,     \* the empty rectification_measures of a fresh incident
    SeedRows    \* the incidents the seed service wrote, by id

ASSUME TextsAssumption == Texts # {} /\ NoText \notin Texts

Statuses == {"reported", "investigating", "resolved", "closed"}

Ops == {"assign", "rectify", "close"}

\* A row, reduced to the columns a transition reads or writes.  "measures"
\* stands for rectification_measures and rectification_deadline, which the
\* code always assigns together.
Rows == [status : Statuses, measures : Texts \cup {NoText}]

\* Tables are partial functions from ids to rows.
IsTable(t) == DOMAIN t \subseteq Ids /\ t \in [DOMAIN t -> Rows]

ASSUME SeedAssumption == IsTable(SeedRows)

\* A table with one more row.
Inserted(table, id, row) ==
    [i \in DOMAIN table \cup {id} |-> IF i = id THEN row ELSE table[i]]

=============================================================================
