--------------------------- MODULE InspectionRows ---------------------------
(***************************************************************************)
(* The tables safety_inspections and inspection_items, the requests that   *)
(* execute an inspection, and the percentage they are scored with.  Shared *)
(* by the promise (AtomicInspections) and the code (Inspections).          *)
(***************************************************************************)
EXTENDS Integers, Sequences, FiniteSets

CONSTANTS
    Inspections,    \* primary keys of inspections
    ItemsOf,        \* the item ids the database gives to each inspection's plan
    Strangers,      \* item ids that exist nowhere
    Requests,       \* the item lists clients submit
    FloatShort      \* <<p, t>> whose double quotient p/t falls short, see Score

Items == UNION {ItemsOf[id] : id \in Inspections}

\* A submitted entry marks an item - perhaps one of another inspection, or one
\* that does not exist, and perhaps not for the first time.
Entries == [item : Items \cup Strangers, passed : BOOLEAN]

ASSUME RequestsAssumption ==
    /\ \A id \in Inspections : IsFiniteSet(ItemsOf[id])
    /\ \A rq \in Requests : rq \in Seq(Entries)

\* in_progress is a status the service accepts and nothing ever assigns.
Statuses == {"scheduled", "in_progress", "completed", "failed"}

Rows == [status : Statuses, passed : Nat, issues : Nat, score : 0..100]

Planned == [status |-> "scheduled", passed |-> 0, issues |-> 0, score |-> 0]

\* int(float64(passed) / float64(total) * 100): the quotient, times 100, cut
\* to an integer.  Where passed/total is an exact percentage but not a double,
\* the product can fall just under it and the cut loses a point; of the totals
\* up to 100 this happens to 29/50, 29/100, 57/100 and 58/100.
ASSUME FloatShortAssumption ==
    \A f \in FloatShort :
        f[1] \in Nat /\ f[2] \in Nat /\ 0 < f[1] /\ f[1] < f[2] /\ f[2] <= 100 * f[1]

\* A faulty variant: the score in thousandths.
ScorePermille(passed, total) == IF total = 0 THEN 0 ELSE (1000 * passed) \div total

Score(passed, total) ==
    IF total = 0 THEN 0
    ELSE (100 * passed) \div total - (IF <<passed, total>> \in FloatShort THEN 1 ELSE 0)

=============================================================================
