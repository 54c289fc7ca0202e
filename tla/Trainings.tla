----------------------------- MODULE Trainings -----------------------------
(***************************************************************************)
(* SafetyTrainingService with its handler and repository: a training is    *)
(* created, and later its participants and its pass rate are recorded.     *)
(***************************************************************************)
EXTENDS Naturals, RowRequests

CONSTANTS
    Trainings,      \* primary keys
    Months,         \* the months training dates are in
    Lists,          \* lists of participants, the empty one included
    Absent,         \* the list of a request that sends none
    Rates           \* pass rates above zero

ASSUME TrainingsAssumption ==
    /\ Months \subseteq Nat
    /\ Absent \notin Lists
    /\ Rates \subseteq 1 .. 100

VARIABLES
    trainings       \* the table safety_trainings, by id

\* pass_rate is 0 from the start: no results yet.
TrainingRows == [month : Months, list : Lists, rate : Rates \cup {0}]

\* The table as AutoMigrate makes it; presets are rows like those of Create.
InitTrainings == trainings = [id \in {} |-> {}]

Store(id, row) ==
    trainings' = [i \in DOMAIN trainings \cup {id} |-> IF i = id THEN row ELSE trainings[i]]

Created(m, list) == [month |-> m, list |-> list, rate |-> 0]

\* One INSERT.  One that fails changes nothing, or this: only its answer differs.
Create(w, id, m, list) ==
    /\ IsIdle(w)
    /\ id \notin DOMAIN trainings
    /\ Store(id, Created(m, list))
    /\ UNCHANGED req

\* Record, up to the UPDATE; a missing training is answered 500.  A field that
\* is left out of the request arrives as no list, and as the rate 0.
Record(w, id, list, rate) ==
    /\ IsIdle(w)
    /\ id \in DOMAIN trainings
    /\ Hold(w, [op |-> "record", id |-> id, seen |-> trainings[id], list |-> list, rate |-> rate])
    /\ UNCHANGED trainings

\* A faulty variant: the list is taken as it comes.
EditedAlways(r) == [r.seen EXCEPT !.list = r.list, !.rate = r.rate]

\* participantIDs != nil; passRate >= 0, which the request's binding ensures.
Edited(r) ==
    [r.seen EXCEPT !.list = IF r.list = Absent THEN @ ELSE r.list, !.rate = r.rate]

SaveRecord(w) ==
    /\ req[w].op = "record"
    /\ Store(req[w].id, Edited(req[w]))
    /\ Drop(w)

NextTrainings(w) ==
    \/ \E id \in Trainings, m \in Months, list \in Lists : Create(w, id, m, list)
    \/ \E id \in Trainings, list \in Lists \cup {Absent}, rate \in Rates \cup {0} :
          Record(w, id, list, rate)
    \/ SaveRecord(w)

-----------------------------------------------------------------------------
(***************************************************************************)
(* The properties.                                                         *)
(***************************************************************************)

Records == [op : {"record"}, id : Trainings, seen : TrainingRows,
            list : Lists \cup {Absent}, rate : Rates \cup {0}]

\* Types: what a request read and sends is a row and a list of the table.
TrainingsTypeOK ==
    /\ DOMAIN trainings \subseteq Trainings
    /\ trainings \in [DOMAIN trainings -> TrainingRows]

Recording(w, id) == req[w].op = "record" /\ req[w].id = id

\* No request on a training holds a list that the table has no more.
AreFresh(id) ==
    \A w \in Workers : Recording(w, id) => req[w].seen.list = trainings[id].list

\* Recording a pass rate does not cost the list of participants, although
\* whole rows are written: a list gives way only to one that was sent, or to
\* an older one when a request was overtaken.
ListsAreKept ==
    [][\A id \in DOMAIN trainings :
          AreFresh(id) /\ trainings'[id].list # trainings[id].list =>
              \E w \in Workers : /\ Recording(w, id)
                                 /\ req[w].list # Absent
                                 /\ trainings'[id].list = req[w].list]_<<trainings, req>>

=============================================================================
