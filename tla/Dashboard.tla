----------------------------- MODULE Dashboard -----------------------------
(***************************************************************************)
(* One pool of request goroutines over the trainings and certifications,   *)
(* and the dashboard (DashboardService.Stats), whose figures are read one  *)
(* after the other while the tables change.  The one that is modelled is   *)
(* this month's completion rate: it reads the clock twice, for the year    *)
(* and for the month, and then counts the month's trainings and those of   *)
(* them with results in two statements.                                    *)
(*                                                                         *)
(* The field "began" is history.                                           *)
(***************************************************************************)
EXTENDS Trainings, Certifications, FiniteSets

CONSTANTS
    Viewers,        \* goroutines of requests for the dashboard
    Year,           \* months to a year
    MaxMonth        \* bound: the clock stops there

ASSUME ClockAssumption == Year \in Nat \ {0} /\ MaxMonth \in Nat /\ Year <= MaxMonth

VARIABLES
    month,          \* the clock, in months
    viewing         \* how far each viewer's figure is

vars == <<month, trainings, certs, req, viewing>>

Init ==
    /\ InitTrainings
    /\ InitCertifications
    /\ month = Year - 1
    /\ req = [w \in Workers |-> Idle]
    /\ viewing = [v \in Viewers |-> Idle]

MonthEnds ==
    /\ month < MaxMonth
    /\ month' = month + 1
    /\ UNCHANGED <<trainings, certs, req, viewing>>

GoOn(v, r) ==
    /\ viewing' = [viewing EXCEPT ![v] = r]
    /\ UNCHANGED <<month, trainings, certs, req>>

\* time.Date(time.Now().Year(), time.Now().Month(), 1, ...): first the year ...
ReadYear(v) ==
    /\ viewing[v] = Idle
    /\ GoOn(v, [op |-> "year", began |-> month, year |-> month \div Year])

\* A faulty variant: the month is read first, and the year behind it.
YearReadLast(r) == ((month \div Year) * Year) + (r.began % Year)

\* ... then the month, taken as one of that year.
StartOf(r) == (r.year * Year) + (month % Year)

ReadMonth(v) ==
    LET r == viewing[v] IN
    /\ r.op = "year"
    /\ GoOn(v, [op |-> "month", began |-> r.began, start |-> StartOf(r)])

OfMonth(m) == {id \in DOMAIN trainings : trainings[id].month = m}

CountAll(v) ==
    LET r == viewing[v] IN
    /\ r.op = "month"
    /\ GoOn(v, [op |-> "counted", began |-> r.began, start |-> r.start,
                total |-> Cardinality(OfMonth(r.start))])

\* A faulty variant: the trainings of all months.
DoneOfAll(m) == {id \in DOMAIN trainings : trainings[id].rate > 0}

DoneOf(m) == {id \in OfMonth(m) : trainings[id].rate > 0}

\* The rate is done / total * 100, or 0 when nothing was counted.
CountDone(v) ==
    LET r == viewing[v] IN
    /\ r.op = "counted"
    /\ GoOn(v, [op |-> "figure", began |-> r.began, start |-> r.start,
                total |-> r.total, done |-> Cardinality(DoneOf(r.start))])

\* The figure is sent, or any of the dashboard's statements failed: 500.
Answer(v) ==
    /\ viewing[v] # Idle
    /\ GoOn(v, Idle)

Next ==
    \/ MonthEnds
    \/ \E w \in Workers :
          \/ NextTrainings(w) /\ UNCHANGED <<month, certs, viewing>>
          \/ NextCertifications(w) /\ UNCHANGED <<month, trainings, viewing>>
          \/ Fails(w) /\ UNCHANGED <<month, trainings, certs, viewing>>
    \/ \E v \in Viewers :
          ReadYear(v) \/ ReadMonth(v) \/ CountAll(v) \/ CountDone(v) \/ Answer(v)

Spec == Init /\ [][Next]_vars

-----------------------------------------------------------------------------
(***************************************************************************)
(* The properties.                                                         *)
(***************************************************************************)

Figures ==
    LET Clock == 0 .. MaxMonth IN
    [op : {"year"}, began : Clock, year : Nat]
      \cup [op : {"month"}, began : Clock, start : Nat]
      \cup [op : {"counted"}, began : Clock, start : Nat, total : Nat]
      \cup [op : {"figure"}, began : Clock, start : Nat, total : Nat, done : Nat]

\* Types: a request that was let in leaves no row behind that the next one
\* could not read.
TypeOK ==
    /\ TrainingsTypeOK
    /\ CertsTypeOK
    /\ month \in 0 .. MaxMonth
    /\ req \in [Workers -> Records \cup Reviews \cup {Idle}]
    /\ viewing \in [Viewers -> Figures \cup {Idle}]

\* A viewer's two numbers, counted at two moments, never exceed the trainings
\* of the month that there are by now: a rate above 100 percent can only be
\* shown while trainings are being added.
FigureIsCovered ==
    \A v \in Viewers : viewing[v].op = "figure" =>
        /\ viewing[v].total <= Cardinality(OfMonth(viewing[v].start))
        /\ viewing[v].done <= Cardinality(OfMonth(viewing[v].start))

\* The month counted is one the request lived in, although the clock is read
\* twice; if a year ends between the two readings it is that month, of the year
\* before, and never one to come (SafetyTrainingRepository.CompletedRate).
MonthIsCurrent ==
    \A v \in Viewers : viewing[v].op \in {"month", "counted", "figure"} =>
        LET r == viewing[v] IN
        {r.start, r.start + Year} \cap (r.began .. month) # {}

-----------------------------------------------------------------------------
(***************************************************************************)
(* The inductive invariant (proved in DashboardProofs).                    *)
(***************************************************************************)

\* A training's month never changes, so that a row a request holds has it still.
HeldMonths ==
    \A w \in Workers : req[w].op = "record" =>
        /\ req[w].id \in DOMAIN trainings
        /\ req[w].seen.month = trainings[req[w].id].month

\* The first of the two counts, while the second is still to come.
CountIsCovered ==
    \A v \in Viewers : viewing[v].op = "counted" =>
        viewing[v].total <= Cardinality(OfMonth(viewing[v].start))

ClockIsAhead ==
    \A v \in Viewers : viewing[v] # Idle =>
        /\ viewing[v].began <= month
        /\ viewing[v].op = "year" => viewing[v].year = viewing[v].began \div Year

IInv ==
    /\ TypeOK
    /\ IsFiniteSet(DOMAIN trainings)
    /\ HeldMonths
    /\ CountIsCovered /\ FigureIsCovered
    /\ ClockIsAhead /\ MonthIsCurrent

=============================================================================
