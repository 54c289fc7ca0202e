---------------------------- MODULE Inspections ----------------------------
(***************************************************************************)
(* SafetyInspectionService over MySQL.  Execute runs in a transaction that *)
(* locks the inspection's row (SELECT ... FOR UPDATE), checks its status,  *)
(* reads its items, updates them one by one from the submitted list while  *)
(* counting, and ends by writing counts, score and status.  What the       *)
(* transaction writes is visible to nobody until it commits.  Reports read *)
(* the row and the items in two statements, without a transaction.         *)
(*                                                                         *)
(* "executed" is a history variable: the list that led to each verdict.    *)
(***************************************************************************)
EXTENDS InspectionRows

CONSTANTS
    Workers,        \* request goroutines, each with a database connection
    NoOne           \* the owner of a free row lock

ASSUME NoOneAssumption == NoOne \notin Workers

VARIABLES
    inspections,    \* committed rows, by id
    items,          \* committed marks of each inspection's items, by id
    lock,           \* the worker holding each inspection's row lock
    pc,             \* where each worker is
    tx,             \* what each worker's transaction or report has at hand
    executed        \* history: the list each verdict was computed from

vars == <<inspections, items, lock, pc, tx, executed>>

Marks(id) == [ItemsOf[id] -> BOOLEAN]

Nothing == [id |-> NoOne]

Init ==
    /\ inspections = [id \in {} |-> {}]
    /\ items = [id \in {} |-> {}]
    /\ lock = [id \in Inspections |-> NoOne]
    /\ pc = [w \in Workers |-> "idle"]
    /\ tx = [w \in Workers |-> Nothing]
    /\ executed = [id \in {} |-> {}]

Goto(w, place) == pc' = [pc EXCEPT ![w] = place]

\* The request is answered.
Done(w) == Goto(w, "idle") /\ tx' = [tx EXCEPT ![w] = Nothing]

Release(w) == lock' = [id \in Inspections |-> IF lock[id] = w THEN NoOne ELSE lock[id]]

\* Create inserts the row and its items in one transaction, after looking up
\* the inspector; the client may give marks to begin with.
Create(w, id, marks) ==
    /\ pc[w] = "idle"
    /\ id \notin DOMAIN inspections
    /\ inspections' = [i \in DOMAIN inspections \cup {id} |->
                          IF i = id THEN Planned ELSE inspections[i]]
    /\ items' = [i \in DOMAIN inspections \cup {id} |-> IF i = id THEN marks ELSE items[i]]
    /\ UNCHANGED <<lock, pc, tx, executed>>

\* A client submits a list; the transaction asks for the row lock.
Execute(w, id, rq) ==
    /\ pc[w] = "idle"
    /\ Goto(w, "locking")
    /\ tx' = [tx EXCEPT ![w] = [id |-> id, rq |-> rq]]
    /\ UNCHANGED <<inspections, items, lock, executed>>

IsOpen(id) == inspections[id].status \in {"scheduled", "in_progress"}

\* FindByIDForUpdate, the status check and the list of items.  A missing row
\* or a verdict that is already there ends the transaction (500 and 409).
LockAndList(w, free) ==
    LET id == tx[w].id IN
    /\ pc[w] = "locking"
    /\ free
    /\ IF id \in DOMAIN inspections /\ IsOpen(id)
         THEN /\ lock' = [lock EXCEPT ![id] = w]
              /\ tx' = [tx EXCEPT ![w] =
                          [id |-> id, rq |-> tx[w].rq, next |-> 1,
                           marks |-> items[id], passed |-> 0, issues |-> 0]]
              /\ Goto(w, "marking")
         ELSE Done(w) /\ UNCHANGED lock
    /\ UNCHANGED <<inspections, items, executed>>

AcquireUnlocked(w) == LockAndList(w, TRUE)
Acquire(w) == LockAndList(w, lock[tx[w].id] = NoOne)

\* A faulty variant: a request waits for its row lock without a limit.
LockFailsNever(w) == FALSE

\* The SELECT ... FOR UPDATE fails, at the latest by innodb_lock_wait_timeout:
\* answered 500.
LockFails(w) ==
    /\ pc[w] = "locking"
    /\ Done(w)
    /\ UNCHANGED <<inspections, items, lock, executed>>

\* One turn of the loop over the submitted list: an entry that names none of
\* the inspection's items is passed over, any other updates its item and is
\* counted.
MarkItem(w) ==
    LET t == tx[w]
        e == t.rq[t.next]
    IN
    /\ pc[w] = "marking"
    /\ t.next <= Len(t.rq)
    /\ tx' = [tx EXCEPT ![w] =
          IF e.item \notin DOMAIN t.marks THEN [t EXCEPT !.next = @ + 1]
          ELSE [t EXCEPT !.next = @ + 1,
                         !.marks[e.item] = e.passed,
                         !.passed = @ + (IF e.passed THEN 1 ELSE 0),
                         !.issues = @ + (IF e.passed THEN 0 ELSE 1)]]
    /\ UNCHANGED <<inspections, items, lock, pc, executed>>

Marked(marks, mark) == Cardinality({i \in DOMAIN marks : marks[i] = mark})

\* A faulty variant: the marks the items already have are not looked at.
CountsOfList(t) == <<t.passed, t.issues>>

\* The counts of the list or, when nothing in it counted, of the items.
Counts(t) ==
    IF t.passed = 0 /\ t.issues = 0
      THEN <<Marked(t.marks, TRUE), Marked(t.marks, FALSE)>>
      ELSE <<t.passed, t.issues>>

\* A faulty variant: the score decides, and rounds.
VerdictByScore(passed, issues) ==
    LET score == Score(passed, passed + issues) IN
    [status |-> IF score >= 50 THEN "completed" ELSE "failed",
     passed |-> passed, issues |-> issues, score |-> score]

Verdict(passed, issues) ==
    [status |-> IF issues = 0 THEN "completed" ELSE "failed",
     passed |-> passed, issues |-> issues, score |-> Score(passed, passed + issues)]

\* The row is saved and the transaction commits.
Finish(w) ==
    LET t == tx[w]
        c == Counts(t)
    IN
    /\ pc[w] = "marking"
    /\ t.next > Len(t.rq)
    /\ inspections' = [inspections EXCEPT ![t.id] = Verdict(c[1], c[2])]
    /\ items' = [items EXCEPT ![t.id] = t.marks]
    /\ executed' = [id \in DOMAIN executed \cup {t.id} |->
                        IF id = t.id THEN t.rq ELSE executed[id]]
    /\ Release(w)
    /\ Done(w)

\* A later statement of the transaction, or of a report, fails; everything the
\* transaction wrote is rolled back.
Abort(w) ==
    /\ pc[w] \in {"marking", "reading"}
    /\ Release(w)
    /\ Done(w)
    /\ UNCHANGED <<inspections, items, executed>>

\* GetWithItems, behind the detail view and the report: first the row ...
ReadRow(w, id) ==
    /\ pc[w] = "idle"
    /\ id \in DOMAIN inspections
    /\ tx' = [tx EXCEPT ![w] = [id |-> id, row |-> inspections[id]]]
    /\ Goto(w, "reading")
    /\ UNCHANGED <<inspections, items, lock, executed>>

\* ... and then the items; the answer is sent as it stands.
ReadItems(w) ==
    /\ pc[w] = "reading"
    /\ tx' = [tx EXCEPT ![w] =
                [id |-> tx[w].id, row |-> tx[w].row, marks |-> items[tx[w].id]]]
    /\ Goto(w, "reported")
    /\ UNCHANGED <<inspections, items, lock, executed>>

SendReport(w) ==
    /\ pc[w] = "reported"
    /\ Done(w)
    /\ UNCHANGED <<inspections, items, lock, executed>>

\* The server process ends; the database rolls open transactions back.
Crash ==
    /\ lock' = [id \in Inspections |-> NoOne]
    /\ pc' = [w \in Workers |-> "idle"]
    /\ tx' = [w \in Workers |-> Nothing]
    /\ UNCHANGED <<inspections, items, executed>>

\* What a request already under way does next.
Proceed(w) ==
    \/ Acquire(w) \/ LockFails(w) \/ MarkItem(w) \/ Finish(w) \/ Abort(w)
    \/ ReadItems(w) \/ SendReport(w)

Next ==
    \/ \E w \in Workers :
          \/ Proceed(w)
          \/ \E id \in Inspections :
                \/ ReadRow(w, id)
                \/ \E marks \in Marks(id) : Create(w, id, marks)
                \/ \E rq \in Requests : Execute(w, id, rq)
    \/ Crash

Spec == Init /\ [][Next]_vars

\* Goroutines are scheduled, and every statement returns: with its result,
\* with an error, or with the lock wait timeout.
FairSpec == Spec /\ \A w \in Workers : WF_vars(Proceed(w))

-----------------------------------------------------------------------------
(***************************************************************************)
(* The properties.                                                         *)
(***************************************************************************)

\* What a worker has at hand: nothing, a submitted list, a transaction with
\* the entry to look at next and the items as it sees them, or half a report.
TxOK(place, t) ==
    /\ place = "idle" => t = Nothing
    /\ place = "locking" => t \in [id : Inspections, rq : Requests]
    /\ place = "marking" =>
          /\ t.id \in Inspections
          /\ t \in [id : {t.id}, rq : Requests, next : Nat \ {0},
                    marks : Marks(t.id), passed : Nat, issues : Nat]
    /\ place = "reading" => t \in [id : DOMAIN inspections, row : Rows]
    /\ place = "reported" =>
          /\ t.id \in DOMAIN inspections
          /\ t \in [id : {t.id}, row : Rows, marks : Marks(t.id)]

\* Types: tables and history are functions from the same ids.
TypeOK ==
    /\ DOMAIN inspections \subseteq Inspections
    /\ inspections \in [DOMAIN inspections -> Rows]
    /\ DOMAIN items = DOMAIN inspections
    /\ \A id \in DOMAIN items : items[id] \in Marks(id)
    /\ DOMAIN executed \subseteq DOMAIN inspections
    /\ \A id \in DOMAIN executed : executed[id] \in Requests
    /\ lock \in [Inspections -> Workers \cup {NoOne}]
    /\ pc \in [Workers -> {"idle", "locking", "marking", "reading", "reported"}]
    /\ DOMAIN tx = Workers /\ \A w \in Workers : TxOK(pc[w], tx[w])

IsFinal(row) == row.status \in {"completed", "failed"}

VerdictsKept ==
    \A id \in DOMAIN inspections : IsFinal(inspections[id]) =>
        inspections'[id] = inspections[id] /\ items'[id] = items[id]

\* A verdict is reached once: whatever lists are submitted at the same time,
\* neither the row nor an item changes after it (the row lock of
\* safety_inspection_service.go 65 against the status check of 69).
VerdictIsFinal == [][VerdictsKept]_vars

\* The loop of the transaction computes what AtomicInspections says of the
\* whole list, in one visible step.
Atomic == INSTANCE AtomicInspections
ImplementsAtomic == Atomic!Spec

\* A list that names each item of the inspection once, and nothing else.
IsExact(rq, marks) ==
    /\ \A k \in DOMAIN rq : rq[k].item \in DOMAIN marks
    /\ \A i \in DOMAIN marks : \E k \in DOMAIN rq : rq[k].item = i
    /\ \A j, k \in DOMAIN rq : rq[j].item = rq[k].item => j = k

IsExplained(row, marks) ==
    LET good == Marked(marks, TRUE) IN
    /\ row.status = "completed" <=> \A i \in DOMAIN marks : marks[i]
    /\ row.score = 100 <=> row.status = "completed" /\ DOMAIN marks # {}
    /\ row.passed = good /\ row.issues = Cardinality(DOMAIN marks) - good

\* A list that names each item of the inspection once, and nothing else - what
\* the web page sends - leads to a verdict that its items explain: completed
\* exactly if every item passed, scored 100 exactly then (if there is an item
\* at all), and counts that are those of the items.
ExactListIsExplained ==
    \A id \in DOMAIN executed : IsExact(executed[id], items[id]) =>
        IsExplained(inspections[id], items[id])

\* A report that shows a verdict shows the items of that verdict, although it
\* is read in two statements: the row is read first, and is final.
FinalReportIsConsistent ==
    \A w \in Workers : pc[w] = "reported" /\ IsFinal(tx[w].row) =>
        /\ tx[w].row = inspections[tx[w].id]
        /\ tx[w].marks = items[tx[w].id]

\* A row lock is held by the one transaction that works on the row.
LockIsOwned ==
    \A id \in Inspections, w \in Workers :
        lock[id] = w <=> pc[w] = "marking" /\ tx[w].id = id

\* The inductive invariant behind them: a transaction that marks items works on
\* an open inspection whose lock it holds, and after next - 1 entries its counts
\* and marks are those of the entries it has passed ...
Seen(t) == 1 .. t.next - 1

Counted(t, mark) ==
    {k \in Seen(t) : t.rq[k].item \in ItemsOf[t.id] /\ t.rq[k].passed = mark}

MarksFollow(t, old) ==
    \A i \in ItemsOf[t.id] :
        /\ \A k \in Seen(t) :
              t.rq[k].item = i /\ (\A j \in Seen(t) : t.rq[j].item = i => j <= k)
                => t.marks[i] = t.rq[k].passed
        /\ (\A k \in Seen(t) : t.rq[k].item # i) => t.marks[i] = old[i]

LoopInv(t) ==
    /\ t.id \in DOMAIN inspections /\ IsOpen(t.id)
    /\ t.next <= Len(t.rq) + 1
    /\ t.passed = Cardinality(Counted(t, TRUE))
    /\ t.issues = Cardinality(Counted(t, FALSE))
    /\ MarksFollow(t, items[t.id])

\* ... and a report that began with a verdict holds that verdict.
ReportInv(place, t) ==
    /\ place \in {"reading", "reported"} /\ IsFinal(t.row) => t.row = inspections[t.id]
    /\ place = "reported" /\ IsFinal(t.row) => t.marks = items[t.id]

IInv ==
    /\ TypeOK
    /\ LockIsOwned
    /\ \A w \in Workers : pc[w] = "marking" => LoopInv(tx[w])
    /\ \A w \in Workers : ReportInv(pc[w], tx[w])

\* Every request is answered in the end; a waiting one at the latest by the
\* lock wait timeout.
RequestsAreAnswered == \A w \in Workers : pc[w] # "idle" ~> pc[w] = "idle"

=============================================================================
