------------------------- MODULE AtomicInspections -------------------------
(***************************************************************************)
(* What executing an inspection promises: one indivisible step turns a     *)
(* scheduled inspection into its verdict, and no second one follows.  The  *)
(* verdict is stated over the whole submitted list at once; Inspections is *)
(* the code, where a transaction works through the list entry by entry     *)
(* under a row lock.                                                       *)
(***************************************************************************)
EXTENDS InspectionRows

VARIABLES
    inspections,    \* the rows, by id
    items           \* the marks of each inspection's items, by id

avars == <<inspections, items>>

\* The entries that name one of the items.
Hits(rq, marks) == {k \in DOMAIN rq : rq[k].item \in DOMAIN marks}

\* The last mark submitted for an item counts; an item not named keeps its own.
IsLast(rq, k, i) ==
    /\ k \in DOMAIN rq
    /\ rq[k].item = i
    /\ \A j \in DOMAIN rq : rq[j].item = i => j <= k

IsMarked(rq, old, new) ==
    \A i \in DOMAIN old :
        /\ \A k \in DOMAIN rq : IsLast(rq, k, i) => new[i] = rq[k].passed
        /\ (\A k \in DOMAIN rq : rq[k].item # i) => new[i] = old[i]

\* Submitted marks are counted, not items: one named twice counts twice.  If
\* no entry names an item, the marks the items already have are counted.
Count(rq, marks, mark) ==
    IF Hits(rq, marks) = {}
      THEN Cardinality({i \in DOMAIN marks : marks[i] = mark})
      ELSE Cardinality({k \in Hits(rq, marks) : rq[k].passed = mark})

Verdict(rq, marks) ==
    LET passed == Count(rq, marks, TRUE)
        issues == Count(rq, marks, FALSE)
    IN  [status |-> IF issues = 0 THEN "completed" ELSE "failed",
         passed |-> passed,
         issues |-> issues,
         score  |-> Score(passed, passed + issues)]

Init ==
    /\ inspections = [id \in {} |-> {}]
    /\ items = [id \in {} |-> {}]

Plan(id, marks) ==
    /\ id \notin DOMAIN inspections
    /\ inspections' = [i \in DOMAIN inspections \cup {id} |->
          IF i = id THEN Planned ELSE inspections[i]]
    /\ items' = [i \in DOMAIN inspections \cup {id} |-> IF i = id THEN marks ELSE items[i]]

Decide(id, rq, marks) ==
    /\ id \in DOMAIN inspections
    /\ inspections[id].status \in {"scheduled", "in_progress"}
    /\ IsMarked(rq, items[id], marks)
    /\ inspections' = [inspections EXCEPT ![id] = Verdict(rq, items[id])]
    /\ items' = [items EXCEPT ![id] = marks]

Next ==
    \E id \in Inspections : \E marks \in [ItemsOf[id] -> BOOLEAN] :
        \/ Plan(id, marks)
        \/ \E rq \in Requests : Decide(id, rq, marks)

Spec == Init /\ [][Next]_avars

=============================================================================
