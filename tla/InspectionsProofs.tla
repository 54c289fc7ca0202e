------------------------- MODULE InspectionsProofs -------------------------
(***************************************************************************)
(* Proofs about Inspections for any workers, inspections, items and lists: *)
(* the inductive invariant of lock and loop, the finality of verdicts, the *)
(* consistency of final reports, the refinement of AtomicInspections, and  *)
(* what a list with one entry for each item makes of the verdict.          *)
(***************************************************************************)
EXTENDS Inspections, TLAPS, FiniteSetTheorems

\* A score is a percentage.
LEMMA ScoreInRange ==
    ASSUME NEW passed \in Nat, NEW issues \in Nat
    PROVE  Score(passed, passed + issues) \in 0..100
<1> DEFINE total == passed + issues
           q == (100 * passed) \div total
<1>1. CASE total = 0
  BY <1>1 DEF Score
<1>2. CASE total # 0
  <2>1. q \in 0..100
    BY <1>2, SMT
  <2>2. CASE <<passed, total>> \in FloatShort
    <3>1. total <= 100 * passed
      BY <2>2, FloatShortAssumption
    <3>2. q >= 1
      BY <1>2, <3>1, SMT
    <3> QED BY <1>2, <2>1, <2>2, <3>2 DEF Score
  <2>3. CASE <<passed, total>> \notin FloatShort
    BY <1>2, <2>1, <2>3 DEF Score
  <2> QED BY <2>2, <2>3
<1> QED BY <1>1, <1>2

\* A verdict is a row.
LEMMA VerdictIsRow ==
    ASSUME NEW passed \in Nat, NEW issues \in Nat
    PROVE  Verdict(passed, issues) \in Rows /\ IsFinal(Verdict(passed, issues))
  BY ScoreInRange DEF Verdict, Rows, Statuses, IsFinal

\* The marks of an inspection can be counted.
LEMMA MarkedIsCounted ==
    ASSUME NEW id \in Inspections, NEW marks \in Marks(id), NEW mark
    PROVE  IsFiniteSet({i \in DOMAIN marks : marks[i] = mark}) /\ Marked(marks, mark) \in Nat
<1>1. IsFiniteSet(DOMAIN marks)
  BY RequestsAssumption DEF Marks
<1>2. IsFiniteSet({i \in DOMAIN marks : marks[i] = mark})
  BY <1>1, FS_Subset
<1> QED BY <1>2, FS_CardinalityType DEF Marked

\* So can the entries a transaction has passed.
LEMMA CountedIsFinite ==
    ASSUME NEW t, t.next \in Nat \ {0}, NEW mark
    PROVE  IsFiniteSet(Counted(t, mark)) /\ Cardinality(Counted(t, mark)) \in Nat
<1>1. IsFiniteSet(Seen(t))
  BY FS_Interval DEF Seen
<1>2. IsFiniteSet(Counted(t, mark))
  BY <1>1, FS_Subset DEF Counted
<1> QED BY <1>2, FS_CardinalityType

-----------------------------------------------------------------------------
(***************************************************************************)
(* The inductive invariant, one lemma per kind of step.                    *)
(***************************************************************************)

\* Nothing is planned, locked or under way.
LEMMA InitIInv == Init => IInv
<1> SUFFICES ASSUME Init PROVE IInv
  OBVIOUS
<1> USE DEF Init
<1>1. TypeOK
  BY DEF TypeOK, TxOK, Nothing
<1>2. LockIsOwned
  BY NoOneAssumption DEF LockIsOwned
<1>3. \A w \in Workers : (pc[w] = "marking" => LoopInv(tx[w])) /\ ReportInv(pc[w], tx[w])
  BY DEF ReportInv
<1> QED BY <1>1, <1>2, <1>3 DEF IInv

\* Planning an inspection adds a row and touches no other.
LEMMA CreateIInv ==
    ASSUME IInv, NEW w \in Workers, NEW id \in Inspections, NEW marks \in Marks(id),
           Create(w, id, marks)
    PROVE  IInv'
<1> USE DEF Create
<1>0. /\ DOMAIN inspections' = DOMAIN inspections \cup {id}
      /\ DOMAIN items' = DOMAIN inspections'
      /\ inspections'[id] = Planned /\ items'[id] = marks
      /\ \A i \in DOMAIN inspections : inspections'[i] = inspections[i] /\ items'[i] = items[i]
  BY DEF IInv, TypeOK
<1>1. TypeOK'
  <2>1. Planned \in Rows
    BY DEF Planned, Rows, Statuses
  <2>2. ASSUME NEW v \in Workers PROVE TxOK(pc[v], tx[v])'
    BY <1>0, <2>2 DEF IInv, TypeOK, TxOK
  <2>3. inspections' \in [DOMAIN inspections' -> Rows]
    BY <1>0, <2>1 DEF IInv, TypeOK
  <2>4. \A i \in DOMAIN items' : items'[i] \in Marks(i)
    BY <1>0 DEF IInv, TypeOK
  <2> QED BY <1>0, <2>2, <2>3, <2>4 DEF IInv, TypeOK
<1>2. LockIsOwned'
  BY DEF IInv, LockIsOwned
<1>3. ASSUME NEW v \in Workers, pc[v] = "marking" PROVE LoopInv(tx[v])'
  BY <1>0, <1>3 DEF IInv, LoopInv, IsOpen
<1>4. ASSUME NEW v \in Workers PROVE ReportInv(pc[v], tx[v])'
  BY <1>0, <1>4 DEF IInv, TypeOK, TxOK, ReportInv
<1> QED BY <1>1, <1>2, <1>3, <1>4 DEF IInv

\* A step of one worker that leaves the tables and the lock alone.
LEMMA PrivateIInv ==
    ASSUME IInv, NEW w \in Workers, NEW place, NEW t,
           UNCHANGED <<inspections, items, lock, executed>>,
           pc' = [pc EXCEPT ![w] = place], tx' = [tx EXCEPT ![w] = t],
           place \in {"idle", "locking", "marking", "reading", "reported"},
           TxOK(place, t), ReportInv(place, t),
           pc[w] = "marking" <=> place = "marking",
           place = "marking" => LoopInv(t) /\ t.id = tx[w].id
    PROVE  IInv'
<1>1. \A v \in Workers : v # w => pc'[v] = pc[v] /\ tx'[v] = tx[v]
  BY DEF IInv, TypeOK
<1>2. pc'[w] = place /\ tx'[w] = t
  BY DEF IInv, TypeOK
<1>3. TypeOK'
  <2>1. ASSUME NEW v \in Workers PROVE TxOK(pc[v], tx[v])'
    BY <1>1, <1>2, <2>1 DEF IInv, TypeOK, TxOK
  <2> QED BY <2>1 DEF IInv, TypeOK
<1>4. LockIsOwned'
  BY <1>1, <1>2 DEF IInv, LockIsOwned
<1>5. ASSUME NEW v \in Workers, pc'[v] = "marking" PROVE LoopInv(tx[v])'
  BY <1>1, <1>2, <1>5 DEF IInv, LoopInv, IsOpen
<1>6. ASSUME NEW v \in Workers PROVE ReportInv(pc[v], tx[v])'
  BY <1>1, <1>2, <1>6 DEF IInv, ReportInv
<1> QED BY <1>3, <1>4, <1>5, <1>6 DEF IInv

\* The lock is taken only when no transaction works on the row, and the loop
\* starts with nothing counted.
LEMMA AcquireIInv ==
    ASSUME IInv, NEW w \in Workers, Acquire(w)
    PROVE  IInv'
<1> DEFINE id == tx[w].id
           t == [id |-> id, rq |-> tx[w].rq, next |-> 1, marks |-> items[id],
                 passed |-> 0, issues |-> 0]
<1> USE DEF Acquire, LockAndList
<1>0. /\ pc[w] = "locking" /\ lock[id] = NoOne /\ UNCHANGED <<inspections, items, executed>>
      /\ id \in Inspections /\ tx[w].rq \in Requests
  BY DEF IInv, TypeOK, TxOK
<1>1. CASE ~(id \in DOMAIN inspections /\ IsOpen(id))
  BY <1>0, <1>1, PrivateIInv DEF Done, Goto, TxOK, ReportInv
<1>2. CASE id \in DOMAIN inspections /\ IsOpen(id)
  <2>1. /\ lock' = [lock EXCEPT ![id] = w] /\ pc' = [pc EXCEPT ![w] = "marking"]
        /\ tx' = [tx EXCEPT ![w] = t]
    BY <1>2 DEF Goto
  <2>2. \A v \in Workers : v # w => pc'[v] = pc[v] /\ tx'[v] = tx[v]
    BY <2>1 DEF IInv, TypeOK
  <2>3. pc'[w] = "marking" /\ tx'[w] = t
    BY <2>1 DEF IInv, TypeOK
  <2>4. TypeOK'
    <3>1. TxOK("marking", t)
      BY <1>0, <1>2 DEF IInv, TypeOK, TxOK
    <3>2. ASSUME NEW v \in Workers PROVE TxOK(pc[v], tx[v])'
      BY <1>0, <2>2, <2>3, <3>1, <3>2 DEF IInv, TypeOK, TxOK
    <3> QED BY <1>0, <2>1, <3>2 DEF IInv, TypeOK
  <2>5. LockIsOwned'
    <3>1. \A v \in Workers : pc[v] = "marking" => tx[v].id # id
      BY <1>0, NoOneAssumption DEF IInv, LockIsOwned
    <3>2. lock \in [Inspections -> Workers \cup {NoOne}]
      BY DEF IInv, TypeOK
    <3> QED BY <1>0, <2>1, <2>2, <2>3, <3>1, <3>2 DEF IInv, LockIsOwned
  <2>6. LoopInv(t)
    <3>1. Seen(t) = {}
      BY DEF Seen
    <3>2. \A mark : Counted(t, mark) = {}
      BY <3>1 DEF Counted
    <3>3. Cardinality(Counted(t, TRUE)) = 0 /\ Cardinality(Counted(t, FALSE)) = 0
      BY <3>2, FS_EmptySet
    <3>4. MarksFollow(t, items[id])
      BY <3>1 DEF MarksFollow
    <3>5. t.next <= Len(t.rq) + 1
      BY <1>0, RequestsAssumption
    <3> QED BY <1>2, <3>3, <3>4, <3>5 DEF LoopInv
  <2>7. ASSUME NEW v \in Workers, pc'[v] = "marking" PROVE LoopInv(tx[v])'
    BY <1>0, <2>2, <2>3, <2>6, <2>7 DEF IInv, LoopInv, IsOpen
  <2>8. ASSUME NEW v \in Workers PROVE ReportInv(pc[v], tx[v])'
    BY <1>0, <2>2, <2>3, <2>8 DEF IInv, ReportInv
  <2> QED BY <2>4, <2>5, <2>7, <2>8 DEF IInv
<1> QED BY <1>1, <1>2

\* One turn of the loop: the entries passed grow by one, and the counts and
\* the marks with them.
LEMMA MarkItemIInv ==
    ASSUME IInv, NEW w \in Workers, MarkItem(w)
    PROVE  IInv'
<1> DEFINE t == tx[w]
           n == t.next
           e == t.rq[n]
           u == IF e.item \notin DOMAIN t.marks THEN [t EXCEPT !.next = @ + 1]
                ELSE [t EXCEPT !.next = @ + 1,
                               !.marks[e.item] = e.passed,
                               !.passed = @ + (IF e.passed THEN 1 ELSE 0),
                               !.issues = @ + (IF e.passed THEN 0 ELSE 1)]
<1>0. /\ pc[w] = "marking" /\ n <= Len(t.rq) /\ tx' = [tx EXCEPT ![w] = u]
      /\ UNCHANGED <<inspections, items, lock, pc, executed>>
  BY DEF MarkItem
<1>1. /\ t.id \in Inspections /\ t.rq \in Requests /\ n \in Nat \ {0}
      /\ t.marks \in Marks(t.id) /\ t.passed \in Nat /\ t.issues \in Nat
      /\ t \in [id : {t.id}, rq : Requests, next : Nat \ {0},
                marks : Marks(t.id), passed : Nat, issues : Nat]
  BY <1>0 DEF IInv, TypeOK, TxOK
<1>2. /\ DOMAIN t.marks = ItemsOf[t.id]
      /\ t.rq \in Seq(Entries) /\ Len(t.rq) \in Nat /\ n \in DOMAIN t.rq
      /\ e.passed \in BOOLEAN
  <2>1. t.rq \in Seq(Entries) /\ Len(t.rq) \in Nat
    BY <1>1, RequestsAssumption
  <2>2. n \in DOMAIN t.rq /\ e \in Entries
    BY <1>0, <1>1, <2>1
  <2> QED BY <1>1, <2>1, <2>2 DEF Marks, Entries
<1>3. LoopInv(t)
  BY <1>0 DEF IInv
<1>4. /\ u.id = t.id /\ u.rq = t.rq /\ u.next = n + 1
      /\ u.marks = IF e.item \in ItemsOf[t.id] THEN [t.marks EXCEPT ![e.item] = e.passed]
                   ELSE t.marks
      /\ u.passed = t.passed + (IF e.item \in ItemsOf[t.id] /\ e.passed THEN 1 ELSE 0)
      /\ u.issues = t.issues + (IF e.item \in ItemsOf[t.id] /\ ~e.passed THEN 1 ELSE 0)
  BY <1>1, <1>2
<1>5. TxOK("marking", u)
  <2>1. u.marks \in Marks(t.id)
    BY <1>1, <1>2, <1>4 DEF Marks
  <2>2. u.passed \in Nat /\ u.issues \in Nat /\ u.next \in Nat \ {0}
    BY <1>1, <1>4
  <2>3. u = [id |-> u.id, rq |-> u.rq, next |-> u.next, marks |-> u.marks,
             passed |-> u.passed, issues |-> u.issues]
    BY <1>1
  <2> QED BY <1>1, <1>4, <2>1, <2>2, <2>3 DEF TxOK
<1> HIDE DEF u
<1>6. Seen(u) = Seen(t) \cup {n} /\ n \notin Seen(t)
  BY <1>1, <1>4 DEF Seen
<1>7. LoopInv(u)
  <2>1. ASSUME NEW mark \in BOOLEAN
        PROVE  Cardinality(Counted(u, mark)) =
                 Cardinality(Counted(t, mark))
                   + (IF e.item \in ItemsOf[t.id] /\ e.passed = mark THEN 1 ELSE 0)
    <3>1. IsFiniteSet(Counted(t, mark)) /\ Cardinality(Counted(t, mark)) \in Nat
      BY <1>1, CountedIsFinite
    <3>2. n \notin Counted(t, mark)
      BY <1>6 DEF Counted
    <3>3. CASE e.item \in ItemsOf[t.id] /\ e.passed = mark
      <4>1. Counted(u, mark) = Counted(t, mark) \cup {n}
        BY <1>4, <1>6, <3>3 DEF Counted
      <4> QED BY <3>1, <3>2, <3>3, <4>1, FS_AddElement
    <3>4. CASE ~(e.item \in ItemsOf[t.id] /\ e.passed = mark)
      <4>1. Counted(u, mark) = Counted(t, mark)
        BY <1>4, <1>6, <3>4 DEF Counted
      <4> QED BY <3>1, <3>4, <4>1
    <3> QED BY <3>3, <3>4
  <2>2. u.passed = Cardinality(Counted(u, TRUE)) /\ u.issues = Cardinality(Counted(u, FALSE))
    BY <1>2, <1>3, <1>4, <2>1 DEF LoopInv
  <2>3. MarksFollow(u, items[u.id])
    <3> SUFFICES ASSUME NEW i \in ItemsOf[t.id]
                 PROVE  /\ \A k \in Seen(u) :
                              t.rq[k].item = i /\ (\A j \in Seen(u) : t.rq[j].item = i => j <= k)
                                => u.marks[i] = t.rq[k].passed
                        /\ (\A k \in Seen(u) : t.rq[k].item # i) => u.marks[i] = items[t.id][i]
      BY <1>4 DEF MarksFollow
    <3>1. CASE e.item = i
      <4>1. u.marks[i] = e.passed
        BY <1>1, <1>2, <1>4, <3>1 DEF Marks
      <4>2. ASSUME NEW k \in Seen(u), \A j \in Seen(u) : t.rq[j].item = i => j <= k
            PROVE  k = n
        BY <1>1, <1>4, <1>6, <3>1, <4>2 DEF Seen
      <4> QED BY <1>6, <3>1, <4>1, <4>2
    <3>2. CASE e.item # i
      <4>1. u.marks[i] = t.marks[i]
        BY <1>1, <1>2, <1>4, <3>2 DEF Marks
      <4> QED BY <1>3, <1>6, <3>2, <4>1 DEF LoopInv, MarksFollow
    <3> QED BY <3>1, <3>2
  <2>4. u.id \in DOMAIN inspections /\ IsOpen(u.id)
    BY <1>3, <1>4 DEF LoopInv, IsOpen
  <2>5. u.next <= Len(u.rq) + 1
    BY <1>0, <1>1, <1>2, <1>4
  <2> QED BY <2>2, <2>3, <2>4, <2>5 DEF LoopInv
<1>8. pc' = [pc EXCEPT ![w] = "marking"]
  BY <1>0 DEF IInv, TypeOK
<1> QED BY <1>0, <1>4, <1>5, <1>7, <1>8, PrivateIInv DEF ReportInv

\* What Finish counts are two numbers.
LEMMA CountsAreNat ==
    ASSUME NEW t, t.id \in Inspections, t.marks \in Marks(t.id),
           t.passed \in Nat, t.issues \in Nat
    PROVE  Counts(t)[1] \in Nat /\ Counts(t)[2] \in Nat
<1>1. Marked(t.marks, TRUE) \in Nat /\ Marked(t.marks, FALSE) \in Nat
  BY MarkedIsCounted
<1> QED BY <1>1 DEF Counts

\* The commit: the one transaction that may write the row writes its verdict,
\* and no report has the row as a verdict yet.
LEMMA FinishIInv ==
    ASSUME IInv, NEW w \in Workers, Finish(w)
    PROVE  /\ IInv'
           /\ tx[w].id \in DOMAIN inspections /\ ~IsFinal(inspections[tx[w].id])
<1> DEFINE t == tx[w]
           c == Counts(t)
           verdict == Verdict(c[1], c[2])
<1>0. /\ pc[w] = "marking"
      /\ inspections' = [inspections EXCEPT ![t.id] = verdict]
      /\ items' = [items EXCEPT ![t.id] = t.marks]
      /\ executed' = [id \in DOMAIN executed \cup {t.id} |->
                          IF id = t.id THEN t.rq ELSE executed[id]]
      /\ lock' = [id \in Inspections |-> IF lock[id] = w THEN NoOne ELSE lock[id]]
      /\ pc' = [pc EXCEPT ![w] = "idle"] /\ tx' = [tx EXCEPT ![w] = Nothing]
  BY DEF Finish, Release, Done, Goto
<1>1. /\ t.id \in Inspections /\ t.rq \in Requests /\ t.marks \in Marks(t.id)
      /\ t.passed \in Nat /\ t.issues \in Nat
      /\ t.id \in DOMAIN inspections /\ IsOpen(t.id) /\ lock[t.id] = w
  BY <1>0 DEF IInv, TypeOK, TxOK, LoopInv, LockIsOwned
<1>2. verdict \in Rows
  BY <1>1, CountsAreNat, VerdictIsRow
<1> HIDE DEF verdict
<1>3. \A v \in Workers : v # w => pc'[v] = pc[v] /\ tx'[v] = tx[v]
  BY <1>0 DEF IInv, TypeOK
<1>4. pc'[w] = "idle" /\ tx'[w] = Nothing
  BY <1>0 DEF IInv, TypeOK
<1>5. TypeOK'
  <2>1. ASSUME NEW v \in Workers PROVE TxOK(pc[v], tx[v])'
    BY <1>0, <1>3, <1>4, <2>1 DEF IInv, TypeOK, TxOK
  <2>2. DOMAIN inspections' = DOMAIN inspections /\ inspections' \in [DOMAIN inspections -> Rows]
    BY <1>0, <1>2 DEF IInv, TypeOK
  <2>3. DOMAIN items' = DOMAIN items /\ \A id \in DOMAIN items : items'[id] \in Marks(id)
    BY <1>0, <1>1 DEF IInv, TypeOK
  <2>4. DOMAIN executed' \subseteq DOMAIN inspections /\ \A id \in DOMAIN executed' : executed'[id] \in Requests
    BY <1>0, <1>1 DEF IInv, TypeOK
  <2>5. lock' \in [Inspections -> Workers \cup {NoOne}]
    BY <1>0 DEF IInv, TypeOK
  <2>6. pc' \in [Workers -> {"idle", "locking", "marking", "reading", "reported"}]
    BY <1>0 DEF IInv, TypeOK
  <2> QED BY <1>0, <2>1, <2>2, <2>3, <2>4, <2>5, <2>6 DEF IInv, TypeOK
<1>6. LockIsOwned'
  BY <1>0, <1>3, <1>4, NoOneAssumption DEF IInv, LockIsOwned
<1>7. \A v \in Workers : v # w /\ pc[v] = "marking" => tx[v].id # t.id
  BY <1>1 DEF IInv, LockIsOwned
<1>8. ASSUME NEW v \in Workers, pc'[v] = "marking" PROVE LoopInv(tx[v])'
  BY <1>0, <1>1, <1>3, <1>4, <1>7, <1>8 DEF IInv, TypeOK, LoopInv, IsOpen
<1>9. ~IsFinal(inspections[t.id])
  BY <1>1 DEF IsOpen, IsFinal
<1>10. ASSUME NEW v \in Workers PROVE ReportInv(pc[v], tx[v])'
  <2>1. CASE v = w
    BY <1>4, <2>1 DEF ReportInv
  <2>2. CASE v # w
    <3>1. pc[v] \in {"reading", "reported"} /\ IsFinal(tx[v].row) =>
             /\ tx[v].id # t.id
             /\ tx[v].id \in DOMAIN inspections
      BY <1>9, <1>10, <2>2 DEF IInv, TypeOK, TxOK, ReportInv
    <3> QED BY <1>0, <1>3, <2>2, <3>1 DEF IInv, TypeOK, ReportInv
  <2> QED BY <2>1, <2>2
<1> QED BY <1>1, <1>5, <1>6, <1>8, <1>9, <1>10 DEF IInv

\* Rolling one transaction back, or all of them, frees the locks they held.
LEMMA RollbackIInv ==
    ASSUME IInv, NEW W \in SUBSET Workers,
           UNCHANGED <<inspections, items, executed>>,
           lock' = [id \in Inspections |-> IF lock[id] \in W THEN NoOne ELSE lock[id]],
           pc' = [v \in Workers |-> IF v \in W THEN "idle" ELSE pc[v]],
           tx' = [v \in Workers |-> IF v \in W THEN Nothing ELSE tx[v]]
    PROVE  IInv'
<1>1. \A v \in Workers : v \notin W => pc'[v] = pc[v] /\ tx'[v] = tx[v]
  OBVIOUS
<1>2. \A v \in W : pc'[v] = "idle" /\ tx'[v] = Nothing
  OBVIOUS
<1>3. TypeOK'
  <2>1. ASSUME NEW v \in Workers PROVE TxOK(pc[v], tx[v])'
    BY <1>1, <1>2, <2>1 DEF IInv, TypeOK, TxOK
  <2> QED BY <2>1 DEF IInv, TypeOK
<1>4. LockIsOwned'
  BY <1>1, <1>2, NoOneAssumption DEF IInv, LockIsOwned
<1>5. ASSUME NEW v \in Workers, pc'[v] = "marking" PROVE LoopInv(tx[v])'
  BY <1>1, <1>2, <1>5 DEF IInv, LoopInv, IsOpen
<1>6. ASSUME NEW v \in Workers PROVE ReportInv(pc[v], tx[v])'
  BY <1>1, <1>2, <1>6 DEF IInv, ReportInv
<1> QED BY <1>3, <1>4, <1>5, <1>6 DEF IInv

\* The invariant is inductive.
LEMMA NextIInv == IInv /\ [Next]_vars => IInv'
<1> SUFFICES ASSUME IInv, [Next]_vars PROVE IInv'
  OBVIOUS
<1>1. ASSUME NEW w \in Workers, Acquire(w) PROVE IInv'
  BY <1>1, AcquireIInv
<1>2. ASSUME NEW w \in Workers, LockFails(w) PROVE IInv'
  BY <1>2, PrivateIInv DEF LockFails, Done, Goto, TxOK, ReportInv
<1>3. ASSUME NEW w \in Workers, MarkItem(w) PROVE IInv'
  BY <1>3, MarkItemIInv
<1>4. ASSUME NEW w \in Workers, Finish(w) PROVE IInv'
  BY <1>4, FinishIInv
<1>5. ASSUME NEW w \in Workers, Abort(w) PROVE IInv'
  <2>1. /\ UNCHANGED <<inspections, items, executed>>
        /\ lock' = [id \in Inspections |-> IF lock[id] \in {w} THEN NoOne ELSE lock[id]]
        /\ pc' = [v \in Workers |-> IF v \in {w} THEN "idle" ELSE pc[v]]
        /\ tx' = [v \in Workers |-> IF v \in {w} THEN Nothing ELSE tx[v]]
    BY <1>5 DEF Abort, Release, Done, Goto, IInv, TypeOK
  <2> QED BY <2>1, RollbackIInv
<1>6. ASSUME NEW w \in Workers, NEW id \in Inspections, ReadRow(w, id) PROVE IInv'
  BY <1>6, PrivateIInv DEF ReadRow, Goto, TxOK, ReportInv, IInv, TypeOK
<1>7. ASSUME NEW w \in Workers, ReadItems(w) PROVE IInv'
  <2> DEFINE t == [id |-> tx[w].id, row |-> tx[w].row, marks |-> items[tx[w].id]]
  <2>1. tx[w] \in [id : DOMAIN inspections, row : Rows] /\ ReportInv("reading", tx[w])
    BY <1>7 DEF ReadItems, IInv, TypeOK, TxOK
  <2>2. TxOK("reported", t) /\ ReportInv("reported", t)
    BY <2>1 DEF TxOK, ReportInv, IInv, TypeOK
  <2> QED BY <1>7, <2>2, PrivateIInv DEF ReadItems, Goto
<1>8. ASSUME NEW w \in Workers, SendReport(w) PROVE IInv'
  BY <1>8, PrivateIInv DEF SendReport, Done, Goto, TxOK, ReportInv
<1>9. ASSUME NEW w \in Workers, NEW id \in Inspections, NEW marks \in Marks(id),
             Create(w, id, marks)
      PROVE  IInv'
  BY <1>9, CreateIInv
<1>10. ASSUME NEW w \in Workers, NEW id \in Inspections, NEW rq \in Requests,
              Execute(w, id, rq)
       PROVE  IInv'
  BY <1>10, PrivateIInv DEF Execute, Goto, TxOK, ReportInv
<1>11. CASE Crash
  <2>1. /\ lock' = [id \in Inspections |-> IF lock[id] \in Workers THEN NoOne ELSE lock[id]]
        /\ pc' = [v \in Workers |-> IF v \in Workers THEN "idle" ELSE pc[v]]
        /\ tx' = [v \in Workers |-> IF v \in Workers THEN Nothing ELSE tx[v]]
    BY <1>11 DEF Crash, IInv, TypeOK
  <2> QED BY <1>11, <2>1, RollbackIInv DEF Crash
<1>12. CASE UNCHANGED vars
  <2> USE <1>12 DEF vars
  <2>1. TypeOK'
    BY DEF IInv, TypeOK, TxOK
  <2>2. LockIsOwned'
    BY DEF IInv, LockIsOwned
  <2>3. ASSUME NEW v \in Workers
        PROVE  (pc'[v] = "marking" => LoopInv(tx[v])') /\ ReportInv(pc[v], tx[v])'
    BY DEF IInv, LoopInv, IsOpen, ReportInv
  <2> QED BY <2>1, <2>2, <2>3 DEF IInv
<1> QED BY <1>1, <1>2, <1>3, <1>4, <1>5, <1>6, <1>7, <1>8, <1>9, <1>10, <1>11, <1>12
        DEF Next, Proceed

\* The invariant holds throughout.
LEMMA Invariance == Spec => []IInv
  BY InitIInv, NextIInv, PTL DEF Spec

-----------------------------------------------------------------------------
(***************************************************************************)
(* What follows from it.                                                   *)
(***************************************************************************)

\* Type correctness of every behaviour.
THEOREM TypeCorrect == Spec => []TypeOK
<1>1. IInv => TypeOK
  BY DEF IInv
<1> QED BY <1>1, Invariance, PTL

\* A row lock belongs to the one transaction that works on the row.
THEOREM LockCorrect == Spec => []LockIsOwned
<1>1. IInv => LockIsOwned
  BY DEF IInv
<1> QED BY <1>1, Invariance, PTL

\* A report that shows a verdict shows the items of that verdict.
THEOREM ReportCorrect == Spec => []FinalReportIsConsistent
<1>1. IInv => FinalReportIsConsistent
  BY DEF IInv, ReportInv, FinalReportIsConsistent
<1> QED BY <1>1, Invariance, PTL

\* Which steps write the tables at all.
LEMMA TablesWritten ==
    ASSUME IInv, [Next]_vars
    PROVE  \/ UNCHANGED <<inspections, items>>
           \/ \E w \in Workers : Finish(w)
           \/ \E w \in Workers, id \in Inspections :
                 \E marks \in Marks(id) : Create(w, id, marks)
  BY DEF Next, Proceed, Acquire, LockAndList, LockFails, MarkItem, Abort, ReadRow, ReadItems,
         SendReport, Execute, Crash, vars

\* No step of any worker changes a verdict, or an item of an inspection that
\* has one.
THEOREM VerdictCorrect == Spec => VerdictIsFinal
<1>1. ASSUME IInv, [Next]_vars, NEW id \in DOMAIN inspections, IsFinal(inspections[id])
      PROVE  inspections'[id] = inspections[id] /\ items'[id] = items[id]
  <2>1. ASSUME NEW w \in Workers, Finish(w)
        PROVE  inspections'[id] = inspections[id] /\ items'[id] = items[id]
    <3>1. tx[w].id # id
      BY <1>1, <2>1, FinishIInv
    <3> QED BY <1>1, <2>1, <3>1 DEF Finish, IInv, TypeOK
  <2>2. ASSUME NEW w \in Workers, NEW i \in Inspections, NEW marks \in Marks(i),
               Create(w, i, marks)
        PROVE  inspections'[id] = inspections[id] /\ items'[id] = items[id]
    BY <1>1, <2>2 DEF Create
  <2> QED BY <1>1, <2>1, <2>2, TablesWritten
<1>2. IInv /\ [Next]_vars => [VerdictsKept]_vars
  BY <1>1 DEF VerdictsKept
<1> QED BY <1>2, Invariance, PTL DEF Spec, VerdictIsFinal

\* At the end of the list, what the loop has counted and marked is what
\* AtomicInspections says of the whole list.
LEMMA LoopComputesVerdict ==
    ASSUME IInv, NEW w \in Workers, Finish(w)
    PROVE  LET t == tx[w] IN
           /\ Atomic!IsMarked(t.rq, items[t.id], t.marks)
           /\ Verdict(Counts(t)[1], Counts(t)[2]) = Atomic!Verdict(t.rq, items[t.id])
<1> DEFINE t == tx[w]
           old == items[t.id]
<1>1. /\ t.id \in Inspections /\ t.rq \in Requests /\ t.next \in Nat \ {0}
      /\ t.marks \in Marks(t.id) /\ LoopInv(t) /\ t.next > Len(t.rq)
  BY DEF Finish, IInv, TypeOK, TxOK
<1>2. t.rq \in Seq(Entries) /\ Len(t.rq) \in Nat
  BY <1>1, RequestsAssumption
<1>3. old \in Marks(t.id) /\ DOMAIN old = ItemsOf[t.id] /\ DOMAIN t.marks = ItemsOf[t.id]
  BY <1>1 DEF LoopInv, IInv, TypeOK, Marks
<1>4. Seen(t) = DOMAIN t.rq
  BY <1>1, <1>2 DEF Seen, LoopInv
<1>5. Atomic!IsMarked(t.rq, old, t.marks)
  BY <1>1, <1>3, <1>4 DEF LoopInv, MarksFollow, Atomic!IsMarked, Atomic!IsLast
<1>6. ASSUME NEW mark \in BOOLEAN
      PROVE  /\ Counted(t, mark) = {k \in Atomic!Hits(t.rq, old) : t.rq[k].passed = mark}
             /\ IsFiniteSet(Counted(t, mark))
  BY <1>1, <1>3, <1>4, CountedIsFinite DEF Counted, Atomic!Hits
<1>7. t.passed = Cardinality(Counted(t, TRUE)) /\ t.issues = Cardinality(Counted(t, FALSE))
  BY <1>1 DEF LoopInv
<1>8. Counts(t)[1] = Atomic!Count(t.rq, old, TRUE) /\ Counts(t)[2] = Atomic!Count(t.rq, old, FALSE)
  <2>1. CASE Atomic!Hits(t.rq, old) = {}
    <3>1. t.passed = 0 /\ t.issues = 0
      BY <1>6, <1>7, <2>1, FS_EmptySet
    <3>2. \A k \in DOMAIN t.rq : t.rq[k].item \notin ItemsOf[t.id]
      BY <1>3, <2>1 DEF Atomic!Hits
    <3>3. t.marks = old
      BY <1>1, <1>3, <1>4, <3>2 DEF LoopInv, MarksFollow, Marks
    <3>4. ASSUME NEW mark \in BOOLEAN PROVE Atomic!Count(t.rq, old, mark) = Marked(old, mark)
      BY <2>1 DEF Marked, Atomic!Count, Atomic!Cardinality, Cardinality
    <3>5. Counts(t) = <<Marked(t.marks, TRUE), Marked(t.marks, FALSE)>>
      BY <3>1 DEF Counts
    <3>6. Counts(t)[1] = Marked(t.marks, TRUE) /\ Counts(t)[2] = Marked(t.marks, FALSE)
      BY <3>5
    <3>7. Counts(t)[1] = Marked(old, TRUE) /\ Counts(t)[2] = Marked(old, FALSE)
      BY <3>3, <3>6, Zenon
    <3>8. TRUE \in BOOLEAN /\ FALSE \in BOOLEAN
      OBVIOUS
    <3> QED BY <3>4, <3>7, <3>8, Zenon
  <2>2. CASE Atomic!Hits(t.rq, old) # {}
    <3>1. PICK k \in Atomic!Hits(t.rq, old) : TRUE
      BY <2>2
    <3>2. t.rq[k].passed \in BOOLEAN
      <4>1. k \in DOMAIN t.rq
        BY <3>1 DEF Atomic!Hits
      <4>2. t.rq[k] \in Entries
        BY <1>2, <4>1
      <4> QED BY <4>2 DEF Entries
    <3>3. Counted(t, TRUE) # {} \/ Counted(t, FALSE) # {}
      BY <1>6, <3>1, <3>2
    <3>4. t.passed # 0 \/ t.issues # 0
      BY <1>6, <1>7, <3>3, FS_EmptySet
    <3>5. Counts(t) = <<t.passed, t.issues>>
      BY <3>4 DEF Counts
    <3>6. ASSUME NEW mark \in BOOLEAN
          PROVE  Atomic!Count(t.rq, old, mark) = Cardinality(Counted(t, mark))
      BY <1>6, <2>2 DEF Atomic!Count, Atomic!Cardinality, Cardinality
    <3>7. /\ Counts(t)[1] = Cardinality(Counted(t, TRUE))
          /\ Counts(t)[2] = Cardinality(Counted(t, FALSE))
      BY <1>7, <3>5
    <3>8. TRUE \in BOOLEAN /\ FALSE \in BOOLEAN
      OBVIOUS
    <3> QED BY <3>6, <3>7, <3>8, Zenon
  <2> QED BY <2>1, <2>2
<1> QED BY <1>5, <1>8 DEF Verdict, Atomic!Verdict, Atomic!Score, Score

\* The transaction of many steps is one step of AtomicInspections: its commit.
THEOREM RefinesAtomic == Spec => ImplementsAtomic
<1>1. Init => Atomic!Init
  BY DEF Init, Atomic!Init
<1>2. IInv /\ [Next]_vars => [Atomic!Next]_(Atomic!avars)
  <2> SUFFICES ASSUME IInv, [Next]_vars
               PROVE  Atomic!Next \/ UNCHANGED <<inspections, items>>
    BY DEF Atomic!avars
  <2>1. ASSUME NEW w \in Workers, Finish(w) PROVE Atomic!Next
    <3> DEFINE t == tx[w]
    <3>1. /\ t.id \in Inspections /\ t.id \in DOMAIN inspections /\ IsOpen(t.id)
          /\ t.rq \in Requests /\ t.marks \in [ItemsOf[t.id] -> BOOLEAN]
      BY <2>1 DEF Finish, IInv, TypeOK, TxOK, LoopInv, Marks
    <3>2. Atomic!Decide(t.id, t.rq, t.marks)
      BY <2>1, <3>1, LoopComputesVerdict DEF Finish, IsOpen, Atomic!Decide
    <3> QED BY <3>1, <3>2 DEF Atomic!Next
  <2>2. ASSUME NEW w \in Workers, NEW id \in Inspections, NEW marks \in Marks(id),
               Create(w, id, marks)
        PROVE  Atomic!Next
    BY <2>2 DEF Create, Marks, Planned, Atomic!Next, Atomic!Plan, Atomic!Planned
  <2> QED BY <2>1, <2>2, TablesWritten
<1> QED BY <1>1, <1>2, Invariance, PTL DEF Spec, ImplementsAtomic, Atomic!Spec

-----------------------------------------------------------------------------
(***************************************************************************)
(* What an exact list leads to.                                            *)
(***************************************************************************)

\* Where each item has one entry, and no entry another item, the entries of a
\* mark are as many as the items that got it.
LEMMA EntriesAreItems ==
    ASSUME NEW t, t.id \in Inspections, t.rq \in Seq(Entries), t.next \in Nat \ {0},
           Seen(t) = DOMAIN t.rq, t.marks \in Marks(t.id), NEW old, MarksFollow(t, old),
           IsExact(t.rq, t.marks), NEW mark
    PROVE  Cardinality(Counted(t, mark)) = Marked(t.marks, mark)
<1> DEFINE S == Counted(t, mark)
           T == {i \in DOMAIN t.marks : t.marks[i] = mark}
           f == [k \in S |-> t.rq[k].item]
<1>1. DOMAIN t.marks = ItemsOf[t.id]
  BY DEF Marks
<1>2. ASSUME NEW k \in DOMAIN t.rq
      PROVE  t.rq[k].item \in DOMAIN t.marks /\ t.marks[t.rq[k].item] = t.rq[k].passed
  <2>1. t.rq[k].item \in ItemsOf[t.id]
    BY <1>1, <1>2 DEF IsExact
  <2>2. \A j \in Seen(t) : t.rq[j].item = t.rq[k].item => j = k
    BY <1>2 DEF IsExact
  <2>3. k \in Int
    BY <1>2
  <2> QED BY <1>1, <1>2, <2>1, <2>2, <2>3 DEF MarksFollow
<1>3. f \in [S -> T]
  BY <1>1, <1>2 DEF Counted
<1>4. \A j, k \in S : f[j] = f[k] => j = k
  BY DEF Counted, IsExact
<1>5. ASSUME NEW i \in T PROVE \E k \in S : f[k] = i
  <2>1. PICK k \in DOMAIN t.rq : t.rq[k].item = i
    BY <1>5 DEF IsExact
  <2> QED BY <1>1, <1>2, <1>5, <2>1 DEF Counted
<1>6. f \in Bijection(S, T)
  BY <1>3, <1>4, <1>5 DEF Bijection, Injection, Surjection, IsInjective
<1>7. Cardinality(T) = Cardinality(S)
  BY <1>6, CountedIsFinite, FS_Bijection DEF ExistsBijection
<1> QED BY <1>7 DEF Marked

\* Every item has the one mark or the other.
LEMMA MarksAddUp ==
    ASSUME NEW id \in Inspections, NEW marks \in Marks(id)
    PROVE  /\ Marked(marks, TRUE) + Marked(marks, FALSE) = Cardinality(DOMAIN marks)
           /\ Marked(marks, FALSE) = 0 <=> \A i \in DOMAIN marks : marks[i]
           /\ Cardinality(DOMAIN marks) \in Nat
           /\ Cardinality(DOMAIN marks) = 0 <=> DOMAIN marks = {}
<1> DEFINE G == {i \in DOMAIN marks : marks[i] = TRUE}
           B == {i \in DOMAIN marks : marks[i] = FALSE}
<1>1. IsFiniteSet(G) /\ IsFiniteSet(B)
  BY MarkedIsCounted
<1>2. IsFiniteSet(DOMAIN marks)
  BY RequestsAssumption DEF Marks
<1>3. DOMAIN marks = G \cup B /\ G \cap B = {}
  BY DEF Marks
<1>4. Cardinality(G \cup B) = Cardinality(G) + Cardinality(B) - Cardinality(G \cap B)
  BY <1>1, FS_Union
<1>5. Cardinality(G) \in Nat /\ Cardinality(B) \in Nat
  BY <1>1, FS_CardinalityType
<1>6. Cardinality(B) = 0 <=> B = {}
  BY <1>1, FS_EmptySet
<1>7. B = {} <=> \A i \in DOMAIN marks : marks[i]
  BY DEF Marks
<1>8. Cardinality(DOMAIN marks) = 0 <=> DOMAIN marks = {}
  BY <1>2, FS_EmptySet
<1>9. Cardinality(DOMAIN marks) \in Nat
  BY <1>2, FS_CardinalityType
<1>10. Cardinality(DOMAIN marks) = Cardinality(G) + Cardinality(B)
  <2>1. Cardinality(G \cap B) = 0
    BY <1>3, FS_EmptySet
  <2>2. Cardinality(DOMAIN marks) = Cardinality(G \cup B)
    BY <1>3
  <2> HIDE DEF G, B
  <2> QED BY <1>4, <1>5, <2>1, <2>2
<1>11. Marked(marks, TRUE) = Cardinality(G) /\ Marked(marks, FALSE) = Cardinality(B)
  BY DEF Marked
<1> HIDE DEF G, B
<1> QED BY <1>6, <1>7, <1>8, <1>9, <1>10, <1>11

\* A score is full for those, and only those, of whom none failed.
LEMMA FullScore ==
    ASSUME NEW passed \in Nat, NEW issues \in Nat
    PROVE  Score(passed, passed + issues) = 100 <=> issues = 0 /\ passed + issues # 0
<1> DEFINE total == passed + issues
           q == (100 * passed) \div total
<1>1. CASE total = 0
  BY <1>1 DEF Score
<1>2. CASE total # 0 /\ issues = 0
  <2>1. total = passed /\ q = 100
    BY <1>2, SMT
  <2>2. <<passed, total>> \notin FloatShort
    BY <2>1, FloatShortAssumption
  <2> QED BY <1>2, <2>1, <2>2 DEF Score
<1>3. CASE total # 0 /\ issues # 0
  <2>1. q \in Int /\ q < 100
    BY <1>3, SMT
  <2> QED BY <1>3, <2>1 DEF Score
<1> QED BY <1>1, <1>2, <1>3

LEMMA FinishExplains ==
    ASSUME IInv, NEW w \in Workers, Finish(w), IsExact(tx[w].rq, tx[w].marks)
    PROVE  IsExplained(Verdict(Counts(tx[w])[1], Counts(tx[w])[2]), tx[w].marks)
<1> DEFINE t == tx[w]
<1>1. /\ t.id \in Inspections /\ t.rq \in Seq(Entries) /\ t.next \in Nat \ {0}
      /\ t.marks \in Marks(t.id) /\ LoopInv(t) /\ t.next > Len(t.rq)
  BY RequestsAssumption DEF Finish, IInv, TypeOK, TxOK
<1>2. Seen(t) = DOMAIN t.rq
  BY <1>1 DEF Seen, LoopInv
<1>3. t.passed = Marked(t.marks, TRUE) /\ t.issues = Marked(t.marks, FALSE)
  BY <1>1, <1>2, EntriesAreItems DEF LoopInv
<1>4. Counts(t) = <<Marked(t.marks, TRUE), Marked(t.marks, FALSE)>>
  BY <1>3 DEF Counts
<1>5. PICK good \in Nat, bad \in Nat :
          good = Marked(t.marks, TRUE) /\ bad = Marked(t.marks, FALSE)
  BY <1>1, MarkedIsCounted
<1>6. Counts(t)[1] = good /\ Counts(t)[2] = bad
  BY <1>4, <1>5
<1>7. /\ good + bad = Cardinality(DOMAIN t.marks)
      /\ bad = 0 <=> \A i \in DOMAIN t.marks : t.marks[i]
      /\ Cardinality(DOMAIN t.marks) = 0 <=> DOMAIN t.marks = {}
  BY <1>1, <1>5, MarksAddUp
<1>8. Score(good, good + bad) = 100 <=> bad = 0 /\ good + bad # 0
  BY FullScore
<1>9. IsExplained(Verdict(good, bad), t.marks)
  <2> DEFINE row == Verdict(good, bad)
  <2>1. /\ row.status = (IF bad = 0 THEN "completed" ELSE "failed")
        /\ row.passed = good /\ row.issues = bad /\ row.score = Score(good, good + bad)
    BY DEF Verdict
  <2> HIDE DEF row
  <2>2. row.status = "completed" <=> \A i \in DOMAIN t.marks : t.marks[i]
    BY <1>7, <2>1
  <2>3. row.score = 100 <=> row.status = "completed" /\ DOMAIN t.marks # {}
    BY <1>7, <1>8, <2>1
  <2>4. row.passed = good /\ row.issues = Cardinality(DOMAIN t.marks) - good
    BY <1>7, <2>1
  <2>5. IsExplained(row, t.marks)
    BY <1>5, <2>2, <2>3, <2>4, Zenon DEF IsExplained
  <2> QED BY <2>5 DEF row
<1> QED BY <1>6, <1>9

\* Whatever lists are submitted at the same time, a verdict reached by a list that
\* names each item once is the one its items explain: its status, its score
\* and its counts (safety_inspection_service.go, Execute).
THEOREM ExplanationCorrect == Spec => []ExactListIsExplained
<1>1. Init => ExactListIsExplained
  BY DEF Init, ExactListIsExplained
<1>2. ASSUME IInv, [Next]_vars, ExactListIsExplained PROVE ExactListIsExplained'
  <2>1. CASE UNCHANGED <<inspections, items, executed>>
    BY <1>2, <2>1 DEF ExactListIsExplained
  <2>2. ASSUME NEW w \in Workers, Finish(w) PROVE ExactListIsExplained'
    <3>1. PICK t : t = tx[w]
      OBVIOUS
    <3>2. PICK row : row = Verdict(Counts(t)[1], Counts(t)[2])
      OBVIOUS
    <3>3. /\ t.id \in DOMAIN inspections /\ t.id \in DOMAIN items
          /\ inspections' = [inspections EXCEPT ![t.id] = row]
          /\ items' = [items EXCEPT ![t.id] = t.marks]
          /\ executed' = [id \in DOMAIN executed \cup {t.id} |->
                              IF id = t.id THEN t.rq ELSE executed[id]]
      BY <1>2, <2>2, <3>1, <3>2 DEF Finish, IInv, TypeOK, LoopInv
    <3>4. IsExact(t.rq, t.marks) => IsExplained(row, t.marks)
      BY <1>2, <2>2, <3>1, <3>2, FinishExplains
    <3>5. ASSUME NEW id \in DOMAIN executed', IsExact(executed'[id], items'[id])
          PROVE  IsExplained(inspections'[id], items'[id])
      <4>1. CASE id = t.id
        BY <3>3, <3>4, <3>5, <4>1
      <4>2. CASE id # t.id
        <5>1. /\ id \in DOMAIN executed /\ executed'[id] = executed[id]
              /\ items'[id] = items[id] /\ inspections'[id] = inspections[id]
          BY <1>2, <3>3, <3>5, <4>2 DEF IInv, TypeOK
        <5> QED BY <1>2, <3>5, <5>1 DEF ExactListIsExplained
      <4> QED BY <4>1, <4>2
    <3> QED BY <3>5 DEF ExactListIsExplained
  <2>3. ASSUME NEW w \in Workers, NEW i \in Inspections, NEW marks \in Marks(i),
               Create(w, i, marks)
        PROVE  ExactListIsExplained'
    <3>1. \A id \in DOMAIN executed' : /\ id \in DOMAIN executed /\ executed'[id] = executed[id]
                                       /\ items'[id] = items[id]
                                       /\ inspections'[id] = inspections[id]
      BY <1>2, <2>3 DEF Create, IInv, TypeOK
    <3> QED BY <1>2, <3>1 DEF ExactListIsExplained
  <2> QED BY <1>2, <2>1, <2>2, <2>3, TablesWritten DEF Next, Proceed, Acquire, LockAndList, LockFails,
             MarkItem, Abort, ReadRow, ReadItems, SendReport, Execute, Crash, vars
<1> QED BY <1>1, <1>2, Invariance, PTL DEF Spec

=============================================================================
