-------------------------- MODULE DashboardProofs --------------------------
(***************************************************************************)
(* Proofs about Dashboard, Trainings and Certifications for any number of  *)
(* requests, rows and months: the two counts of a figure are covered by    *)
(* the trainings there are, the month counted is a current one, and what   *)
(* has been recorded or decided is not undone by a request that was not    *)
(* overtaken.                                                              *)
(***************************************************************************)
EXTENDS Dashboard, TLAPS, FiniteSetTheorems

-----------------------------------------------------------------------------
(* The calendar. *)

LEMMA MonthOfYear ==
    ASSUME NEW m \in Nat
    PROVE  /\ m \div Year \in Nat /\ m % Year \in Nat
           /\ (m \div Year) * Year + (m % Year) = m
BY ClockAssumption, SMT

LEMMA YearsGoOn ==
    ASSUME NEW a \in Nat, NEW b \in Nat, a <= b
    PROVE  a \div Year <= b \div Year
BY ClockAssumption, SMTT(30)

\* What is read as one month of the year in which the reading began is the month
\* that it is now, or that month of the year before.
LEMMA MonthRead ==
    ASSUME NEW began \in Nat, NEW m \in Nat, began <= m
    PROVE  LET start == (began \div Year) * Year + (m % Year) IN
           {start, start + Year} \cap (began .. m) # {}
<1> DEFINE y == began \div Year
           z == m \div Year
           start == y * Year + (m % Year)
<1> SUFFICES {start, start + Year} \cap (began .. m) # {}
  OBVIOUS
<1>1. /\ y \in Nat /\ began % Year \in Nat /\ y * Year + (began % Year) = began
      /\ z \in Nat /\ m % Year \in Nat /\ z * Year + (m % Year) = m
  BY MonthOfYear
<1>2. y <= z
  BY YearsGoOn
<1>3. began % Year < Year /\ Year \in Nat
  BY ClockAssumption, SMT
<1> HIDE DEF y, z
<1>4. CASE y = z
  <2>1. start = m /\ m \in began .. m
    BY <1>1, <1>4
  <2> QED BY <2>1
<1>5. CASE y < z
  <2>1. (y + 1) * Year = y * Year + Year /\ y * Year \in Nat /\ z * Year \in Nat
    BY <1>1, <1>3, SMT
  <2>2. (y + 1) * Year <= z * Year
    <3>1. y + 1 <= z
      BY <1>1, <1>5
    <3>2. \A a, b, c \in Nat : a <= b => a * c <= b * c
      BY SMTT(30)
    <3> QED BY <1>1, <1>3, <3>1, <3>2
  <2>3. start + Year \in began .. m
    BY <1>1, <1>3, <2>1, <2>2
  <2> QED BY <2>3
<1>6. y = z \/ y < z
  BY <1>1, <1>2
<1> QED BY <1>4, <1>5, <1>6

-----------------------------------------------------------------------------
(* The tables. *)

\* Rows are added, and keep their months: no month's trainings become fewer.
LEMMA MonthsGrow ==
    ASSUME IsFiniteSet(DOMAIN trainings'), DOMAIN trainings \subseteq DOMAIN trainings',
           \A id \in DOMAIN trainings : trainings'[id].month = trainings[id].month,
           NEW m
    PROVE  /\ Cardinality(OfMonth(m)) \in Nat /\ Cardinality(OfMonth(m)') \in Nat
           /\ Cardinality(OfMonth(m)) <= Cardinality(OfMonth(m)')
<1>1. OfMonth(m) \subseteq OfMonth(m)' /\ OfMonth(m)' \subseteq DOMAIN trainings'
  BY DEF OfMonth
<1>2. IsFiniteSet(OfMonth(m)')
  BY <1>1, FS_Subset
<1> QED BY <1>1, <1>2, FS_Subset, FS_CardinalityType

LEMMA InitInv == Init => IInv
<1> SUFFICES ASSUME Init PROVE IInv
  OBVIOUS
<1>1. month \in 0 .. MaxMonth
  BY ClockAssumption DEF Init
<1>2. TrainingsTypeOK /\ CertsTypeOK /\ IsFiniteSet(DOMAIN trainings)
  BY FS_EmptySet
  DEF Init, InitTrainings, InitCertifications, TrainingsTypeOK, CertsTypeOK
<1>3. /\ req \in [Workers -> {Idle}] /\ viewing \in [Viewers -> {Idle}]
      /\ Idle.op = "none"
  BY DEF Init, Idle
<1> QED BY <1>1, <1>2, <1>3
        DEF IInv, TypeOK, HeldMonths, CountIsCovered, FigureIsCovered, ClockIsAhead,
            MonthIsCurrent

\* A step of a worker, which leaves the clock and the viewers alone.
LEMMA WorkerStep ==
    ASSUME IInv, month' = month, viewing' = viewing,
           TrainingsTypeOK', CertsTypeOK', IsFiniteSet(DOMAIN trainings'),
           req' \in [Workers -> Records \cup Reviews \cup {Idle}],
           HeldMonths',
           DOMAIN trainings \subseteq DOMAIN trainings',
           \A id \in DOMAIN trainings : trainings'[id].month = trainings[id].month
    PROVE  IInv'
<1>1. TypeOK'
  BY DEF IInv, TypeOK
<1>2. CountIsCovered' /\ FigureIsCovered'
  <2>1. ASSUME NEW v \in Viewers, viewing[v].op \in {"counted", "figure"}
        PROVE  /\ viewing[v].total \in Nat
               /\ viewing[v].op = "figure" => viewing[v].done \in Nat
    BY <2>1 DEF IInv, TypeOK, Figures, Idle
  <2>2. ASSUME NEW m
        PROVE  /\ Cardinality(OfMonth(m)) \in Nat /\ Cardinality(OfMonth(m)') \in Nat
               /\ Cardinality(OfMonth(m)) <= Cardinality(OfMonth(m)')
    BY MonthsGrow
  <2>3. CountIsCovered'
    <3> SUFFICES ASSUME NEW v \in Viewers, viewing[v].op = "counted"
                 PROVE  viewing[v].total <= Cardinality(OfMonth(viewing[v].start)')
      BY DEF CountIsCovered, OfMonth
    <3> QED BY <2>1, <2>2 DEF IInv, CountIsCovered
  <2>4. FigureIsCovered'
    <3> SUFFICES ASSUME NEW v \in Viewers, viewing[v].op = "figure"
                 PROVE  /\ viewing[v].total <= Cardinality(OfMonth(viewing[v].start)')
                        /\ viewing[v].done <= Cardinality(OfMonth(viewing[v].start)')
      BY DEF FigureIsCovered, OfMonth
    <3> QED BY <2>1, <2>2 DEF IInv, FigureIsCovered
  <2> QED BY <2>3, <2>4
<1>3. ClockIsAhead' /\ MonthIsCurrent'
  BY DEF IInv, ClockIsAhead, MonthIsCurrent
<1> QED BY <1>1, <1>2, <1>3 DEF IInv

\* What a worker may hold, and that it holds nothing else.
LEMMA HoldTyped ==
    ASSUME IInv, NEW w \in Workers, NEW r \in Records \cup Reviews \cup {Idle}, Hold(w, r)
    PROVE  /\ req' \in [Workers -> Records \cup Reviews \cup {Idle}]
           /\ req'[w] = r
           /\ \A u \in Workers \ {w} : req'[u] = req[u]
BY DEF Hold, IInv, TypeOK

LEMMA TrainingsInv ==
    ASSUME IInv, NEW w \in Workers, NextTrainings(w), UNCHANGED <<month, certs, viewing>>
    PROVE  IInv'
<1>1. CertsTypeOK' /\ month' = month /\ viewing' = viewing
  BY DEF IInv, TypeOK, CertsTypeOK
<1>2. ASSUME NEW id \in Trainings, NEW m \in Months, NEW list \in Lists,
             Create(w, id, m, list)
      PROVE  IInv'
  <2>1. /\ DOMAIN trainings' = DOMAIN trainings \cup {id} /\ req' = req
        /\ trainings'[id] = Created(m, list)
        /\ \A i \in DOMAIN trainings : trainings'[i] = trainings[i]
    BY <1>2 DEF Create, Store
  <2>2. TrainingsTypeOK'
    <3>1. Created(m, list) \in TrainingRows
      BY DEF Created, TrainingRows
    <3>2. \A i \in DOMAIN trainings : trainings[i] \in TrainingRows
      BY DEF IInv, TypeOK, TrainingsTypeOK
    <3>3. trainings' = [i \in DOMAIN trainings' |-> trainings'[i]]
      BY <1>2 DEF Create, Store
    <3> QED BY <2>1, <3>1, <3>2, <3>3 DEF IInv, TypeOK, TrainingsTypeOK
  <2>3. IsFiniteSet(DOMAIN trainings')
    BY <2>1, FS_AddElement DEF IInv
  <2>4. HeldMonths'
    BY <2>1 DEF IInv, HeldMonths
  <2> QED BY <1>1, <2>1, <2>2, <2>3, <2>4, WorkerStep DEF IInv, TypeOK
<1>3. ASSUME NEW id \in Trainings, NEW list \in Lists \cup {Absent}, NEW rate \in Rates \cup {0},
             Record(w, id, list, rate)
      PROVE  IInv'
  <2> DEFINE r == [op |-> "record", id |-> id, seen |-> trainings[id],
                   list |-> list, rate |-> rate]
  <2>1. trainings' = trainings /\ id \in DOMAIN trainings /\ Hold(w, r)
    BY <1>3 DEF Record
  <2>2. r \in Records
    BY <2>1 DEF IInv, TypeOK, TrainingsTypeOK, Records
  <2>3. /\ req' \in [Workers -> Records \cup Reviews \cup {Idle}] /\ req'[w] = r
        /\ \A u \in Workers \ {w} : req'[u] = req[u]
    BY <2>1, <2>2, HoldTyped
  <2>4. HeldMonths'
    BY <2>1, <2>3 DEF IInv, HeldMonths
  <2> QED BY <1>1, <2>1, <2>3, <2>4, WorkerStep DEF IInv, TypeOK, TrainingsTypeOK
<1>4. CASE SaveRecord(w)
  <2> DEFINE r == req[w]
  <2>1. /\ r \in Records /\ r.id \in DOMAIN trainings /\ r.seen.month = trainings[r.id].month
        /\ trainings' = [i \in DOMAIN trainings \cup {r.id} |->
                            IF i = r.id THEN Edited(r) ELSE trainings[i]]
        /\ Drop(w)
    BY <1>4 DEF SaveRecord, Store, IInv, TypeOK, HeldMonths, Reviews, Idle
  <2> HIDE DEF r
  <2>2. /\ Edited(r) \in TrainingRows /\ Edited(r).month = r.seen.month
    BY <2>1 DEF Records, TrainingRows, Edited
  <2>3. /\ DOMAIN trainings' = DOMAIN trainings
        /\ trainings' \in [DOMAIN trainings -> TrainingRows]
        /\ \A id \in DOMAIN trainings : trainings'[id].month = trainings[id].month
    BY <2>1, <2>2 DEF IInv, TypeOK, TrainingsTypeOK
  <2>4. /\ req' \in [Workers -> Records \cup Reviews \cup {Idle}]
        /\ req'[w] = Idle /\ \A u \in Workers \ {w} : req'[u] = req[u]
    BY <2>1, HoldTyped DEF Drop
  <2>5. HeldMonths'
    BY <2>3, <2>4 DEF IInv, HeldMonths, Idle
  <2>6. TrainingsTypeOK'
    BY <2>3 DEF IInv, TypeOK, TrainingsTypeOK
  <2> QED BY <1>1, <2>3, <2>4, <2>5, <2>6, WorkerStep DEF IInv
<1> QED BY <1>2, <1>3, <1>4 DEF NextTrainings

LEMMA CertificationsInv ==
    ASSUME IInv, NEW w \in Workers, NextCertifications(w) \/ (Fails(w) /\ UNCHANGED certs),
           UNCHANGED <<month, trainings, viewing>>
    PROVE  IInv'
<1>1. TrainingsTypeOK' /\ month' = month /\ viewing' = viewing /\ trainings' = trainings
      /\ IsFiniteSet(DOMAIN trainings')
  BY DEF IInv, TypeOK, TrainingsTypeOK
<1>2. ASSUME NEW id \in Certs, Submit(w, id)
      PROVE  IInv'
  <2>1. req' = req /\ CertsTypeOK'
    BY <1>2 DEF Submit, CertsTypeOK, CertStatuses, IInv, TypeOK
  <2>2. HeldMonths'
    BY <1>1, <2>1 DEF IInv, HeldMonths
  <2> QED BY <1>1, <2>1, <2>2, WorkerStep DEF IInv, TypeOK
<1>3. ASSUME NEW r \in Reviews \cup {Idle}, Hold(w, r), CertsTypeOK'
      PROVE  IInv'
  <2>1. /\ req' \in [Workers -> Records \cup Reviews \cup {Idle}] /\ req'[w] = r
        /\ \A u \in Workers \ {w} : req'[u] = req[u]
    BY <1>3, HoldTyped
  <2>2. HeldMonths'
    BY <1>1, <2>1 DEF IInv, HeldMonths, Reviews, Idle
  <2> QED BY <1>1, <1>3, <2>1, <2>2, WorkerStep
<1>4. ASSUME NEW id \in Certs, NEW decision \in Decisions, Review(w, id, decision)
      PROVE  IInv'
  <2>1. [op |-> "review", id |-> id, decision |-> decision] \in Reviews
    BY DEF Reviews
  <2> QED BY <1>3, <1>4, <2>1 DEF Review, IInv, TypeOK, CertsTypeOK
<1>5. CASE SaveReview(w)
  <2>1. req[w] \in Reviews
    BY <1>5 DEF SaveReview, IInv, TypeOK, Records, Idle
  <2>2. CertsTypeOK'
    BY <1>5, <2>1 DEF SaveReview, CertsTypeOK, CertStatuses, Reviews, IInv, TypeOK
  <2> QED BY <1>3, <1>5, <2>2 DEF SaveReview, Drop
<1>6. CASE Fails(w) /\ UNCHANGED certs
  BY <1>3, <1>6 DEF Fails, Drop, IInv, TypeOK, CertsTypeOK
<1> QED BY <1>2, <1>4, <1>5, <1>6 DEF NextCertifications

\* A step of a viewer, which leaves the clock and the tables alone.
LEMMA ViewerStep ==
    ASSUME IInv, NEW v \in Viewers, NEW f \in Figures \cup {Idle}, GoOn(v, f),
           f.op = "counted" => f.total <= Cardinality(OfMonth(f.start)),
           f.op = "figure" => /\ f.total <= Cardinality(OfMonth(f.start))
                              /\ f.done <= Cardinality(OfMonth(f.start)),
           f # Idle => /\ f.began <= month
                       /\ f.op = "year" => f.year = f.began \div Year,
           f.op \in {"month", "counted", "figure"} =>
               {f.start, f.start + Year} \cap (f.began .. month) # {}
    PROVE  IInv'
<1>1. /\ viewing' = [viewing EXCEPT ![v] = f] /\ month' = month
      /\ trainings' = trainings /\ certs' = certs /\ req' = req
  BY DEF GoOn
<1>2. viewing'[v] = f /\ \A u \in Viewers \ {v} : viewing'[u] = viewing[u]
  BY <1>1 DEF IInv, TypeOK
<1>3. TypeOK'
  BY <1>1 DEF IInv, TypeOK, TrainingsTypeOK, CertsTypeOK
<1>4. IsFiniteSet(DOMAIN trainings)' /\ HeldMonths'
  BY <1>1 DEF IInv, HeldMonths
<1>5. CountIsCovered' /\ FigureIsCovered'
  <2>1. CountIsCovered'
    <3> SUFFICES ASSUME NEW u \in Viewers, viewing'[u].op = "counted"
                 PROVE  viewing'[u].total <= Cardinality(OfMonth(viewing'[u].start))
      BY <1>1 DEF CountIsCovered, OfMonth
    <3> QED BY <1>2 DEF IInv, CountIsCovered
  <2>2. FigureIsCovered'
    <3> SUFFICES ASSUME NEW u \in Viewers, viewing'[u].op = "figure"
                 PROVE  /\ viewing'[u].total <= Cardinality(OfMonth(viewing'[u].start))
                        /\ viewing'[u].done <= Cardinality(OfMonth(viewing'[u].start))
      BY <1>1 DEF FigureIsCovered, OfMonth
    <3> QED BY <1>2 DEF IInv, FigureIsCovered
  <2> QED BY <2>1, <2>2
<1>6. ClockIsAhead' /\ MonthIsCurrent'
  BY <1>1, <1>2 DEF IInv, ClockIsAhead, MonthIsCurrent
<1> QED BY <1>3, <1>4, <1>5, <1>6 DEF IInv

LEMMA ViewerInv ==
    ASSUME IInv, NEW v \in Viewers,
           ReadYear(v) \/ ReadMonth(v) \/ CountAll(v) \/ CountDone(v) \/ Answer(v)
    PROVE  IInv'
<1> DEFINE r == viewing[v]
<1>1. month \in Nat /\ month \in 0 .. MaxMonth /\ r \in Figures \cup {Idle}
  BY ClockAssumption DEF IInv, TypeOK
<1>2. \A m : Cardinality(OfMonth(m)) \in Nat /\ IsFiniteSet(OfMonth(m))
  BY FS_Subset, FS_CardinalityType DEF IInv, OfMonth
<1>3. CASE ReadYear(v)
  <2> DEFINE f == [op |-> "year", began |-> month, year |-> month \div Year]
  <2>1. f \in Figures
    BY <1>1, MonthOfYear DEF Figures
  <2> QED BY <1>1, <1>3, <2>1, ViewerStep DEF ReadYear, Idle
<1>4. CASE ReadMonth(v)
  <2> DEFINE f == [op |-> "month", began |-> r.began, start |-> StartOf(r)]
  <2>1. /\ r # Idle /\ r.op = "year" /\ r.began \in 0 .. MaxMonth /\ r.began <= month
        /\ r.year = r.began \div Year
    BY <1>1, <1>4 DEF ReadMonth, Figures, Idle, IInv, ClockIsAhead
  <2>2. StartOf(r) \in Nat
    <3>1. r.began \div Year \in Nat /\ month % Year \in Nat /\ Year \in Nat
      BY <1>1, <2>1, MonthOfYear, ClockAssumption
    <3>2. \A q, y, m \in Nat : q * y + m \in Nat
      OBVIOUS
    <3> QED BY <2>1, <3>1, <3>2 DEF StartOf
  <2>3. {StartOf(r), StartOf(r) + Year} \cap (r.began .. month) # {}
    <3>1. r.began \in Nat
      BY <1>1, <2>1
    <3> QED BY <1>1, <2>1, <3>1, MonthRead DEF StartOf
  <2>4. f \in Figures
    BY <2>1, <2>2 DEF Figures
  <2>5. {f.start, f.start + Year} \cap (f.began .. month) # {}
    BY <2>3
  <2>6. GoOn(v, f)
    BY <1>4 DEF ReadMonth
  <2> QED BY <1>1, <2>1, <2>4, <2>5, <2>6, ViewerStep DEF Idle
<1>5. CASE CountAll(v)
  <2> DEFINE total == Cardinality(OfMonth(r.start))
             f == [op |-> "counted", began |-> r.began, start |-> r.start, total |-> total]
  <2>1. /\ r # Idle /\ r.op = "month" /\ r.began \in 0 .. MaxMonth /\ r.start \in Nat
        /\ r.began <= month
        /\ {r.start, r.start + Year} \cap (r.began .. month) # {}
    BY <1>1, <1>5 DEF CountAll, Figures, Idle, IInv, ClockIsAhead, MonthIsCurrent
  <2>2. GoOn(v, f)
    BY <1>5 DEF CountAll
  <2>3. total \in Nat
    BY <1>2
  <2> HIDE DEF total
  <2>4. f \in Figures
    BY <2>1, <2>3 DEF Figures
  <2>5. f.total <= Cardinality(OfMonth(f.start))
    BY <2>3 DEF total
  <2> QED BY <2>1, <2>2, <2>4, <2>5, ViewerStep DEF Idle
<1>6. CASE CountDone(v)
  <2> DEFINE done == Cardinality(DoneOf(r.start))
             f == [op |-> "figure", began |-> r.began, start |-> r.start,
                   total |-> r.total, done |-> done]
  <2>1. /\ r # Idle /\ r.op = "counted" /\ r.began \in 0 .. MaxMonth /\ r.start \in Nat
        /\ r.total \in Nat /\ r.began <= month
        /\ r.total <= Cardinality(OfMonth(r.start))
        /\ {r.start, r.start + Year} \cap (r.began .. month) # {}
    BY <1>1, <1>6
    DEF CountDone, Figures, Idle, IInv, ClockIsAhead, MonthIsCurrent, CountIsCovered
  <2>2. GoOn(v, f)
    BY <1>6 DEF CountDone
  <2>3. done \in Nat /\ done <= Cardinality(OfMonth(r.start))
    <3>1. DoneOf(r.start) \subseteq OfMonth(r.start)
      BY DEF DoneOf
    <3> QED BY <1>2, <3>1, FS_Subset, FS_CardinalityType
  <2> HIDE DEF done
  <2>4. f \in Figures
    BY <2>1, <2>3 DEF Figures
  <2> QED BY <2>1, <2>2, <2>3, <2>4, ViewerStep DEF Idle
<1>7. CASE Answer(v)
  BY <1>1, <1>7, ViewerStep DEF Answer, Idle
<1> QED BY <1>3, <1>4, <1>5, <1>6, <1>7

\* The clock goes on: a month the request has lived in stays one.
LEMMA MonthEndsInv ==
    ASSUME IInv, MonthEnds
    PROVE  IInv'
<1>1. /\ month \in Nat /\ month' = month + 1 /\ month' \in 0 .. MaxMonth
      /\ trainings' = trainings /\ certs' = certs /\ req' = req /\ viewing' = viewing
  BY ClockAssumption DEF MonthEnds, IInv, TypeOK
<1>2. TypeOK'
  BY <1>1 DEF IInv, TypeOK, TrainingsTypeOK, CertsTypeOK
<1>3. HeldMonths' /\ CountIsCovered' /\ FigureIsCovered'
  BY <1>1 DEF IInv, HeldMonths, CountIsCovered, FigureIsCovered, OfMonth
<1>4. ASSUME NEW v \in Viewers, viewing[v] # Idle
      PROVE  viewing[v].began \in Nat /\ viewing[v].began <= month
  BY <1>4, ClockAssumption DEF IInv, TypeOK, Figures, ClockIsAhead
<1>5. ClockIsAhead'
  BY <1>1, <1>4 DEF IInv, ClockIsAhead
<1>6. MonthIsCurrent'
  <2> SUFFICES ASSUME NEW v \in Viewers, viewing[v].op \in {"month", "counted", "figure"}
               PROVE  {viewing[v].start, viewing[v].start + Year}
                          \cap (viewing[v].began .. month + 1) # {}
    BY <1>1 DEF MonthIsCurrent
  <2>1. viewing[v].began .. month \subseteq viewing[v].began .. month + 1
    BY <1>1, <1>4 DEF Idle
  <2>2. {viewing[v].start, viewing[v].start + Year} \cap (viewing[v].began .. month) # {}
    BY DEF IInv, MonthIsCurrent
  <2> QED BY <2>1, <2>2
<1> QED BY <1>1, <1>2, <1>3, <1>5, <1>6 DEF IInv

LEMMA NextInv == IInv /\ [Next]_vars => IInv'
<1> SUFFICES ASSUME IInv, [Next]_vars PROVE IInv'
  OBVIOUS
<1>1. CASE MonthEnds
  BY <1>1, MonthEndsInv
<1>2. ASSUME NEW w \in Workers,
             \/ NextTrainings(w) /\ UNCHANGED <<month, certs, viewing>>
             \/ NextCertifications(w) /\ UNCHANGED <<month, trainings, viewing>>
             \/ Fails(w) /\ UNCHANGED <<month, trainings, certs, viewing>>
      PROVE  IInv'
  <2>1. CASE NextTrainings(w) /\ UNCHANGED <<month, certs, viewing>>
    BY <2>1, TrainingsInv
  <2>2. CASE NextCertifications(w) /\ UNCHANGED <<month, trainings, viewing>>
    <3>1. NextCertifications(w) \/ (Fails(w) /\ UNCHANGED certs)
      BY <2>2
    <3> QED BY <2>2, <3>1, CertificationsInv
  <2>3. CASE Fails(w) /\ UNCHANGED <<month, trainings, certs, viewing>>
    BY <2>3, CertificationsInv
  <2> QED BY <1>2, <2>1, <2>2, <2>3
<1>3. ASSUME NEW v \in Viewers,
             ReadYear(v) \/ ReadMonth(v) \/ CountAll(v) \/ CountDone(v) \/ Answer(v)
      PROVE  IInv'
  BY <1>3, ViewerInv
<1>4. CASE UNCHANGED vars
  BY <1>4 DEF vars, IInv, TypeOK, TrainingsTypeOK, CertsTypeOK, HeldMonths,
              CountIsCovered, FigureIsCovered, OfMonth, ClockIsAhead, MonthIsCurrent
<1> QED BY <1>1, <1>2, <1>3, <1>4 DEF Next

LEMMA Invariance == Spec => []IInv
BY InitInv, NextInv, PTL DEF Spec

-----------------------------------------------------------------------------
(* The theorems. *)

\* The tables, the requests and the figures keep their types.
THEOREM TypeCorrect == Spec => []TypeOK
<1>1. IInv => TypeOK
  BY DEF IInv
<1> QED BY <1>1, Invariance, PTL

\* A completion rate above 100 percent can only be shown while trainings are
\* being added (dashboard_service.go, two statements).
THEOREM FiguresCovered == Spec => []FigureIsCovered
<1>1. IInv => FigureIsCovered
  BY DEF IInv
<1> QED BY <1>1, Invariance, PTL

\* The clock is read twice; the month is one the request lived in, or, when a
\* year ended between the readings, that month of the year before.
THEOREM MonthsCorrect == Spec => []MonthIsCurrent
<1>1. IInv => MonthIsCurrent
  BY DEF IInv
<1> QED BY <1>1, Invariance, PTL

\* What no reviewer holds as pending any more and is decided stays so.
LEMMA DecisionStep ==
    ASSUME IInv, [Next]_vars, NEW id \in DOMAIN certs, DecidedAtRest(id)
    PROVE  DecidedAtRest(id)' /\ certs'[id] = certs[id]
<1>1. CASE certs' = certs /\ \A w \in Workers : req'[w].op = "review" => req'[w] = req[w]
  BY <1>1 DEF DecidedAtRest
<1>2. ASSUME NEW w \in Workers, NEW r \in Records \cup Reviews \cup {Idle}, Hold(w, r),
             r.op # "review" \/ r.id # id, certs'[id] = certs[id]
      PROVE  DecidedAtRest(id)' /\ certs'[id] = certs[id]
  BY <1>2, HoldTyped DEF DecidedAtRest
<1>3. ASSUME NEW w \in Workers, NextTrainings(w), certs' = certs
      PROVE  DecidedAtRest(id)' /\ certs'[id] = certs[id]
  <2>1. ASSUME NEW i \in Trainings, NEW m \in Months, NEW list \in Lists, Create(w, i, m, list)
        PROVE  req' = req
    BY <2>1 DEF Create
  <2>2. ASSUME NEW i \in Trainings, NEW list \in Lists \cup {Absent}, NEW rate \in Rates \cup {0},
               Record(w, i, list, rate)
        PROVE  \A u \in Workers : req'[u].op = "review" => req'[u] = req[u]
    BY <2>2 DEF Record, Hold, IInv, TypeOK
  <2>3. CASE SaveRecord(w)
    BY <1>2, <1>3, <2>3 DEF SaveRecord, Drop, Idle
  <2> QED BY <1>1, <1>3, <2>1, <2>2, <2>3 DEF NextTrainings
<1>4. ASSUME NEW w \in Workers, NextCertifications(w)
      PROVE  DecidedAtRest(id)' /\ certs'[id] = certs[id]
  <2>1. ASSUME NEW i \in Certs, Submit(w, i)
        PROVE  DecidedAtRest(id)' /\ certs'[id] = certs[id]
    BY <2>1 DEF Submit, DecidedAtRest
  <2>2. ASSUME NEW i \in Certs, NEW decision \in Decisions, Review(w, i, decision)
        PROVE  DecidedAtRest(id)' /\ certs'[id] = certs[id]
    <3>1. i # id /\ certs' = certs
      BY <2>2 DEF Review, IsReviewable, DecidedAtRest
    <3>2. [op |-> "review", id |-> i, decision |-> decision] \in Reviews
      BY DEF Reviews
    <3> QED BY <1>2, <2>2, <3>1, <3>2 DEF Review
  <2>3. CASE SaveReview(w)
    <3>1. req[w].op = "review" /\ req[w].id # id
      BY <2>3 DEF SaveReview, DecidedAtRest
    <3>2. certs'[id] = certs[id]
      BY <2>3, <3>1 DEF SaveReview
    <3> QED BY <1>2, <2>3, <3>2 DEF SaveReview, Drop, Idle
  <2> QED BY <1>4, <2>1, <2>2, <2>3 DEF NextCertifications
<1>5. ASSUME NEW w \in Workers, Fails(w), certs' = certs
      PROVE  DecidedAtRest(id)' /\ certs'[id] = certs[id]
  BY <1>2, <1>5 DEF Fails, Drop, Idle
<1>6. CASE \/ MonthEnds \/ UNCHANGED vars
           \/ \E v \in Viewers :
                 ReadYear(v) \/ ReadMonth(v) \/ CountAll(v) \/ CountDone(v) \/ Answer(v)
  BY <1>1, <1>6
  DEF MonthEnds, ReadYear, ReadMonth, CountAll, CountDone, Answer, GoOn, vars
<1> QED BY <1>3, <1>4, <1>5, <1>6 DEF Next

\* A list of participants that every request on its training has seen gives way
\* only to one that was sent.
LEMMA ListStep ==
    ASSUME IInv, [Next]_vars, NEW id \in DOMAIN trainings, AreFresh(id),
           trainings'[id].list # trainings[id].list
    PROVE  \E w \in Workers : /\ Recording(w, id)
                              /\ req[w].list # Absent
                              /\ trainings'[id].list = req[w].list
<1>1. trainings' # trainings
  OBVIOUS
<1>2. PICK w \in Workers : NextTrainings(w)
  BY <1>1 DEF Next, vars, MonthEnds, ReadYear, ReadMonth, CountAll, CountDone, Answer, GoOn
<1>3. ASSUME NEW i \in Trainings, NEW m \in Months, NEW list \in Lists, Create(w, i, m, list)
      PROVE  FALSE
  BY <1>3 DEF Create, Store
<1>4. ASSUME NEW i, NEW list, NEW rate, Record(w, i, list, rate)
      PROVE  FALSE
  BY <1>1, <1>4 DEF Record
<1>5. SaveRecord(w)
  BY <1>2, <1>3, <1>4 DEF NextTrainings
<1>6. req[w].op = "record" /\ req[w].id = id /\ trainings'[id] = Edited(req[w])
      /\ req[w] \in Records
  BY <1>5 DEF SaveRecord, Store, IInv, TypeOK, Reviews, Idle
<1>7. req[w].seen.list = trainings[id].list
  BY <1>6 DEF AreFresh, Recording
<1>8. Edited(req[w]).list = IF req[w].list = Absent THEN req[w].seen.list ELSE req[w].list
  BY <1>6 DEF Edited, Records, TrainingRows
<1> QED BY <1>6, <1>7, <1>8 DEF Recording

\* A decision stands once no reviewer is left who read it as pending.
THEOREM DecisionsCorrect == Spec => DecisionsStand
<1>1. IInv /\ [Next]_vars =>
          [\A id \in DOMAIN certs :
              DecidedAtRest(id) => DecidedAtRest(id)' /\ certs'[id] = certs[id]]_<<certs, req>>
  BY DecisionStep
<1> QED BY <1>1, Invariance, PTL DEF Spec, DecisionsStand

\* Recording a pass rate alone does not cost the list of participants.
THEOREM ListsCorrect == Spec => ListsAreKept
<1>1. IInv /\ [Next]_vars =>
          [\A id \in DOMAIN trainings :
              AreFresh(id) /\ trainings'[id].list # trainings[id].list =>
                  \E w \in Workers : /\ Recording(w, id)
                                     /\ req[w].list # Absent
                                     /\ trainings'[id].list = req[w].list]_<<trainings, req>>
  BY ListStep
<1> QED BY <1>1, Invariance, PTL DEF Spec, ListsAreKept

=============================================================================
