-------------------------- MODULE IncidentsProofs --------------------------
(***************************************************************************)
(* Proofs about Incidents for any set of workers, incidents and texts: the *)
(* inductive invariant, the safety properties that follow from it, the     *)
(* action property about closed incidents, and the refinement of           *)
(* IncidentVersions.                                                       *)
(***************************************************************************)
EXTENDS Incidents, TLAPS

\* What the second half of a transition writes, and where it comes from: the
\* row a loaded request is about to save is a row, well formed and legal with
\* respect to the version it was read from.
LEMMA EditedIsLegal ==
    ASSUME IInv, NEW w \in Workers, ~IsIdle(w)
    PROVE  LET r == req[w]  new == Edited(r) IN
           /\ r \in Loaded
           /\ new \in Rows
           /\ r.id \in Ids /\ r.id \in DOMAIN incidents
           /\ r.op = "assign" => new = [status |-> "investigating", measures |-> r.seen.measures]
           /\ r.op = "rectify" => new = [status |-> "resolved", measures |-> r.text]
           /\ r.op = "close" => new = [status |-> "closed", measures |-> r.seen.measures]
<1> DEFINE r == req[w]
<1>1. r \in Loaded
  BY DEF IInv, TypeOK, IsIdle, Idle
<1>2. r.op \in Ops /\ r.id \in Ids /\ r.seen \in Rows /\ r.text \in Texts \cup {NoText}
  BY <1>1 DEF Loaded
<1>3. r.id \in DOMAIN incidents /\ (r.op = "rectify" => r.text \in Texts)
  BY DEF IInv, HeldAreVersions
<1>4. Edited(r) \in Rows
  BY <1>2, <1>3 DEF Edited, Ops, Rows, Statuses
<1>5. /\ r.op = "assign" => Edited(r) = [status |-> "investigating", measures |-> r.seen.measures]
      /\ r.op = "rectify" => Edited(r) = [status |-> "resolved", measures |-> r.text]
      /\ r.op = "close" => Edited(r) = [status |-> "closed", measures |-> r.seen.measures]
  BY <1>2 DEF Edited, Ops, Rows
<1> QED BY <1>1, <1>2, <1>3, <1>4, <1>5

-----------------------------------------------------------------------------
(***************************************************************************)
(* The inductive invariant, one lemma per kind of step.                    *)
(***************************************************************************)

\* The seed rows form a legal first table: nothing is held, and there is no
\* API incident yet.
LEMMA InitIInv == Init => IInv
<1> SUFFICES ASSUME Init PROVE IInv
  OBVIOUS
<1>1. IsTable(incidents)
  BY SeedAssumption DEF Init
<1>2. req \in [Workers -> Loaded \cup {Idle}] /\ \A w \in Workers : IsIdle(w)
  BY DEF Init, Idle, IsIdle
<1>3. answer \in [Workers -> [code : {200}, id : Ids, row : Rows] \cup [code : {0, 400, 409, 500}]]
  BY DEF Init, NoAnswer
<1>4. versions \in [Ids -> SUBSET Rows]
  BY SeedAssumption DEF Init, IsTable
<1>5. HeldAreVersions
  BY <1>2 DEF HeldAreVersions
<1>6. VersionsAreLegal
  BY SeedAssumption DEF Init, VersionsAreLegal, Api, IsTable
<1> QED BY <1>1, <1>2, <1>3, <1>4, <1>5, <1>6 DEF IInv, TypeOK

\* Reading and checking a row: what a worker takes is the current row, hence a
\* version, in the status asked for.
LEMMA FindIInv ==
    ASSUME IInv, NEW w \in Workers, NEW op \in Ops, NEW required, NEW id \in Ids,
           NEW text \in Texts \cup {NoText}, Find(w, op, required, id, text),
           op = "assign" => required = "reported",
           op = "rectify" => required = "investigating" /\ text \in Texts,
           op = "close" => required = "resolved"
    PROVE  IInv'
<1> USE DEF Find
<1>1. VersionsAreLegal'
  BY DEF IInv, VersionsAreLegal
<1>2. CASE id \in DOMAIN incidents /\ incidents[id].status = required
  <2> DEFINE r == [op |-> op, id |-> id, seen |-> incidents[id], text |-> text]
  <2>1. req' = [req EXCEPT ![w] = r] /\ answer' = [answer EXCEPT ![w] = NoAnswer]
    BY <1>2 DEF Reply
  <2>2. r \in Loaded /\ incidents[id] \in versions[id]
    BY <1>2 DEF IInv, TypeOK, IsTable, Loaded, VersionsAreLegal
  <2>3. TypeOK'
    BY <2>1, <2>2 DEF IInv, TypeOK, NoAnswer
  <2>4. HeldAreVersions'
    <3> SUFFICES ASSUME NEW v \in Workers, ~IsIdle(v)'
                 PROVE  LET q == req'[v] IN
                        /\ q.id \in DOMAIN incidents
                        /\ q.seen \in versions[q.id]
                        /\ q.op = "assign"  => q.seen.status = "reported"
                        /\ q.op = "rectify" => q.seen.status = "investigating" /\ q.text \in Texts
                        /\ q.op = "close"   => q.seen.status = "resolved"
      BY DEF HeldAreVersions
    <3>1. CASE v = w
      BY <1>2, <2>1, <2>2, <3>1 DEF IInv, TypeOK
    <3>2. CASE v # w
      BY <2>1, <3>2 DEF IInv, TypeOK, HeldAreVersions, IsIdle
    <3> QED BY <3>1, <3>2
  <2> QED BY <1>1, <2>3, <2>4 DEF IInv
<1>3. CASE ~(id \in DOMAIN incidents /\ incidents[id].status = required)
  <2>1. UNCHANGED <<incidents, req, versions>>
    BY <1>3
  <2>2. answer' = [answer EXCEPT ![w] = Failed(500)] \/ answer' = [answer EXCEPT ![w] = Failed(409)]
    BY <1>3 DEF Reply
  <2>3. TypeOK'
    BY <2>1, <2>2 DEF IInv, TypeOK, Failed
  <2>4. HeldAreVersions'
    BY <2>1 DEF IInv, HeldAreVersions, IsIdle
  <2> QED BY <1>1, <2>3, <2>4 DEF IInv
<1> QED BY <1>2, <1>3

\* Writing the edited row back: it is legal next to the version it came from,
\* whatever the row has become in the meantime.
LEMMA StoreIInv ==
    ASSUME IInv, NEW w \in Workers, ~IsIdle(w), Store(req[w].id, Edited(req[w])),
           req' = [req EXCEPT ![w] = Idle],
           answer' = [answer EXCEPT ![w] = Ok(req[w].id, Edited(req[w]))]
             \/ answer' = [answer EXCEPT ![w] = Failed(500)]
    PROVE  IInv'
<1> DEFINE r == req[w]
           new == Edited(r)
<1>1. /\ r \in Loaded /\ new \in Rows /\ r.id \in Ids /\ r.id \in DOMAIN incidents
      /\ r.op = "assign" => new = [status |-> "investigating", measures |-> r.seen.measures]
      /\ r.op = "rectify" => new = [status |-> "resolved", measures |-> r.text]
      /\ r.op = "close" => new = [status |-> "closed", measures |-> r.seen.measures]
  BY EditedIsLegal
<1>2. /\ incidents' = [incidents EXCEPT ![r.id] = new]
      /\ versions' = [versions EXCEPT ![r.id] = @ \cup {new}]
      /\ DOMAIN incidents' = DOMAIN incidents
  BY DEF Store, Written
<1>3. TypeOK'
  BY <1>1, <1>2 DEF IInv, TypeOK, IsTable, Ok, Failed
<1>4. \A i \in Ids : versions[i] \subseteq versions'[i]
  BY <1>1, <1>2 DEF IInv, TypeOK
<1>5. HeldAreVersions'
  <2> SUFFICES ASSUME NEW v \in Workers, ~IsIdle(v)'
               PROVE  LET q == req'[v] IN
                      /\ q.id \in DOMAIN incidents'
                      /\ q.seen \in versions'[q.id]
                      /\ q.op = "assign"  => q.seen.status = "reported"
                      /\ q.op = "rectify" => q.seen.status = "investigating" /\ q.text \in Texts
                      /\ q.op = "close"   => q.seen.status = "resolved"
    BY DEF HeldAreVersions
  <2>1. v # w /\ req'[v] = req[v] /\ ~IsIdle(v)
    BY DEF IInv, TypeOK, IsIdle, Idle
  <2>2. req[v].id \in Ids
    BY <2>1 DEF IInv, HeldAreVersions, TypeOK, IsTable
  <2> QED BY <1>2, <1>4, <2>1, <2>2 DEF IInv, HeldAreVersions
<1>6. VersionsAreLegal'
  <2>1. \A id \in DOMAIN incidents' : incidents'[id] \in versions'[id]
    BY <1>1, <1>2, <1>4 DEF IInv, VersionsAreLegal, TypeOK, IsTable
  <2>2. \A id \in Ids \ DOMAIN incidents' : versions'[id] = {}
    BY <1>1, <1>2 DEF IInv, VersionsAreLegal, TypeOK
  <2>3. ASSUME NEW id \in Api, NEW v \in versions'[id]
        PROVE  /\ v.status \in {"resolved", "closed"} <=> v.measures # NoText
               /\ v.status = "closed" => [v EXCEPT !.status = "resolved"] \in versions'[id]
               /\ v.status \in {"resolved", "closed"} =>
                     [status |-> "investigating", measures |-> NoText] \in versions'[id]
    <3>0. id \in Ids /\ versions[id] \subseteq versions'[id]
      BY <1>4 DEF Api
    <3>1. CASE v \in versions[id]
      BY <3>0, <3>1 DEF IInv, VersionsAreLegal
    <3>2. CASE v \notin versions[id]
      <4>1. id = r.id /\ v = new
        BY <1>1, <1>2, <3>0, <3>2 DEF IInv, TypeOK
      <4>2. r.seen \in versions[id] /\ r.seen \in Rows /\ r.op \in Ops
        BY <1>1, <4>1 DEF IInv, HeldAreVersions, Loaded
      <4>3. /\ r.op = "assign"  => r.seen.status = "reported"
            /\ r.op = "rectify" => r.seen.status = "investigating" /\ r.text \in Texts
            /\ r.op = "close"   => r.seen.status = "resolved"
        BY DEF IInv, HeldAreVersions
      <4>4. /\ r.seen.status \in {"resolved", "closed"} <=> r.seen.measures # NoText
            /\ r.seen.status \in {"resolved", "closed"} =>
                  [status |-> "investigating", measures |-> NoText] \in versions[id]
        BY <4>2 DEF IInv, VersionsAreLegal
      <4>5. r.seen = [status |-> r.seen.status, measures |-> r.seen.measures]
        BY <4>2 DEF Rows
      <4>6. CASE r.op = "assign"
        BY <1>1, <4>1, <4>3, <4>4, <4>6
      <4>7. CASE r.op = "rectify"
        BY <1>1, <3>0, <4>1, <4>2, <4>3, <4>4, <4>5, <4>7, TextsAssumption
      <4>8. CASE r.op = "close"
        BY <1>1, <3>0, <4>1, <4>2, <4>3, <4>4, <4>5, <4>8
      <4> QED BY <4>2, <4>6, <4>7, <4>8 DEF Ops
    <3> QED BY <3>1, <3>2
  <2> QED BY <2>1, <2>2, <2>3 DEF VersionsAreLegal
<1> QED BY <1>3, <1>5, <1>6 DEF IInv

\* A step that leaves table, history and other workers alone, and at most
\* frees workers.
LEMMA QuietIInv ==
    ASSUME IInv, UNCHANGED <<incidents, versions>>,
           req' \in [Workers -> Loaded \cup {Idle}],
           \A w \in Workers : req'[w] = req[w] \/ req'[w] = Idle,
           answer' \in [Workers -> [code : {200}, id : Ids, row : Rows]
                                     \cup [code : {0, 400, 409, 500}]]
    PROVE  IInv'
<1>1. TypeOK'
  BY DEF IInv, TypeOK
<1>2. HeldAreVersions'
  BY DEF IInv, HeldAreVersions, IsIdle, Idle
<1>3. VersionsAreLegal'
  BY DEF IInv, VersionsAreLegal
<1> QED BY <1>1, <1>2, <1>3 DEF IInv

\* Reporting an incident gives its id its first version.
LEMMA ReportIInv ==
    ASSUME IInv, NEW w \in Workers, NEW id \in Ids, Report(w, id) \/ ReportFails(w, id)
    PROVE  IInv'
<1> USE DEF Report, ReportFails, Insert, Reply
<1>0. id \notin DOMAIN incidents /\ Reported \in Rows /\ versions[id] = {}
  BY DEF Reported, Rows, Statuses, IInv, VersionsAreLegal
<1>1. /\ incidents' = [i \in DOMAIN incidents \cup {id} |-> IF i = id THEN Reported ELSE incidents[i]]
      /\ DOMAIN incidents' = DOMAIN incidents \cup {id}
      /\ versions' = [versions EXCEPT ![id] = {Reported}]
  BY <1>0 DEF Inserted
<1>2. TypeOK'
  <2>1. IsTable(incidents)'
    BY <1>0, <1>1 DEF IInv, TypeOK, IsTable
  <2>2. versions' \in [Ids -> SUBSET Rows]
    BY <1>0, <1>1 DEF IInv, TypeOK
  <2> QED BY <1>0, <2>1, <2>2 DEF IInv, TypeOK, Ok, Failed
<1>3. HeldAreVersions'
  BY <1>0, <1>1 DEF IInv, HeldAreVersions, IsIdle, TypeOK
<1>4. VersionsAreLegal'
  BY <1>0, <1>1 DEF IInv, VersionsAreLegal, Api, Reported, TypeOK
<1> QED BY <1>2, <1>3, <1>4 DEF IInv

\* The invariant is inductive.
LEMMA NextIInv == IInv /\ [Next]_vars => IInv'
<1> SUFFICES ASSUME IInv, [Next]_vars PROVE IInv'
  OBVIOUS
<1>1. ASSUME NEW w \in Workers, BadRequest(w) \/ QueryFails(w) PROVE IInv'
  BY <1>1, QuietIInv DEF BadRequest, QueryFails, Reply, Failed, IInv, TypeOK
<1>2. ASSUME NEW w \in Workers, Save(w) PROVE IInv'
  BY <1>2, StoreIInv DEF Save, Reply
<1>3. ASSUME NEW w \in Workers, SaveFails(w) PROVE IInv'
  <2>1. CASE Store(req[w].id, Edited(req[w]))
    BY <1>3, <2>1, StoreIInv DEF SaveFails, Reply
  <2>2. CASE UNCHANGED <<incidents, versions>>
    BY <1>3, <2>2, QuietIInv DEF SaveFails, Reply, Failed, IInv, TypeOK
  <2> QED BY <1>3, <2>1, <2>2 DEF SaveFails
<1>4. ASSUME NEW w \in Workers, NEW id \in Ids, Report(w, id) \/ ReportFails(w, id)
      PROVE  IInv'
  BY <1>4, ReportIInv
<1>5. ASSUME NEW w \in Workers, NEW id \in Ids, Get(w, id) PROVE IInv'
  BY <1>5, QuietIInv DEF Get, Reply, Failed, Ok, IInv, TypeOK, IsTable
<1>6. ASSUME NEW w \in Workers, NEW id \in Ids, Assign(w, id) PROVE IInv'
  BY <1>6, FindIInv DEF Assign, Ops
<1>7. ASSUME NEW w \in Workers, NEW id \in Ids, NEW text \in Texts, Rectify(w, id, text)
      PROVE IInv'
  BY <1>7, FindIInv DEF Rectify, Ops
<1>8. ASSUME NEW w \in Workers, NEW id \in Ids, Close(w, id) PROVE IInv'
  BY <1>8, FindIInv DEF Close, Ops
<1>9. CASE Crash
  BY <1>9, QuietIInv DEF Crash, NoAnswer
<1>10. CASE UNCHANGED vars
  BY <1>10, QuietIInv DEF vars, IInv, TypeOK
<1> QED BY <1>1, <1>2, <1>3, <1>4, <1>5, <1>6, <1>7, <1>8, <1>9, <1>10 DEF Next

\* The invariant holds throughout.
LEMMA Invariance == Spec => []IInv
  BY InitIInv, NextIInv, PTL DEF Spec

-----------------------------------------------------------------------------
(***************************************************************************)
(* What follows from it.                                                   *)
(***************************************************************************)

\* Type correctness of every behaviour.
THEOREM TypeCorrect == Spec => []TypeOK
<1>1. IInv => TypeOK
  BY DEF IInv
<1> QED BY <1>1, Invariance, PTL

\* API incidents have measures exactly from resolved on, under any number of
\* overlapping requests, failing updates and crashes.
THEOREM MeasuresCorrect == Spec => []MeasuresMatchStatus
<1>1. IInv => MeasuresMatchStatus
  BY DEF IInv, VersionsAreLegal, MeasuresMatchStatus, Api
<1> QED BY <1>1, Invariance, PTL

\* No incident is closed that was never investigated, and resolved with the
\* same measures.
THEOREM ClosedCorrect == Spec => []ClosedWasResolved
<1>1. IInv => ClosedWasResolved
  BY DEF IInv, VersionsAreLegal, ClosedWasResolved, Api
<1> QED BY <1>1, Invariance, PTL

\* History only grows.
LEMMA VersionsGrow ==
    ASSUME IInv, [Next]_vars, NEW id \in Ids
    PROVE  versions[id] \subseteq versions'[id]
  BY DEF IInv, TypeOK, Next, vars, BadRequest, QueryFails, Save, SaveFails, Store, Report,
         ReportFails, Insert,
         Get, Assign, Rectify, Close, Find, Crash

\* A 200 is only ever answered with a row that was stored.
THEOREM AnswersCorrect == Spec => []AnswersWereStored
<1>1. Init => AnswersWereStored
  BY DEF Init, NoAnswer, AnswersWereStored
<1>2. IInv /\ AnswersWereStored /\ [Next]_vars => AnswersWereStored'
  <2> SUFFICES ASSUME IInv, AnswersWereStored, [Next]_vars,
                      NEW w \in Workers, answer'[w].code = 200
               PROVE  answer'[w].row \in versions'[answer'[w].id]
    BY DEF AnswersWereStored
  <2> USE DEF Reply
  <2>0. /\ answer \in [Workers -> [code : {200}, id : Ids, row : Rows]
                                    \cup [code : {0, 400, 409, 500}]]
        /\ versions \in [Ids -> SUBSET Rows]
    BY DEF IInv, TypeOK
  <2>1. CASE answer'[w] = answer[w]
    <3>1. answer[w].row \in versions[answer[w].id] /\ answer[w].id \in Ids
      BY <2>0, <2>1 DEF AnswersWereStored
    <3> QED BY <2>1, <3>1, VersionsGrow
  <2>2. CASE answer'[w] # answer[w]
    <3>1. ASSUME NEW v \in Workers, Save(v)
          PROVE  answer'[w].row \in versions'[answer'[w].id]
      <4>1. Edited(req[v]) \in Rows /\ req[v].id \in Ids
        BY <3>1, EditedIsLegal DEF Save
      <4>2. v = w /\ answer'[w] = Ok(req[v].id, Edited(req[v]))
        BY <2>0, <2>2, <3>1 DEF Save
      <4> QED BY <2>0, <3>1, <4>1, <4>2 DEF Save, Store, Ok, Written
    <3>2. ASSUME NEW v \in Workers, NEW id \in Ids, Report(v, id)
          PROVE  answer'[w].row \in versions'[answer'[w].id]
      BY <2>0, <2>2, <3>2 DEF Report, Insert, Ok
    <3>3. ASSUME NEW v \in Workers, NEW id \in Ids, Get(v, id)
          PROVE  answer'[w].row \in versions'[answer'[w].id]
      <4>1. versions' = versions /\ (id \in DOMAIN incidents => incidents[id] \in versions[id])
        BY <3>3 DEF Get, IInv, VersionsAreLegal
      <4> QED BY <2>0, <2>2, <3>3, <4>1 DEF Get, Ok, Failed
    <3>4. ASSUME NEW v \in Workers,
                 \/ BadRequest(v) \/ QueryFails(v) \/ SaveFails(v)
                 \/ \E id \in Ids : ReportFails(v, id)
          PROVE  FALSE
      BY <2>0, <2>2, <3>4 DEF BadRequest, QueryFails, SaveFails, ReportFails, Insert, Failed
    <3>5. ASSUME NEW v \in Workers, NEW op, NEW required, NEW id, NEW text,
                 Find(v, op, required, id, text)
          PROVE  FALSE
      BY <2>0, <2>2, <3>5 DEF Find, Failed, NoAnswer
    <3>6. CASE Crash
      BY <3>6 DEF Crash, NoAnswer
    <3>7. CASE UNCHANGED vars
      BY <2>2, <3>7 DEF vars
    <3> QED BY <3>1, <3>2, <3>3, <3>4, <3>5, <3>6, <3>7 DEF Next, Assign, Rectify, Close
  <2> QED BY <2>1, <2>2
<1> QED BY <1>1, <1>2, Invariance, PTL DEF Spec

-----------------------------------------------------------------------------
(***************************************************************************)
(* Steps: the end of the lifecycle, and the refinement.                    *)
(***************************************************************************)

\* Once no request holds an old copy, a closed incident is closed for good.
THEOREM ClosedCorrectAtRest == Spec => ClosedAtRestIsFinal
<1>1. ASSUME IInv, [Next]_vars, NEW id \in Ids, ClosedAtRest(id)
      PROVE  ClosedAtRest(id)' /\ incidents'[id] = incidents[id]
  <2>0. /\ id \in DOMAIN incidents /\ incidents[id].status = "closed"
        /\ \A w \in Workers : ~IsIdle(w) => req[w].id # id
        /\ req \in [Workers -> Loaded \cup {Idle}]
    BY <1>1 DEF ClosedAtRest, IInv, TypeOK
  <2>1. ASSUME NEW w \in Workers, NEW op, NEW required, NEW i, NEW text,
               Find(w, op, required, i, text),
               required \in {"reported", "investigating", "resolved"}
        PROVE  ClosedAtRest(id)' /\ incidents'[id] = incidents[id]
    BY <2>0, <2>1 DEF Find, ClosedAtRest, IsIdle
  <2>2. ASSUME NEW w \in Workers, ~IsIdle(w), Store(req[w].id, Edited(req[w])),
               req' = [req EXCEPT ![w] = Idle]
        PROVE  ClosedAtRest(id)' /\ incidents'[id] = incidents[id]
    BY <2>0, <2>2 DEF Store, ClosedAtRest, IsIdle, Idle
  <2>3. ASSUME UNCHANGED incidents,
               \A w \in Workers : req'[w] = req[w] \/ req'[w] = Idle
        PROVE  ClosedAtRest(id)' /\ incidents'[id] = incidents[id]
    BY <2>0, <2>3 DEF ClosedAtRest, IsIdle, Idle
  <2>4. ASSUME NEW w \in Workers, NEW i \in Ids, Report(w, i) \/ ReportFails(w, i)
        PROVE  ClosedAtRest(id)' /\ incidents'[id] = incidents[id]
    BY <2>0, <2>4 DEF Report, ReportFails, Insert, Inserted, ClosedAtRest, IsIdle
  <2>5. ASSUME NEW w \in Workers, Save(w) \/ SaveFails(w)
        PROVE  ClosedAtRest(id)' /\ incidents'[id] = incidents[id]
    BY <2>0, <2>2, <2>3, <2>5 DEF Save, SaveFails
  <2>6. ASSUME NEW w \in Workers, NEW i \in Ids,
               \/ Assign(w, i) \/ Close(w, i)
               \/ \E text \in Texts : Rectify(w, i, text)
        PROVE  ClosedAtRest(id)' /\ incidents'[id] = incidents[id]
    BY <2>1, <2>6 DEF Assign, Close, Rectify
  <2>7. ASSUME NEW w \in Workers,
               \/ BadRequest(w) \/ QueryFails(w)
               \/ \E i \in Ids : Get(w, i)
        PROVE  ClosedAtRest(id)' /\ incidents'[id] = incidents[id]
    BY <2>3, <2>7 DEF BadRequest, QueryFails, Get
  <2>8. CASE Crash
    BY <2>3, <2>8 DEF Crash
  <2>9. CASE UNCHANGED vars
    BY <2>3, <2>9 DEF vars
  <2> QED BY <1>1, <2>4, <2>5, <2>6, <2>7, <2>8, <2>9 DEF Next
<1>2. IInv /\ [Next]_vars => [ClosedKept]_vars
  BY <1>1 DEF ClosedKept
<1> QED BY <1>2, Invariance, PTL DEF Spec, ClosedAtRestIsFinal

\* Every step of the code is a step of IncidentVersions or leaves table and
\* history alone: a save is the abstract transition from the version read.
THEOREM RefinesVersions == Spec => ImplementsVersions
<1>1. Init => Versions!Init
  BY DEF Init, Versions!Init, Versions!L!Init
<1>2. IInv /\ [Next]_vars => [Versions!Next]_(Versions!vvars)
  <2> SUFFICES ASSUME IInv, [Next]_vars
               PROVE  Versions!Next \/ UNCHANGED <<incidents, versions>>
    BY DEF Versions!vvars
  <2>1. ASSUME NEW w \in Workers, NEW id \in Ids, Report(w, id) \/ ReportFails(w, id)
        PROVE  Versions!Next
    BY <2>1 DEF Report, ReportFails, Insert, Reported, Inserted, Versions!Next, Versions!Open, Versions!L!Open,
                Versions!L!Fresh, Versions!L!Inserted
  <2>2. ASSUME NEW w \in Workers, ~IsIdle(w), Store(req[w].id, Edited(req[w]))
        PROVE  Versions!Next
    <3> DEFINE r == req[w]
               new == Edited(r)
    <3>1. /\ r \in Loaded /\ r.id \in Ids /\ r.id \in DOMAIN incidents
          /\ r.op = "assign" => new = [status |-> "investigating", measures |-> r.seen.measures]
          /\ r.op = "rectify" => new = [status |-> "resolved", measures |-> r.text]
          /\ r.op = "close" => new = [status |-> "closed", measures |-> r.seen.measures]
      BY <2>2, EditedIsLegal
    <3>2. /\ incidents' = [incidents EXCEPT ![r.id] = new]
          /\ versions' = [versions EXCEPT ![r.id] = @ \cup {new}]
      BY <2>2 DEF Store, Written
    <3>3. /\ r.op \in Ops /\ r.seen \in versions[r.id]
          /\ r.op = "assign"  => r.seen.status = "reported"
          /\ r.op = "rectify" => r.seen.status = "investigating" /\ r.text \in Texts
          /\ r.op = "close"   => r.seen.status = "resolved"
      BY <2>2, <3>1 DEF IInv, HeldAreVersions, Loaded
    <3>4. ASSUME NEW text \in Texts, r.op = "rectify" => text = r.text
          PROVE  Versions!AdvanceFrom(r.seen, r.id, r.op, text)
      <4>1. r.seen.status = Versions!L!From[r.op]
        BY <3>3 DEF Ops, Versions!L!From
      <4>2. new = Versions!L!Successor(r.op, r.seen, text)
        BY <3>1, <3>3, <3>4 DEF Ops, Versions!L!Successor, Versions!L!To
      <4> QED BY <3>1, <3>2, <4>1, <4>2 DEF Versions!AdvanceFrom
    <3> QED BY <3>1, <3>3, <3>4, TextsAssumption DEF Versions!Next, Ops, Versions!Ops
  <2>3. ASSUME NEW w \in Workers, Save(w) \/ SaveFails(w)
        PROVE  Versions!Next \/ UNCHANGED <<incidents, versions>>
    BY <2>2, <2>3 DEF Save, SaveFails
  <2> QED BY <2>1, <2>3 DEF Next, vars, BadRequest, QueryFails, Get, Assign, Rectify, Close,
                            Find, Crash
<1> QED BY <1>1, <1>2, Invariance, PTL DEF Spec, ImplementsVersions, Versions!Spec

\* If no request was overtaken, a step is one of the lifecycle.
LEMMA FreshStep ==
    IInv /\ HeldIsCurrent /\ [Next]_vars => Lifecycle!Next \/ UNCHANGED incidents
<1> SUFFICES ASSUME IInv, HeldIsCurrent, [Next]_vars
             PROVE  Lifecycle!Next \/ UNCHANGED incidents
  OBVIOUS
<1>1. ASSUME NEW w \in Workers, NEW id \in Ids, Report(w, id) \/ ReportFails(w, id)
      PROVE  Lifecycle!Next
  BY <1>1 DEF Report, ReportFails, Insert, Reported, Inserted, Lifecycle!Next, Lifecycle!Open, Lifecycle!Fresh,
              Lifecycle!Inserted
<1>2. ASSUME NEW w \in Workers, ~IsIdle(w), Store(req[w].id, Edited(req[w]))
      PROVE  Lifecycle!Next
  <2> DEFINE r == req[w]
             new == Edited(r)
  <2>1. /\ r \in Loaded /\ r.id \in Ids /\ r.id \in DOMAIN incidents
        /\ r.op = "assign" => new = [status |-> "investigating", measures |-> r.seen.measures]
        /\ r.op = "rectify" => new = [status |-> "resolved", measures |-> r.text]
        /\ r.op = "close" => new = [status |-> "closed", measures |-> r.seen.measures]
    BY <1>2, EditedIsLegal
  <2>2. incidents' = [incidents EXCEPT ![r.id] = new] /\ r.seen = incidents[r.id]
    BY <1>2 DEF Store, Written, HeldIsCurrent
  <2>3. /\ r.op \in Ops
        /\ r.op = "assign"  => r.seen.status = "reported"
        /\ r.op = "rectify" => r.seen.status = "investigating" /\ r.text \in Texts
        /\ r.op = "close"   => r.seen.status = "resolved"
    BY <1>2, <2>1 DEF IInv, HeldAreVersions, Loaded
  <2>4. ASSUME NEW text \in Texts, r.op = "rectify" => text = r.text
        PROVE  Lifecycle!Advance(r.id, r.op, text)
    <3>1. r.seen.status = Lifecycle!From[r.op]
      BY <2>3 DEF Ops, Lifecycle!From
    <3>2. new = Lifecycle!Successor(r.op, r.seen, text)
      BY <2>1, <2>3, <2>4 DEF Ops, Lifecycle!Successor, Lifecycle!To
    <3> QED BY <2>1, <2>2, <3>1, <3>2 DEF Lifecycle!Advance
  <2> QED BY <2>1, <2>3, <2>4, TextsAssumption DEF Lifecycle!Next, Ops, Lifecycle!Ops
<1>3. ASSUME NEW w \in Workers, Save(w) \/ SaveFails(w)
      PROVE  Lifecycle!Next \/ UNCHANGED incidents
  BY <1>2, <1>3 DEF Save, SaveFails
<1> QED BY <1>1, <1>3 DEF Next, vars, BadRequest, QueryFails, Get, Assign, Rectify, Close,
                          Find, Crash

\* The code leaves the lifecycle only when a request was overtaken.
THEOREM FollowsLifecycle == Spec => LifecycleUnlessOvertaken
<1>1. IInv /\ [Next]_vars => [HeldIsCurrent => Lifecycle!Next \/ UNCHANGED incidents]_vars
  BY FreshStep
<1> QED BY <1>1, Invariance, PTL DEF Spec, LifecycleUnlessOvertaken

\* With a single worker nothing can be overtaken: while requests do not overlap,
\* the code implements the lifecycle itself, crashes and lost updates included.
THEOREM SerialImplementsLifecycle ==
    ASSUME \A v, w \in Workers : v = w
    PROVE  Spec => ImplementsLifecycle
<1>1. Init => Lifecycle!Init /\ HeldIsCurrent
  BY DEF Init, Lifecycle!Init, HeldIsCurrent, IsIdle, Idle
<1>2. IInv /\ HeldIsCurrent /\ [Next]_vars => HeldIsCurrent'
  <2> SUFFICES ASSUME IInv, HeldIsCurrent, [Next]_vars, NEW w \in Workers, ~IsIdle(w)'
               PROVE  req'[w].seen = incidents'[req'[w].id]
    BY DEF HeldIsCurrent
  <2>0. req \in [Workers -> Loaded \cup {Idle}] /\ Workers = {w}
    BY DEF IInv, TypeOK
  <2>1. ASSUME NEW op, NEW required, NEW id, NEW text, Find(w, op, required, id, text)
        PROVE  req'[w].seen = incidents'[req'[w].id]
    BY <2>0, <2>1 DEF Find, HeldIsCurrent, IsIdle
  <2>2. ASSUME UNCHANGED <<incidents, req>> PROVE req'[w].seen = incidents'[req'[w].id]
    BY <2>2 DEF HeldIsCurrent, IsIdle
  <2>3. ASSUME Save(w) \/ SaveFails(w) \/ Crash PROVE FALSE
    BY <2>0, <2>3 DEF Save, SaveFails, Crash, IsIdle, Idle
  <2>4. ASSUME NEW id \in Ids, Report(w, id) \/ ReportFails(w, id)
        PROVE  req'[w].seen = incidents'[req'[w].id]
    BY <2>4 DEF Report, ReportFails, Insert, IsIdle
  <2> QED BY <2>0, <2>1, <2>2, <2>3, <2>4 DEF Next, vars, BadRequest, QueryFails, Get, Assign,
                                              Rectify, Close
<1>3. IInv /\ HeldIsCurrent /\ [Next]_vars => [Lifecycle!Next]_incidents
  BY FreshStep
<1> QED BY <1>1, <1>2, <1>3, Invariance, PTL DEF Spec, ImplementsLifecycle, Lifecycle!Spec

=============================================================================
