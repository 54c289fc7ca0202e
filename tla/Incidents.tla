----------------------------- MODULE Incidents -----------------------------
(***************************************************************************)
(* SafetyIncidentService with its handler and repository, over a shared    *)
(* MySQL table.  Each request runs in a goroutine of its own.  Assigning,  *)
(* rectifying and closing read the row (FindByID), check its status and    *)
(* later write ALL its columns back (gorm Save); nothing locks the row in  *)
(* between, so requests on one incident interleave.  Reporting is a single *)
(* INSERT, reading a single SELECT.                                        *)
(*                                                                         *)
(* "versions" is a history variable: every row an incident has had.        *)
(***************************************************************************)
EXTENDS Naturals, IncidentRows

CONSTANTS Workers   \* request goroutines

VARIABLES
    incidents,      \* the safety_incidents table
    req,            \* what each worker has read and is about to save
    answer,         \* the last HTTP answer of each worker
    versions        \* history: the rows each incident has had

vars == <<incidents, req, answer, versions>>

Idle == [op |-> "none"]
Loaded == [op : Ops, id : Ids, seen : Rows,
           text : Texts \cup {NoText}]

NoAnswer == [code |-> 0]
Ok(id, row) == [code |-> 200, id |-> id, row |-> row]
Failed(code) == [code |-> code]

-----------------------------------------------------------------------------

Init ==
    /\ incidents = SeedRows
    /\ req = [w \in Workers |-> Idle]
    /\ answer = [w \in Workers |-> NoAnswer]
    /\ versions = [id \in Ids |->
                     IF id \in DOMAIN SeedRows THEN {SeedRows[id]} ELSE {}]

IsIdle(w) == req[w].op = "none"

Reply(w, a) == answer' = [answer EXCEPT ![w] = a]

\* Malformed id or body: the handler answers 400 before the service runs.
BadRequest(w) ==
    /\ IsIdle(w)
    /\ Reply(w, Failed(400))
    /\ UNCHANGED <<incidents, req, versions>>

\* Report inserts a fresh row under the next key.
Reported == [status |-> "reported", measures |-> NoText]

Insert(w, id) ==
    /\ IsIdle(w)
    /\ id \notin DOMAIN incidents
    /\ incidents' = Inserted(incidents, id, Reported)
    /\ versions' = [versions EXCEPT ![id] = @ \cup {Reported}]
    /\ UNCHANGED req

Report(w, id) == Insert(w, id) /\ Reply(w, Ok(id, Reported))

\* The INSERT returns an error, answered 500, but its row is there.
ReportFails(w, id) == Insert(w, id) /\ Reply(w, Failed(500))

\* The first half of a transition: FindByID and the status check.  A missing
\* row is a plain error, not an AppError, and so answered 500.
Find(w, op, required, id, text) ==
    /\ IsIdle(w)
    /\ IF id \notin DOMAIN incidents
         THEN Reply(w, Failed(500)) /\ UNCHANGED req
       ELSE IF incidents[id].status # required
         THEN Reply(w, Failed(409)) /\ UNCHANGED req
       ELSE /\ req' = [req EXCEPT ![w] =
                         [op |-> op, id |-> id, seen |-> incidents[id], text |-> text]]
            /\ Reply(w, NoAnswer)
    /\ UNCHANGED <<incidents, versions>>

\* A faulty variant: the status check is left out.
FindUnchecked(w, op, id, text) ==
    Find(w, op, IF id \in DOMAIN incidents THEN incidents[id].status ELSE "none", id, text)

Assign(w, id) == Find(w, "assign", "reported", id, NoText)

Rectify(w, id, text) == Find(w, "rectify", "investigating", id, text)

CloseUnchecked(w, id) == FindUnchecked(w, "close", id, NoText)
Close(w, id) == Find(w, "close", "resolved", id, NoText)

\* The fields a transition sets on the row it read.
Edited(r) ==
    CASE r.op = "assign"  -> [r.seen EXCEPT !.status = "investigating"]
      [] r.op = "rectify" -> [r.seen EXCEPT !.status = "resolved", !.measures = r.text]
      [] r.op = "close"   -> [r.seen EXCEPT !.status = "closed"]

\* A faulty variant: only the column the transition is about is updated.
StatusColumnOnly(current, row) == [current EXCEPT !.status = row.status]

\* gorm Save updates every column, so nothing of the current row survives.
Written(current, row) == row

Store(id, row) ==
    /\ incidents' = [incidents EXCEPT ![id] = Written(@, row)]
    /\ versions' = [versions EXCEPT ![id] = @ \cup {Written(incidents[id], row)}]

\* The second half of a transition.
Save(w) ==
    LET r == req[w] IN
    /\ ~IsIdle(w)
    /\ Store(r.id, Edited(r))
    /\ Reply(w, Ok(r.id, Edited(r)))
    /\ req' = [req EXCEPT ![w] = Idle]

\* A faulty variant: the error of the UPDATE is not looked at.
SaveFailureIgnored(w) ==
    /\ ~IsIdle(w)
    /\ Reply(w, Ok(req[w].id, Edited(req[w])))
    /\ req' = [req EXCEPT ![w] = Idle]
    /\ UNCHANGED <<incidents, versions>>

\* The UPDATE returns an error, answered 500.  Usually nothing was written; a
\* connection that breaks after the commit leaves the new row behind.
SaveFails(w) ==
    /\ ~IsIdle(w)
    /\ \/ Store(req[w].id, Edited(req[w]))
       \/ UNCHANGED <<incidents, versions>>
    /\ Reply(w, Failed(500))
    /\ req' = [req EXCEPT ![w] = Idle]

\* An INSERT or SELECT that fails and leaves nothing, answered 500.
QueryFails(w) ==
    /\ IsIdle(w)
    /\ Reply(w, Failed(500))
    /\ UNCHANGED <<incidents, req, versions>>

Get(w, id) ==
    /\ IsIdle(w)
    /\ Reply(w, IF id \in DOMAIN incidents THEN Ok(id, incidents[id]) ELSE Failed(500))
    /\ UNCHANGED <<incidents, req, versions>>

\* The process ends: requests in flight are gone, the table stays.
Crash ==
    /\ req' = [w \in Workers |-> Idle]
    /\ answer' = [w \in Workers |-> NoAnswer]
    /\ UNCHANGED <<incidents, versions>>

Next ==
    \/ \E w \in Workers :
          \/ BadRequest(w) \/ QueryFails(w) \/ Save(w) \/ SaveFails(w)
          \/ \E id \in Ids :
                \/ Report(w, id) \/ ReportFails(w, id) \/ Get(w, id) \/ Assign(w, id) \/ Close(w, id)
                \/ \E text \in Texts : Rectify(w, id, text)
    \/ Crash

Spec == Init /\ [][Next]_vars

-----------------------------------------------------------------------------
(***************************************************************************)
(* The properties.                                                         *)
(***************************************************************************)

\* Types: the table holds rows, and a worker that has read a row will save it
\* under an id of the table.
TypeOK ==
    /\ IsTable(incidents)
    /\ req \in [Workers -> Loaded \cup {Idle}]
    /\ answer \in [Workers -> [code : {200}, id : Ids, row : Rows]
                                \cup [code : {0, 400, 409, 500}]]
    /\ versions \in [Ids -> SUBSET Rows]

Api == Ids \ DOMAIN SeedRows    \* the incidents reported through the API

\* A row of an incident reported through the API has measures exactly from
\* resolved on, although overtaken requests overwrite newer rows: every write
\* carries status and measures of the same version (safety_incident_service.go
\* 71-74 saves the whole row).
MeasuresMatchStatus ==
    \A id \in Api \cap DOMAIN incidents :
        incidents[id].status \in {"resolved", "closed"} <=> incidents[id].measures # NoText

\* No interleaving closes an incident that was not, at some time, resolved
\* with the same measures, and none is resolved that was not investigated.
ClosedWasResolved ==
    \A id \in Api \cap DOMAIN incidents :
        LET row == incidents[id] IN
        /\ row.status = "closed" => [row EXCEPT !.status = "resolved"] \in versions[id]
        /\ row.status \in {"resolved", "closed"} =>
              [status |-> "investigating", measures |-> NoText] \in versions[id]

\* A caller that was answered 200 was shown a row that really was in the
\* table under that id; an error of the UPDATE never passes for success.
AnswersWereStored ==
    \A w \in Workers :
        answer[w].code = 200 => answer[w].row \in versions[answer[w].id]

\* The inductive invariant behind the three above: a worker holds a version
\* the incident really had, in the status its operation insists on ...
HeldAreVersions ==
    \A w \in Workers : ~IsIdle(w) =>
        LET r == req[w] IN
        /\ r.id \in DOMAIN incidents
        /\ r.seen \in versions[r.id]
        /\ r.op = "assign"  => r.seen.status = "reported"
        /\ r.op = "rectify" => r.seen.status = "investigating" /\ r.text \in Texts
        /\ r.op = "close"   => r.seen.status = "resolved"

\* ... and every version, not only the current one, is well formed and has
\* the version it came from beside it.
VersionsAreLegal ==
    /\ \A id \in DOMAIN incidents : incidents[id] \in versions[id]
    /\ \A id \in Ids \ DOMAIN incidents : versions[id] = {}
    /\ \A id \in Api : \A v \in versions[id] :
          /\ v.status \in {"resolved", "closed"} <=> v.measures # NoText
          /\ v.status = "closed" => [v EXCEPT !.status = "resolved"] \in versions[id]
          /\ v.status \in {"resolved", "closed"} =>
                [status |-> "investigating", measures |-> NoText] \in versions[id]

IInv == TypeOK /\ HeldAreVersions /\ VersionsAreLegal

\* An incident is at rest when it is closed and no request holds an old copy.
ClosedAtRest(id) ==
    /\ id \in DOMAIN incidents
    /\ incidents[id].status = "closed"
    /\ \A w \in Workers : ~IsIdle(w) => req[w].id # id

ClosedKept ==
    \A id \in Ids : ClosedAtRest(id) =>
        ClosedAtRest(id)' /\ incidents'[id] = incidents[id]

\* Once a closed incident is at rest it stays so, with the same measures: only
\* a request that read the row before it was closed can reopen it.
ClosedAtRestIsFinal == [][ClosedKept]_vars

\* However requests overlap, every row is the legal successor of a version
\* the incident really had: the code implements IncidentVersions.
Versions == INSTANCE IncidentVersions
ImplementsVersions == Versions!Spec

\* No request was overtaken: what it holds is the row as it is.
HeldIsCurrent == \A w \in Workers : ~IsIdle(w) => req[w].seen = incidents[req[w].id]

\* As long as no request was overtaken, every step of the code is a step of the
\* lifecycle, crashes and failing updates included.
Lifecycle == INSTANCE IncidentLifecycle
LifecycleUnlessOvertaken ==
    [][HeldIsCurrent => Lifecycle!Next \/ UNCHANGED incidents]_vars

\* What that comes to for a single worker.
ImplementsLifecycle == Lifecycle!Spec

\* The place of a status in the state machine.
Stage == [reported |-> 1, investigating |-> 2, resolved |-> 3, closed |-> 4]

\* "IncidentStatus 的流转规则在 service 状态机" (wje-132.md:226): the status of an
\* incident moves along that machine and never back.  The code breaks it: a
\* request that was overtaken writes its old row's successor.
StatusNeverGoesBack ==
    [][\A id \in DOMAIN incidents :
          Stage[incidents'[id].status] >= Stage[incidents[id].status]]_vars

=============================================================================
