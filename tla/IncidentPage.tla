---------------------------- MODULE IncidentPage ----------------------------
(***************************************************************************)
(* The browser's page of the incidents: pages/IncidentManage.tsx with      *)
(* hooks/useIncident.ts and stores/incidentStore.ts.  The dialog shows the *)
(* incident whose detail arrived last, which need not be the one the       *)
(* dialog was opened for: details come late and in any order, and after    *)
(* every step the incident it was for is loaded again, whatever the dialog *)
(* is about by then.  The buttons act on what is shown.                    *)
(*                                                                         *)
(* An operation is one step of the server here, as IncidentLifecycle has   *)
(* it: what overlapping ones may do is the subject of Incidents.  The      *)
(* fields "asked" and "seen" and the variable "moved" are history.         *)
(***************************************************************************)
EXTENDS Naturals, FiniteSets

CONSTANTS
    Incidents,      \* ids
    SeverityOf,     \* of each incident
    StatusOptions,  \* the statuses there are to select
    MaxSent,        \* bound: how many requests the page sends
    MaxPending      \* bound: how many are under way at a time

VARIABLES
    page,           \* the component's state, and how often it was mounted
    store,          \* the list on show; it outlives the component
    sent, count,    \* requests the page has sent, and how many
    status,         \* the server: of each incident
    moved           \* history: the steps the server took for this page

vars == <<page, store, sent, count, status, moved>>

-----------------------------------------------------------------------------

Walk == <<"reported", "investigating", "resolved", "closed">>
Statuses == {Walk[n] : n \in DOMAIN Walk}
Ops == {"assign", "rectify", "close"}
From == [assign |-> "reported", rectify |-> "investigating", close |-> "resolved"]
To == [assign |-> "investigating", rectify |-> "resolved", close |-> "closed"]

Filters == [severity : {""} \cup {SeverityOf[id] : id \in Incidents}, status : {""} \cup StatusOptions]
NoFilter == [severity |-> "", status |-> ""]

Found(f) == {id \in Incidents : f.severity \in {"", SeverityOf[id]} /\ f.status \in {"", status[id]}}

-----------------------------------------------------------------------------
(***************************************************************************)
(* Requests.                                                               *)
(***************************************************************************)

Unanswered == [code |-> 0]

Fetch(filters) ==
    [no |-> count + 1, op |-> "list", filters |-> filters, answer |-> Unanswered]

\* incident.load(id), on account of the dialog opened with request "asked".
Load(id, asked, mount) ==
    [no |-> count + 1, op |-> "get", id |-> id, asked |-> asked, mount |-> mount,
     answer |-> Unanswered]

\* Some requests are done with, and at most one is sent.
Exchange(done, new) ==
    /\ count' = count + Cardinality(new)
    /\ count' <= MaxSent
    /\ sent' = (sent \ done) \cup new
    /\ Cardinality(sent') <= MaxPending

Answer(m, answer) ==
    /\ sent' = (sent \ {m}) \cup {[m EXCEPT !.answer = answer]}
    /\ UNCHANGED <<page, store, count>>

NoDialog == 0
NothingShown == [id |-> 0, status |-> "none", asked |-> 0]

Mounted(n) ==
    [mount |-> n, filters |-> NoFilter, dialog |-> NoDialog, shown |-> NothingShown, asked |-> 0]

Init ==
    /\ page = Mounted(1)
    /\ store = {}
    /\ sent = {[no |-> 1, op |-> "list", filters |-> NoFilter, answer |-> Unanswered]}
    /\ count = 1
    /\ status = [id \in Incidents |-> "reported"]
    /\ moved = {}

-----------------------------------------------------------------------------
(***************************************************************************)
(* What the user does.  An open dialog covers the page.                    *)
(***************************************************************************)

IsOpen == page.dialog # NoDialog

\* Either selection replaces the other one, and the effect fetches the list.
Select(filters) ==
    /\ ~IsOpen
    /\ filters.severity = "" \/ filters.status = ""
    /\ page' = [page EXCEPT !.filters = filters]
    /\ Exchange({}, {Fetch(filters)})
    /\ UNCHANGED <<store, status, moved>>

\* A faulty variant: the incident is loaded next to setDetailId, where the state
\* is still the old one.
LoadedAtOnce(id) == IF page.shown = NothingShown THEN id ELSE page.shown.id

\* The effect runs after the render, with the new detailId.
Loaded(id) == id

OpenDetail(id) ==
    /\ ~IsOpen
    /\ id \in store
    /\ page' = [page EXCEPT !.dialog = id, !.asked = count + 1]
    /\ Exchange({}, {Load(Loaded(id), count + 1, page.mount)})
    /\ UNCHANGED <<store, status, moved>>

\* What was shown stays, behind the closed dialog.
CloseDetail ==
    /\ IsOpen
    /\ page' = [page EXCEPT !.dialog = NoDialog]
    /\ UNCHANGED <<store, sent, count, status, moved>>

\* A faulty variant: the buttons act on the incident the dialog was opened for.
TargetOfDialog == page.dialog

Target == page.shown.id

\* A button of the dialog, there for the status that is shown.
Click(op) ==
    /\ IsOpen
    /\ page.shown.status = From[op]
    /\ Exchange({}, {[no |-> count + 1, op |-> op, id |-> Target, seen |-> page.shown,
                      mount |-> page.mount, answer |-> Unanswered]})
    /\ UNCHANGED <<page, store, status, moved>>

\* onReport, up to its await: the date is sent without a zone.
Report ==
    /\ ~IsOpen
    /\ Exchange({}, {[no |-> count + 1, op |-> "report", answer |-> Unanswered]})
    /\ UNCHANGED <<page, store, status, moved>>

\* The user goes to another page and comes back.
Return ==
    /\ page' = Mounted(page.mount + 1)
    /\ Exchange({}, {Fetch(NoFilter)})
    /\ UNCHANGED <<store, status, moved>>

-----------------------------------------------------------------------------
(***************************************************************************)
(* What the server does.                                                   *)
(***************************************************************************)

ServeList(m) ==
    /\ m.op = "list" /\ m.answer = Unanswered
    /\ Answer(m, [code |-> 200, rows |-> Found(m.filters)])
    /\ UNCHANGED <<status, moved>>

ServeGet(m) ==
    /\ m.op = "get" /\ m.answer = Unanswered
    /\ Answer(m, [code |-> 200, status |-> status[m.id]])
    /\ UNCHANGED <<status, moved>>

\* From another status: 409.
ServeStep(m) ==
    /\ m.op \in Ops /\ m.answer = Unanswered
    /\ IF status[m.id] = From[m.op]
         THEN /\ status' = [status EXCEPT ![m.id] = To[m.op]]
              /\ moved' = moved \cup {[id |-> m.id, op |-> m.op, seen |-> m.seen]}
              /\ Answer(m, [code |-> 200])
         ELSE /\ Answer(m, [code |-> 409])
              /\ UNCHANGED <<status, moved>>

\* 400, for the date.
ServeReport(m) ==
    /\ m.op = "report" /\ m.answer = Unanswered
    /\ Answer(m, [code |-> 400])
    /\ UNCHANGED <<status, moved>>

\* Another client takes a step.
Elsewhere(id, op) ==
    /\ status[id] = From[op]
    /\ status' = [status EXCEPT ![id] = To[op]]
    /\ UNCHANGED <<page, store, sent, count, moved>>

-----------------------------------------------------------------------------
(***************************************************************************)
(* The answers.                                                            *)
(***************************************************************************)

\* A rejected promise - refused, broken off, or no answer within the fifteen
\* seconds: a message to the user, and nothing else.
Rejected(m) ==
    /\ Exchange({m}, {})
    /\ UNCHANGED <<page, store, status, moved>>

ListArrives(m) ==
    /\ m.op = "list" /\ m.answer.code = 200
    /\ store' = m.answer.rows
    /\ Exchange({m}, {})
    /\ UNCHANGED <<page, status, moved>>

\* setIncident, if the component is still there.
DetailArrives(m) ==
    /\ m.op = "get" /\ m.answer.code = 200
    /\ page' = IF m.mount = page.mount
                 THEN [page EXCEPT !.shown = [id |-> m.id, status |-> m.answer.status,
                                              asked |-> m.asked]]
                 ELSE page
    /\ Exchange({m}, {})
    /\ UNCHANGED <<store, status, moved>>

\* The rest of assign, rectify and close: the incident is loaded again.
StepArrives(m) ==
    /\ m.op \in Ops /\ m.answer.code = 200
    /\ Exchange({m}, {Load(m.id, m.seen.asked, m.mount)})
    /\ UNCHANGED <<page, store, status, moved>>

Next ==
    \/ CloseDetail \/ Report \/ Return
    \/ \E filters \in Filters : Select(filters)
    \/ \E id \in Incidents : OpenDetail(id)
    \/ \E op \in Ops : Click(op) \/ (\E id \in Incidents : Elsewhere(id, op))
    \/ \E m \in sent :
          \/ ServeList(m) \/ ServeGet(m) \/ ServeStep(m) \/ ServeReport(m)
          \/ Rejected(m) \/ ListArrives(m) \/ DetailArrives(m) \/ StepArrives(m)

Spec == Init /\ [][Next]_vars

-----------------------------------------------------------------------------
(***************************************************************************)
(* The properties.                                                         *)
(***************************************************************************)

ShownOK(s) == s = NothingShown \/ (s.id \in Incidents /\ s.status \in Statuses /\ s.asked \in 1..count)

\* Types of the page, its requests and the table.
TypeOK ==
    /\ page.mount \in Nat /\ page.filters \in Filters /\ page.asked \in 0..count
    /\ page.dialog \in Incidents \cup {NoDialog}
    /\ ShownOK(page.shown)
    /\ store \subseteq Incidents
    /\ \A m \in sent : m.no \in 1..count /\ (m.op \in Ops => m.id \in Incidents /\ ShownOK(m.seen))
    /\ status \in [Incidents -> Statuses]

\* A step the server takes for this page is one of the incident, and from the
\* status, that the user saw at the click, whichever details arrived meanwhile
\* and whoever else was at work (IncidentManage: cur.id, cur.status).
StepsAreOfWhatWasSeen ==
    \A s \in moved : s.seen.id = s.id /\ s.seen.status = From[s.op]

\* What the dialog shows is the incident it was opened for, as soon as the load
\* on that account is in: only an answer to something older shows another one.
ShownIsChosen ==
    (IsOpen /\ page.shown.asked >= page.asked) => page.shown.id = page.dialog

-----------------------------------------------------------------------------
(***************************************************************************)
(* The inductive invariant (proved in PagesProofs).                        *)
(***************************************************************************)

Shown == {NothingShown} \cup [id : Incidents, status : Statuses, asked : Nat]

ListMessages ==
    [no : Nat, op : {"list"}, filters : Filters,
     answer : {Unanswered} \cup [code : {200}, rows : SUBSET Incidents]]
GetMessages ==
    [no : Nat, op : {"get"}, id : Incidents, asked : Nat, mount : Nat,
     answer : {Unanswered} \cup [code : {200}, status : Statuses]]
StepMessages ==
    [no : Nat, op : Ops, id : Incidents, seen : Shown, mount : Nat,
     answer : [code : {0, 200, 409}]]
ReportMessages == [no : Nat, op : {"report"}, answer : [code : {0, 400}]]
Messages == ListMessages \cup GetMessages \cup StepMessages \cup ReportMessages

Shapes ==
    /\ page \in [mount : Nat, filters : Filters, dialog : Incidents \cup {NoDialog},
                 shown : Shown, asked : 0 .. count]
    /\ count \in Nat
    /\ sent \subseteq Messages
    /\ \A m \in sent : m.op = "get" => m.asked \in 1 .. count

\* A step on its way was clicked for what was shown.
StepsFit == \A m \in sent : m.op \in Ops => m.id = m.seen.id /\ m.seen.status = From[m.op]

\* On whose account a detail is on its way, or will be when the answer is in.
Account(m) == IF m.op = "get" THEN m.asked ELSE m.seen.asked

\* Details on account of the open dialog are of the incident it is about.
FreshDetailsFit ==
    IsOpen => \A m \in sent : m.op \in Ops \cup {"get"} /\ Account(m) >= page.asked =>
                  m.id = page.dialog

IInv ==
    /\ TypeOK /\ Shapes
    /\ StepsFit /\ StepsAreOfWhatWasSeen
    /\ FreshDetailsFit /\ ShownIsChosen

=============================================================================
