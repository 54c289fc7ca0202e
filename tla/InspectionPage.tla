--------------------------- MODULE InspectionPage ---------------------------
(***************************************************************************)
(* The browser's page of the inspections (pages/InspectionManage.tsx) with *)
(* the store of its list, and the server as the page sees it.  The page is *)
(* single threaded, but it goes on while its requests are under way, and   *)
(* answers come in any order, late, or never.  What stands behind an       *)
(* "await" runs with the values its handler was called with (the closure). *)
(*                                                                         *)
(* An execution is one step here, as AtomicInspections promises; other     *)
(* clients execute inspections, too.                                       *)
(*                                                                         *)
(* The fields "asked" and the variable "told" are history.                 *)
(***************************************************************************)
EXTENDS Naturals, FiniteSets

CONSTANTS
    Inspections,    \* ids, the greater the later the inspection's date
    ItemsOf,        \* the items of each inspection
    PageSize,       \* rows to a page
    Pages,          \* the pages there are to turn to
    MaxSent,        \* bound: how many requests the page sends
    MaxPending      \* bound: how many are under way at a time

VARIABLES
    page,           \* the component's state, and how often it was mounted
    store,          \* the list on show; it outlives the component
    sent,           \* requests the page has sent, and their answers
    count,          \* how many it has sent
    verdicts,       \* the server: the list each verdict was computed from
    told            \* history: the executions reported as a success

vars == <<page, store, sent, count, verdicts, told>>

-----------------------------------------------------------------------------
(***************************************************************************)
(* The server.                                                             *)
(***************************************************************************)

Lists(id) == [ItemsOf[id] -> BOOLEAN]

StatusOf(id) ==
    IF id \notin DOMAIN verdicts THEN "scheduled"
    ELSE IF \A i \in ItemsOf[id] : verdicts[id].list[i] THEN "completed" ELSE "failed"

MarksOf(id) ==
    IF id \in DOMAIN verdicts THEN verdicts[id].list ELSE [i \in ItemsOf[id] |-> FALSE]

\* status = "" OR status = ?, the latest first, one page.
RowsOf(query) ==
    LET found == {id \in Inspections : query.filter \in {"", StatusOf(id)}}
        place(id) == Cardinality({j \in found : j > id})
    IN  {id \in found : place(id) \div PageSize = query.page - 1}

Decided(id, by, list) ==
    verdicts' = [i \in DOMAIN verdicts \cup {id} |->
                    IF i = id THEN [by |-> by, list |-> list] ELSE verdicts[i]]

-----------------------------------------------------------------------------
(***************************************************************************)
(* Requests.                                                               *)
(***************************************************************************)

Filters == {"", "scheduled", "completed", "failed"}

FirstQuery == [filter |-> "", page |-> 1]
Queries == [filter : Filters, page : Pages]

Unanswered == [way |-> "there"]
Refused == [way |-> "back", ok |-> FALSE]

\* store.fetchList(query), called on account of the request numbered "asked".
Fetch(query, asked) ==
    [no |-> count + 1, op |-> "list", query |-> query, asked |-> asked, answer |-> Unanswered]

\* Some requests are done with, and at most one is sent.
Exchange(done, new) ==
    /\ count + Cardinality(new) <= MaxSent
    /\ count' = count + Cardinality(new)
    /\ sent' = (sent \ done) \cup new
    /\ Cardinality(sent') <= MaxPending

Answer(m, answer) ==
    /\ sent' = (sent \ {m}) \cup {[m EXCEPT !.answer = answer]}
    /\ UNCHANGED <<page, store, count, told>>

\* A faulty variant: the interceptor lets a refusal pass.
ResolvesAlways(m) == m.answer.way = "back"

\* Any answer but a success is rejected, and the handler ends at its "await".
Resolves(m) == m.answer.way = "back" /\ m.answer.ok

Closed == [id |-> 0]

\* useState: a component begins anew each time it is mounted, and fetches.
Mounted(n) == [mount |-> n, query |-> FirstQuery, asked |-> count + 1, dialog |-> Closed]

Empty == [rows |-> {}, query |-> FirstQuery, asked |-> 0]

Init ==
    /\ page = [mount |-> 1, query |-> FirstQuery, asked |-> 1, dialog |-> Closed]
    /\ store = Empty
    /\ sent = {[no |-> 1, op |-> "list", query |-> FirstQuery, asked |-> 1,
                answer |-> Unanswered]}
    /\ count = 1
    /\ verdicts = [id \in {} |-> {}]
    /\ told = {}

-----------------------------------------------------------------------------
(***************************************************************************)
(* What the user does.  An open dialog covers the page.                    *)
(***************************************************************************)

IsOpen == page.dialog # Closed

\* A faulty variant: the list is fetched next to setPage, where the state is
\* still the old one.
QueriedAtOnce(query) == page.query

\* The effect runs after the render, with the new state.
Queried(query) == query

\* The filter or the page is changed, and the effect fetches the list; a new
\* filter begins at its first page.
ChangeQuery(query) ==
    /\ ~IsOpen
    /\ query # page.query
    /\ query.filter = page.query.filter \/ query.page = 1
    /\ page' = [page EXCEPT !.query = query, !.asked = count + 1]
    /\ Exchange({}, {Fetch(Queried(query), count + 1)})
    /\ UNCHANGED <<store, verdicts, told>>

\* openExecute, up to its await.
OpenExecute(id) ==
    /\ ~IsOpen
    /\ id \in store.rows
    /\ Exchange({}, {[no |-> count + 1, op |-> "get", id |-> id, mount |-> page.mount,
                      answer |-> Unanswered]})
    /\ UNCHANGED <<page, store, verdicts, told>>

Toggle(i) ==
    /\ IsOpen
    /\ i \in DOMAIN page.dialog.list
    /\ page' = [page EXCEPT !.dialog.list[i] = ~@]
    /\ UNCHANGED <<store, sent, count, verdicts, told>>

Cancel ==
    /\ IsOpen
    /\ page' = [page EXCEPT !.dialog = Closed]
    /\ UNCHANGED <<store, sent, count, verdicts, told>>

\* onExecute, up to its await; its closure holds the query of this render.
Submit ==
    /\ IsOpen
    /\ Exchange({}, {[no |-> count + 1, op |-> "execute", id |-> page.dialog.id,
                      list |-> page.dialog.list, query |-> page.query,
                      mount |-> page.mount, answer |-> Unanswered]})
    /\ UNCHANGED <<page, store, verdicts, told>>

\* onCreate, up to its await: the date is sent as a local time without a zone.
Create ==
    /\ ~IsOpen
    /\ Exchange({}, {[no |-> count + 1, op |-> "create", answer |-> Unanswered]})
    /\ UNCHANGED <<page, store, verdicts, told>>

\* The user goes to another page and comes back.
Return ==
    /\ page' = Mounted(page.mount + 1)
    /\ Exchange({}, {Fetch(FirstQuery, count + 1)})
    /\ UNCHANGED <<store, verdicts, told>>

\* The program is loaded anew, by the user or after a 401: answers to what was
\* sent before reach nobody.
Reload ==
    /\ page' = Mounted(page.mount + 1)
    /\ store' = Empty
    /\ Exchange(sent, {Fetch(FirstQuery, count + 1)})
    /\ UNCHANGED <<verdicts, told>>

-----------------------------------------------------------------------------
(***************************************************************************)
(* What the server does.                                                   *)
(***************************************************************************)

ServeList(m) ==
    /\ m.op = "list" /\ m.answer = Unanswered
    /\ Answer(m, [way |-> "back", ok |-> TRUE, rows |-> RowsOf(m.query)])
    /\ UNCHANGED verdicts

ServeGet(m) ==
    /\ m.op = "get" /\ m.answer = Unanswered
    /\ Answer(m, [way |-> "back", ok |-> TRUE, list |-> MarksOf(m.id)])
    /\ UNCHANGED verdicts

\* The first list decides, any later one is answered 409.
ServeExecute(m) ==
    /\ m.op = "execute" /\ m.answer = Unanswered
    /\ IF m.id \in DOMAIN verdicts
         THEN Answer(m, Refused) /\ UNCHANGED verdicts
         ELSE Answer(m, [way |-> "back", ok |-> TRUE]) /\ Decided(m.id, m.no, m.list)

\* time.Time takes RFC 3339 only, which has a zone: without one, 400.
ServeCreate(m) ==
    /\ m.op = "create" /\ m.answer = Unanswered
    /\ Answer(m, Refused)
    /\ UNCHANGED verdicts

\* Another client executes an inspection; or it is a request of this page after
\* all, one that nobody waits for any more.
Elsewhere(id, list) ==
    /\ id \notin DOMAIN verdicts
    /\ Decided(id, 0, list)
    /\ UNCHANGED <<page, store, sent, count, told>>

-----------------------------------------------------------------------------
(***************************************************************************)
(* The answers.                                                            *)
(***************************************************************************)

\* A rejected promise - refused, broken off, or no answer within the fifteen
\* seconds: a message to the user, and nothing else.
Rejected(m) ==
    /\ Exchange({m}, {})
    /\ UNCHANGED <<page, store, verdicts, told>>

ListArrives(m) ==
    /\ m.op = "list" /\ m.answer.way = "back" /\ m.answer.ok
    /\ store' = [rows |-> m.answer.rows, query |-> m.query, asked |-> m.asked]
    /\ Exchange({m}, {})
    /\ UNCHANGED <<page, verdicts, told>>

\* A faulty variant: setItems, and setExecId only if there is no execId yet.
DialogKept(m) ==
    [id |-> IF IsOpen THEN page.dialog.id ELSE m.id, list |-> m.answer.list]

DialogOf(m) == [id |-> m.id, list |-> m.answer.list]

\* setItems and setExecId: the dialog opens, unless its component is gone.
DetailArrives(m) ==
    /\ m.op = "get" /\ m.answer.way = "back" /\ m.answer.ok
    /\ page' = IF m.mount = page.mount THEN [page EXCEPT !.dialog = DialogOf(m)] ELSE page
    /\ Exchange({m}, {})
    /\ UNCHANGED <<store, verdicts, told>>

\* The rest of onExecute: the dialog - any - is closed, the list fetched again.
ExecutedArrives(m) ==
    /\ m.op = "execute" /\ Resolves(m)
    /\ told' = told \cup {[id |-> m.id, no |-> m.no]}
    /\ page' = IF m.mount = page.mount THEN [page EXCEPT !.dialog = Closed] ELSE page
    /\ Exchange({m}, {Fetch(m.query, m.no)})
    /\ UNCHANGED <<store, verdicts>>

Next ==
    \/ Cancel \/ Submit \/ Create \/ Return \/ Reload
    \/ \E query \in Queries : ChangeQuery(query)
    \/ \E id \in Inspections :
          \/ OpenExecute(id)
          \/ \E i \in ItemsOf[id] : Toggle(i)
          \/ \E list \in Lists(id) : Elsewhere(id, list)
    \/ \E m \in sent :
          \/ ServeList(m) \/ ServeGet(m) \/ ServeExecute(m) \/ ServeCreate(m)
          \/ Rejected(m) \/ ListArrives(m) \/ DetailArrives(m) \/ ExecutedArrives(m)

Spec == Init /\ [][Next]_vars

-----------------------------------------------------------------------------
(***************************************************************************)
(* The properties.                                                         *)
(***************************************************************************)

Numbers == 0 .. MaxSent

DialogOK(d) == d = Closed \/ (d.id \in Inspections /\ d.list \in Lists(d.id))

MessageOK(m) ==
    /\ m.no \in 1 .. count
    /\ \A n \in sent : n.no = m.no => n = m
    /\ m.op \in {"list", "get", "execute", "create"}
    /\ m.op = "list" => m.query \in Queries /\ m.asked \in 1 .. m.no
    /\ m.op = "execute" => m.query \in Queries /\ m.id \in Inspections /\ m.list \in Lists(m.id)

\* Types: whatever dialogs were opened, cancelled and overtaken, a list that is
\* submitted names the items of its own inspection, all of them.
TypeOK ==
    /\ page.mount \in Nat /\ page.query \in Queries /\ page.asked \in Numbers
    /\ DialogOK(page.dialog)
    /\ store \in [rows : SUBSET Inspections, query : Queries, asked : Numbers]
    /\ \A m \in sent : MessageOK(m)
    /\ count \in Numbers
    /\ DOMAIN verdicts \subseteq Inspections
    /\ \A id \in DOMAIN verdicts :
          verdicts[id].by \in Numbers /\ verdicts[id].list \in Lists(id)
    /\ told \subseteq [id : Inspections, no : Numbers]

\* Who is told that the inspection is executed decided it: the verdict is the
\* one of the list that was on the screen, although others execute as well,
\* OK is clicked twice, and requests that failed are sent again.
SuccessIsOwn == \A t \in told : t.id \in DOMAIN verdicts /\ verdicts[t.id].by = t.no

\* A list that was asked for since the filter was last changed - by the change
\* or by an execution submitted after it - answers that filter.  Only an answer
\* to something older can leave a list on show that does not.
ListAnswersFilter == store.asked >= page.asked => store.query = page.query

-----------------------------------------------------------------------------
(***************************************************************************)
(* The inductive invariant (proved in PagesProofs).                        *)
(***************************************************************************)

Marks == UNION {Lists(id) : id \in Inspections}
Dialogs == {Closed} \cup [id : Inspections, list : Marks]
Done == [way |-> "back", ok |-> TRUE]

ListMessages ==
    [no : Nat, op : {"list"}, query : Queries, asked : Nat,
     answer : {Unanswered} \cup [way : {"back"}, ok : {TRUE}, rows : SUBSET Inspections]]
GetMessages ==
    [no : Nat, op : {"get"}, id : Inspections, mount : Nat,
     answer : {Unanswered} \cup [way : {"back"}, ok : {TRUE}, list : Marks]]
ExecuteMessages ==
    [no : Nat, op : {"execute"}, id : Inspections, list : Marks, query : Queries, mount : Nat,
     answer : {Unanswered, Refused, Done}]
CreateMessages == [no : Nat, op : {"create"}, answer : {Unanswered, Refused}]
Messages == ListMessages \cup GetMessages \cup ExecuteMessages \cup CreateMessages

Shapes ==
    /\ page \in [mount : Nat, query : Queries, asked : 0 .. count, dialog : Dialogs]
    /\ store.asked <= count
    /\ sent \subseteq Messages

\* An answer about an inspection has the items of that inspection.
DetailsFit ==
    \A m \in sent : m.op = "get" /\ m.answer # Unanswered => m.answer.list \in Lists(m.id)

\* On whose account a list is on its way, or will be when the answer is in.
Account(m) == IF m.op = "list" THEN m.asked ELSE m.no

\* Lists on account of anything since the filter was last changed have that filter.
FreshListsFit ==
    \A m \in sent : m.op \in {"list", "execute"} /\ Account(m) >= page.asked =>
        m.query = page.query

\* Whoever will be told so has decided the verdict.
VerdictsAreTheirs ==
    \A m \in sent : m.op = "execute" /\ Resolves(m) =>
        m.id \in DOMAIN verdicts /\ verdicts[m.id].by = m.no

IInv ==
    /\ TypeOK /\ Shapes /\ DetailsFit
    /\ FreshListsFit /\ ListAnswersFilter
    /\ VerdictsAreTheirs /\ SuccessIsOwn

=============================================================================
