---------------------------- MODULE Lists ----------------------------
(***************************************************************************)
(* The lists of the server, read page by page. Every list is served by two *)
(* statements, a COUNT and a SELECT with ORDER BY, LIMIT and OFFSET, each  *)
(* atomic by itself, while other requests insert rows and change the       *)
(* columns a filter looks at. A client - the page of the audit log, that   *)
(* lets nobody click while it loads - walks from the first page to the     *)
(* last one the total speaks of. A row is known by its place in the order  *)
(* of the commits.                                                         *)
(***************************************************************************)
EXTENDS Naturals, Sequences, FiniteSets

CONSTANTS Keys,       \* what a list can be sorted by: dates, or ids
          MaxRows,    \* bound: rows ever inserted
          PageSize

ASSUME ListsAssumption == Keys \subseteq Nat /\ MaxRows \in Nat /\ PageSize \in Nat \ {0}

VARIABLES list,       \* the list that is walked through
          rows,       \* its table: what each row is sorted by, whether the filter takes it
          request,    \* the request under way
          pages,      \* the answers of this walk, by page
          total,      \* the total of the last answer
          \* history of the walk: rows the filter took all along, rows it began or
          \* ceased to take, and those among them between COUNT and SELECT
          steady, came, gone, late, lost

history == <<steady, came, gone, late, lost>>
listVars == <<list, rows, request, pages, total, history>>

\* The list of inspections is sorted and filtered like that of incidents.
ByDate    == {"incidents", "trainings"}
ById      == {"certifications", "users", "audit_logs"}
Ascending == {"users"}
\* The lists whose filter looks at a column that changes.
Changing  == {"incidents", "certifications"}

Idle == [step |-> "idle"]

\* PageQuery.Normalize; a binding error is ignored, what was bound stays.
Normalized(page) == IF page <= 0 THEN 1 ELSE page

\* A faulty variant: pages are counted from zero.
ZeroBasedOffset(page) == page * PageSize

Offset(page) == (page - 1) * PageSize

\* A faulty variant: one row more, to see whether another page follows.
LimitAndOne == PageSize + 1

Limit == PageSize

----------------------------------------------------------------------------

Fitting == {i \in DOMAIN rows : rows[i].fits}

InFront(i, j) == IF list \in Ascending THEN rows[i].key < rows[j].key ELSE rows[i].key > rows[j].key
Tied(i, j) == i # j /\ rows[i].key = rows[j].key

AtMost(n, m) == IF n <= m THEN n ELSE m

\* What SELECT ... LIMIT may return: the rows behind those it skips. Rows with
\* equal dates come in an order of the database's own, a new one each time.
Slices(S, skip, take) ==
    {P \in SUBSET S : \E F \in SUBSET (S \ P) :
        /\ Cardinality(F) = AtMost(skip, Cardinality(S))
        /\ Cardinality(P) = AtMost(take, Cardinality(S) - Cardinality(F))
        /\ \A i \in F, j \in S \ F : ~InFront(j, i)
        /\ \A i \in P, j \in S \ (F \union P) : ~InFront(j, i)}

\* A faulty variant: the COUNT goes without the filter.
CountedUnfiltered == Len(rows)

Counted == Cardinality(Fitting)

----------------------------------------------------------------------------

ListInit ==
    /\ list \in ByDate \union ById
    /\ rows = <<>>
    /\ request = Idle
    /\ pages = <<>> /\ total = 0
    /\ steady = {} /\ came = {} /\ gone = {} /\ late = {} /\ lost = {}

LastPage == (total + PageSize - 1) \div PageSize
IsWalked == Len(pages) > 0 /\ Len(pages) >= LastPage

\* The page is opened: it asks for the first page, as does a client that names none.
Open(page) ==
    /\ request = Idle
    /\ page <= 1
    /\ request' = [step |-> "count", page |-> Normalized(page)]
    /\ pages' = <<>> /\ total' = 0
    /\ steady' = Fitting /\ came' = {} /\ gone' = {} /\ late' = {} /\ lost' = {}
    /\ UNCHANGED <<list, rows>>

\* The pagination offers as many pages as the total fills.
Turn ==
    /\ request = Idle
    /\ Len(pages) > 0 /\ ~IsWalked
    /\ request' = [step |-> "count", page |-> Normalized(Len(pages) + 1)]
    /\ UNCHANGED <<list, rows, pages, total, history>>

Count ==
    /\ request.step = "count"
    /\ request' = [step |-> "find", page |-> request.page, total |-> Counted]
    /\ late' = {} /\ lost' = {}
    /\ UNCHANGED <<list, rows, pages, total, steady, came, gone>>

\* The SELECT and the answer: the list and the total on show are replaced.
Find ==
    /\ request.step = "find"
    /\ \E P \in Slices(Fitting, Offset(request.page), Limit) : pages' = Append(pages, P)
    /\ total' = request.total
    /\ request' = Idle
    /\ UNCHANGED <<list, rows, history>>

\* Either statement fails: 500, the promise is rejected, the walk is given up.
Fails ==
    /\ request # Idle
    /\ request' = Idle
    /\ pages' = <<>> /\ total' = 0
    /\ steady' = {} /\ came' = {} /\ gone' = {} /\ late' = {} /\ lost' = {}
    /\ UNCHANGED <<list, rows>>

Walking == request # Idle \/ (pages # <<>> /\ ~IsWalked)
Noted(S, i, when) == IF when THEN S \union {i} ELSE S

Comes(i) ==
    /\ came' = Noted(came, i, Walking)
    /\ late' = Noted(late, i, request.step = "find")
    /\ UNCHANGED <<steady, gone, lost>>

Goes(i) ==
    /\ steady' = steady \ {i}
    /\ gone' = Noted(gone, i, Walking)
    /\ lost' = Noted(lost, i, request.step = "find")
    /\ UNCHANGED <<came, late>>

\* Another client's INSERT is committed. Ids are given in order, but the
\* transactions that use them end in any; dates are the client's choice.
Insert(key, fits) ==
    /\ Len(rows) < MaxRows
    /\ list \in ById => \A i \in DOMAIN rows : rows[i].key # key
    /\ list \in Changing \/ fits
    /\ rows' = Append(rows, [key |-> key, fits |-> fits])
    /\ IF fits THEN Comes(Len(rows) + 1) ELSE UNCHANGED history
    /\ UNCHANGED <<list, request, pages, total>>

\* Another client's transition, execution or review: what the filter looks at
\* changes; sort keys never do. Overlapping ones take a status back as well.
Change(i) ==
    /\ list \in Changing
    /\ rows' = [rows EXCEPT ![i].fits = ~@]
    /\ IF rows[i].fits THEN Goes(i) ELSE Comes(i)
    /\ UNCHANGED <<list, request, pages, total>>

ListNext ==
    \/ \E page \in {0, 1} : Open(page)
    \/ Turn \/ Count \/ Find \/ Fails
    \/ \E key \in Keys, fits \in BOOLEAN : Insert(key, fits)
    \/ \E i \in DOMAIN rows : Change(i)

ListSpec == ListInit /\ [][ListNext]_listVars

----------------------------------------------------------------------------
(* Properties *)

Ids == 1..MaxRows

\* Type invariant: the table, the request, the walk and its history.
ListTypeOK ==
    /\ list \in ByDate \union ById
    /\ rows \in Seq([key : Keys, fits : BOOLEAN]) /\ Len(rows) <= MaxRows
    /\ request \in {Idle} \union [step : {"count"}, page : Nat \ {0}]
                          \union [step : {"find"}, page : Nat \ {0}, total : 0..MaxRows]
    /\ pages \in Seq(SUBSET Ids) /\ total \in 0..MaxRows
    /\ steady \subseteq Ids /\ came \subseteq Ids /\ gone \subseteq Ids
    /\ late \subseteq Ids /\ lost \subseteq Ids

Seen == UNION {pages[p] : p \in DOMAIN pages}

\* Who walks through a list to its end has seen every row that belonged to it
\* all the time - or a row in front of it left the list meanwhile and moved it
\* to a page already read, or one came in between the count and the select of a
\* page and moved it behind the last, or it shares its date with another
\* (repositories' List: ORDER BY, OFFSET, LIMIT after a COUNT of its own).
OnlyMovesHideRows ==
    IsWalked =>
      \A r \in steady \ Seen :
        \/ \E g \in gone : InFront(g, r)
        \/ \E c \in late : InFront(c, r)
        \/ \E t \in DOMAIN rows : Tied(t, r)

\* A walk shows a row on two pages only if a row came in front of it, or if it
\* shares its date with another - not because it left and came back itself: the
\* audit log, sorted by id from the last, repeats rows whenever something is
\* audited meanwhile.
OnlyArrivalsRepeatRows ==
    \A p, q \in DOMAIN pages : \A r \in pages[p] \intersect pages[q] :
      p < q => (\E c \in came : InFront(c, r)) \/ (\E t \in DOMAIN rows : Tied(t, r))

\* The rows of an answer go with its total - as many as the page has room for
\* and the total leaves - but for rows that came or left between the count and
\* the select (pageResponse puts both into one answer).
PagesMatchTotals ==
    (request.step # "find" /\ Len(pages) > 0) =>
      LET size == Cardinality(pages[Len(pages)])
          skip == (Len(pages) - 1) * PageSize
      IN  /\ (size > 0 /\ skip + size > total) => late # {}
          /\ (size < PageSize /\ skip + size < total) => lost # {}

----------------------------------------------------------------------------
(***************************************************************************)
(* The inductive invariants (proved in PagesProofs): first the totals,     *)
(* then the walk, which counts the rows in front of a row.                 *)
(***************************************************************************)

\* The page asked for is the one behind those that were read.
PageIsNext == request # Idle => request.page = Len(pages) + 1

\* The count is still right on the side nothing has moved to since.
CountIsRight ==
    request.step = "find" =>
      /\ lost = {} => request.total <= Cardinality(Fitting)
      /\ late = {} => Cardinality(Fitting) <= request.total

ListIInv == ListTypeOK /\ PageIsNext /\ CountIsRight /\ PagesMatchTotals

Front(r) == {j \in Fitting : InFront(j, r)}
IsTied(r) == \E t \in DOMAIN rows : Tied(t, r)
Behind(S, r) == \E j \in S : InFront(j, r)

\* The history speaks of rows there are; nobody asks for more when all is read.
HistoryOfRows ==
    /\ steady \subseteq Fitting
    /\ came \union gone \union late \subseteq DOMAIN rows
    /\ \A p \in DOMAIN pages : pages[p] \subseteq DOMAIN rows
    /\ request # Idle => ~IsWalked

\* A row not yet read has all pages in front of it ...
UnreadIsBehind ==
    ~IsWalked => \A r \in steady \ Seen :
        Behind(gone, r) \/ IsTied(r) \/ Len(pages) * PageSize <= Cardinality(Front(r))

\* ... one that was counted has fewer rows in front of it than were counted ...
CountedIsInTotal ==
    request.step = "find" => \A r \in steady :
        Behind(late, r) \/ Cardinality(Front(r)) < request.total

\* ... and one that was read has fewer than its page and those before it show.
ReadIsInFront ==
    ~IsWalked => \A p \in DOMAIN pages : \A r \in pages[p] :
        Behind(came, r) \/ IsTied(r) \/ Cardinality(Front(r)) < p * PageSize

WalkIInv ==
    /\ HistoryOfRows /\ UnreadIsBehind /\ CountedIsInTotal /\ ReadIsInFront
    /\ OnlyMovesHideRows /\ OnlyArrivalsRepeatRows

=============================================================================
