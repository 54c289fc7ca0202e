---------------------------- MODULE PagesProofs ----------------------------
(***************************************************************************)
(* Proofs about Pages for any number of requests, inspections, incidents,  *)
(* pages of a list and selectable statuses, and about Lists, from which    *)
(* such pages are filled.                                                  *)
(***************************************************************************)
EXTENDS Pages, Lists, TLAPS, FiniteSetTheorems

-----------------------------------------------------------------------------
(***************************************************************************)
(* The page of the inspections.                                            *)
(***************************************************************************)

\* The instance counts as FiniteSets does.
LEMMA InspectionCardinality == \A S : Inspection!Cardinality(S) = Cardinality(S)
BY DEF Inspection!Cardinality, Cardinality

LEMMA MarksOfInspections ==
    ASSUME NEW id \in Inspections, NEW l \in Inspection!Lists(id)
    PROVE  l \in Inspection!Marks
BY DEF Inspection!Marks

\* What a message is, by its operation.
LEMMA InspectionMessages ==
    ASSUME NEW m \in Inspection!Messages
    PROVE  /\ m.op \in {"list", "get", "execute", "create"}
           /\ m.op = "list" => m \in Inspection!ListMessages
           /\ m.op = "get" => m \in Inspection!GetMessages
           /\ m.op = "execute" => m \in Inspection!ExecuteMessages
           /\ m.op = "create" => m \in Inspection!CreateMessages
BY DEF Inspection!Messages, Inspection!ListMessages, Inspection!GetMessages,
       Inspection!ExecuteMessages, Inspection!CreateMessages

\* The first page of the unfiltered list is asked for when a page is mounted.
LEMMA FirstQueryIsOne == Inspection!FirstQuery \in Inspection!Queries
BY PagesAssumption DEF Inspection!FirstQuery, Inspection!Queries, Inspection!Filters

LEMMA InspectionInit == Inspection!Init => Inspection!IInv
<1> SUFFICES ASSUME Inspection!Init PROVE Inspection!IInv
  OBVIOUS
<1>1. 1 \in Nat /\ 1 \in Inspection!Numbers /\ 0 \in Inspection!Numbers
  BY PagesAssumption DEF Inspection!Numbers
<1>2. Inspection!TypeOK
  BY <1>1, FirstQueryIsOne
     DEF Inspection!Init, Inspection!TypeOK, Inspection!DialogOK, Inspection!MessageOK,
         Inspection!Empty
<1>3. Inspection!Shapes
  BY <1>1, FirstQueryIsOne
     DEF Inspection!Init, Inspection!Shapes, Inspection!Empty, Inspection!Messages,
         Inspection!ListMessages, Inspection!Dialogs
<1> QED
  BY <1>2, <1>3
     DEF Inspection!Init, Inspection!IInv, Inspection!DetailsFit, Inspection!FreshListsFit,
         Inspection!ListAnswersFilter, Inspection!VerdictsAreTheirs, Inspection!SuccessIsOwn,
         Inspection!Account, Inspection!Empty

\* What is sent and what is asked for stays; of the page only the dialog changes.
LEMMA InspectionDialog ==
    ASSUME Inspection!IInv,
           \/ Inspection!Cancel
           \/ \E id \in Inspections : \E i \in ItemsOf[id] : Inspection!Toggle(i)
    PROVE  Inspection!IInv'
<1>1. UNCHANGED <<store, sent, count, verdicts, told>>
  BY DEF Inspection!Cancel, Inspection!Toggle
<1>2. PICK d \in Inspection!Dialogs : page' = [page EXCEPT !.dialog = d] /\ Inspection!DialogOK(d)
  <2>1. CASE Inspection!Cancel
    BY <2>1 DEF Inspection!Cancel, Inspection!Dialogs, Inspection!DialogOK
  <2>2. CASE \E id \in Inspections : \E i \in ItemsOf[id] : Inspection!Toggle(i)
    <3>1. PICK i : Inspection!Toggle(i)
      BY <2>2
    <3> DEFINE l == [page.dialog.list EXCEPT ![i] = ~@]
               d == [page.dialog EXCEPT !.list = l]
    <3>2. page' = [page EXCEPT !.dialog = d]
      BY <3>1 DEF Inspection!Toggle, Inspection!IInv, Inspection!Shapes
    <3>3. page.dialog # Inspection!Closed /\ page.dialog \in Inspection!Dialogs
          /\ Inspection!DialogOK(page.dialog)
      BY <3>1 DEF Inspection!Toggle, Inspection!IsOpen, Inspection!IInv, Inspection!Shapes,
                  Inspection!TypeOK
    <3>4. page.dialog \in [id : Inspections, list : Inspection!Marks]
      BY <3>3 DEF Inspection!Dialogs
    <3>5. page.dialog.id \in Inspections /\ page.dialog.list \in Inspection!Lists(page.dialog.id)
      BY <3>3 DEF Inspection!DialogOK
    <3>6. l \in Inspection!Lists(page.dialog.id)
      BY <3>5 DEF Inspection!Lists
    <3>7. d.id = page.dialog.id /\ d.list = l /\ d = [id |-> page.dialog.id, list |-> l]
      BY <3>4
    <3> HIDE DEF d, l
    <3>8. d \in Inspection!Dialogs
      BY <3>5, <3>6, <3>7, MarksOfInspections DEF Inspection!Dialogs
    <3>9. Inspection!DialogOK(d)
      BY <3>5, <3>6, <3>7 DEF Inspection!DialogOK
    <3> QED BY <3>2, <3>8, <3>9
  <2> QED BY <2>1, <2>2
<1>3. /\ page' \in [mount : Nat, query : Inspection!Queries, asked : 0 .. count,
                    dialog : Inspection!Dialogs]
      /\ page'.mount = page.mount /\ page'.query = page.query /\ page'.asked = page.asked
      /\ page'.dialog = d
  BY <1>2 DEF Inspection!IInv, Inspection!Shapes
<1>4. Inspection!TypeOK'
  BY <1>1, <1>2, <1>3
     DEF Inspection!IInv, Inspection!TypeOK, Inspection!MessageOK, Inspection!DialogOK
<1> QED
  BY <1>1, <1>3, <1>4
     DEF Inspection!IInv, Inspection!Shapes, Inspection!DetailsFit, Inspection!FreshListsFit,
         Inspection!ListAnswersFilter, Inspection!VerdictsAreTheirs, Inspection!SuccessIsOwn,
         Inspection!Resolves, Inspection!Account

\* A message that may be sent next.
InspectionNext(n) ==
    /\ n \in Inspection!Messages /\ n.no = count + 1 /\ n.answer = Inspection!Unanswered
    /\ n.op = "list" => n.asked \in 1 .. count + 1
    /\ n.op = "execute" => n.list \in Inspection!Lists(n.id)

\* What holds of the messages goes on to hold when some are done with and one is
\* sent, or none.
LEMMA InspectionExchange ==
    ASSUME Inspection!IInv, NEW done, NEW new,
           Inspection!Exchange(done, new), new = {} \/ (\E n : new = {n}),
           \A n \in new : InspectionNext(n),
           page' \in [mount : Nat, query : Inspection!Queries, asked : 0 .. count',
                      dialog : Inspection!Dialogs],
           Inspection!DialogOK(page'.dialog),
           store' \in [rows : SUBSET Inspections, query : Inspection!Queries, asked : 0 .. count'],
           UNCHANGED verdicts,
           told' \subseteq [id : Inspections, no : Inspection!Numbers]
    PROVE  /\ sent' = (sent \ done) \cup new /\ count \in Nat
           /\ count' = IF new = {} THEN count ELSE count + 1
           /\ Inspection!TypeOK' /\ Inspection!Shapes'
           /\ Inspection!DetailsFit' /\ Inspection!VerdictsAreTheirs'
<1>1. count \in Nat /\ MaxSent \in Nat /\ count <= MaxSent
  BY PagesAssumption DEF Inspection!IInv, Inspection!TypeOK, Inspection!Numbers
<1>2. Cardinality(new) = (IF new = {} THEN 0 ELSE 1)
  BY FS_EmptySet, FS_Singleton
<1>3. /\ sent' = (sent \ done) \cup new
      /\ count' = IF new = {} THEN count ELSE count + 1
      /\ count' \in Nat /\ count' <= MaxSent /\ count <= count'
  BY <1>1, <1>2, InspectionCardinality DEF Inspection!Exchange
<1>4. sent' \subseteq Inspection!Messages
  BY <1>3 DEF InspectionNext, Inspection!IInv, Inspection!Shapes
<1>5. \A m \in sent : Inspection!MessageOK(m)
  BY DEF Inspection!IInv, Inspection!TypeOK
<1>6. \A m \in sent' : Inspection!MessageOK(m)'
  <2> SUFFICES ASSUME NEW m \in sent' PROVE Inspection!MessageOK(m)'
    OBVIOUS
  <2>1. CASE m \in new
    <3>1. new = {m} /\ m.no = count + 1 /\ count' = count + 1
      BY <1>3, <2>1 DEF InspectionNext
    <3>2. \A n \in sent' : n.no = m.no => n = m
      BY <1>1, <1>3, <1>5, <3>1 DEF Inspection!MessageOK
    <3>3. m.op = "execute" => m.query \in Inspection!Queries /\ m.id \in Inspections
      BY <2>1, InspectionMessages DEF InspectionNext, Inspection!ExecuteMessages
    <3>4. m.op = "list" => m.query \in Inspection!Queries
      BY <2>1, InspectionMessages DEF InspectionNext, Inspection!ListMessages
    <3>5. m.op \in {"list", "get", "execute", "create"}
      BY <2>1, InspectionMessages DEF InspectionNext
    <3> QED BY <1>1, <2>1, <3>1, <3>2, <3>3, <3>4, <3>5
            DEF InspectionNext, Inspection!MessageOK
  <2>2. CASE m \in sent \ new
    <3>1. m.no \in 1 .. count /\ Inspection!MessageOK(m)
      BY <1>5, <2>2 DEF Inspection!MessageOK
    <3>2. \A n \in sent' : n.no = m.no => n = m
      BY <1>1, <1>3, <2>2, <3>1 DEF InspectionNext, Inspection!MessageOK
    <3> QED BY <1>1, <1>3, <3>1, <3>2 DEF Inspection!MessageOK
  <2> QED BY <1>3, <2>1, <2>2
<1>7. Inspection!TypeOK'
  <2>1. \A k \in 0 .. count' : k \in Inspection!Numbers
    BY <1>1, <1>3 DEF Inspection!Numbers
  <2> QED BY <1>1, <1>3, <1>6, <2>1 DEF Inspection!IInv, Inspection!TypeOK
<1>8. Inspection!Shapes'
  BY <1>3, <1>4 DEF Inspection!Shapes
<1>9. Inspection!DetailsFit'
  BY <1>3 DEF Inspection!IInv, Inspection!DetailsFit, InspectionNext
<1>10. Inspection!VerdictsAreTheirs'
  BY <1>3 DEF Inspection!IInv, Inspection!VerdictsAreTheirs, InspectionNext, Inspection!Resolves,
              Inspection!Unanswered
<1> QED BY <1>1, <1>3, <1>7, <1>8, <1>9, <1>10

\* What the user does, but for the dialog.
LEMMA InspectionAsks ==
    ASSUME Inspection!IInv,
           \/ \E query \in Inspection!Queries : Inspection!ChangeQuery(query)
           \/ Inspection!Return \/ Inspection!Reload
    PROVE  Inspection!IInv'
<1>1. PICK done \in SUBSET sent, query \in Inspection!Queries :
        /\ Inspection!Exchange(done, {Inspection!Fetch(query, count + 1)})
        /\ page'.query = query /\ page'.asked = count + 1
        /\ page'.mount \in Nat /\ page'.dialog = Inspection!Closed
        /\ page' \in [mount : Nat, query : Inspection!Queries, asked : {count + 1},
                      dialog : Inspection!Dialogs]
  <2>1. CASE \E query \in Inspection!Queries : Inspection!ChangeQuery(query)
    <3>1. PICK query \in Inspection!Queries : Inspection!ChangeQuery(query)
      BY <2>1
    <3>2. page' = [page EXCEPT !.query = query, !.asked = count + 1]
          /\ page.dialog = Inspection!Closed
          /\ Inspection!Exchange({}, {Inspection!Fetch(query, count + 1)})
      BY <3>1 DEF Inspection!ChangeQuery, Inspection!Queried, Inspection!IsOpen
    <3>3. page \in [mount : Nat, query : Inspection!Queries, asked : 0 .. count,
                    dialog : Inspection!Dialogs]
      BY DEF Inspection!IInv, Inspection!Shapes
    <3> QED BY <3>2, <3>3
  <2>2. CASE Inspection!Return \/ Inspection!Reload
    <3>1. page' = Inspection!Mounted(page.mount + 1) /\ page.mount \in Nat
      BY <2>2 DEF Inspection!Return, Inspection!Reload, Inspection!IInv, Inspection!Shapes
    <3>2. PICK done \in SUBSET sent :
            Inspection!Exchange(done, {Inspection!Fetch(Inspection!FirstQuery, count + 1)})
      BY <2>2 DEF Inspection!Return, Inspection!Reload
    <3>3. /\ page'.query = Inspection!FirstQuery /\ page'.asked = count + 1
          /\ page'.mount \in Nat /\ page'.dialog = Inspection!Closed
          /\ page' \in [mount : Nat, query : Inspection!Queries, asked : {count + 1},
                        dialog : Inspection!Dialogs]
      BY <3>1, FirstQueryIsOne DEF Inspection!Mounted, Inspection!Dialogs
    <3> QED BY <3>2, <3>3, FirstQueryIsOne
  <2> QED BY <2>1, <2>2
<1> DEFINE n == Inspection!Fetch(query, count + 1)
<1>2. /\ UNCHANGED <<verdicts, told>>
      /\ store' = store \/ store' = Inspection!Empty
  BY DEF Inspection!ChangeQuery, Inspection!Return, Inspection!Reload
<1>3. count \in Nat
  BY DEF Inspection!IInv, Inspection!TypeOK, Inspection!Numbers
<1>4. InspectionNext(n) /\ n.op = "list" /\ n.query = query /\ n.asked = count + 1
  BY <1>3 DEF InspectionNext, Inspection!Fetch, Inspection!Messages, Inspection!ListMessages
<1> HIDE DEF n
<1>5. count' = count + 1
  BY <1>1, <1>3, InspectionCardinality, FS_Singleton DEF Inspection!Exchange, n
<1>6. /\ page' \in [mount : Nat, query : Inspection!Queries, asked : 0 .. count',
                    dialog : Inspection!Dialogs]
      /\ Inspection!DialogOK(page'.dialog)
  BY <1>1, <1>3, <1>5 DEF Inspection!DialogOK
<1>7. store.asked \in 0 .. count /\ Inspection!Empty.asked = 0
  BY DEF Inspection!IInv, Inspection!Shapes, Inspection!TypeOK, Inspection!Numbers,
         Inspection!Empty
<1>8. store' \in [rows : SUBSET Inspections, query : Inspection!Queries, asked : 0 .. count']
  BY <1>2, <1>3, <1>5, <1>7, FirstQueryIsOne
     DEF Inspection!IInv, Inspection!TypeOK, Inspection!Empty
<1>9. told' \subseteq [id : Inspections, no : Inspection!Numbers]
  BY <1>2 DEF Inspection!IInv, Inspection!TypeOK
<1>10. /\ sent' = (sent \ done) \cup {n}
       /\ Inspection!TypeOK' /\ Inspection!Shapes'
       /\ Inspection!DetailsFit' /\ Inspection!VerdictsAreTheirs'
  BY <1>1, <1>2, <1>4, <1>6, <1>8, <1>9, InspectionExchange DEF n
<1>11. Inspection!FreshListsFit'
  <2> SUFFICES ASSUME NEW m \in sent', m.op \in {"list", "execute"},
                      Inspection!Account(m) >= page'.asked
               PROVE  m.query = page'.query
    BY DEF Inspection!FreshListsFit, Inspection!Account
  <2>1. CASE m = n
    BY <1>1, <1>4, <2>1
  <2>2. CASE m \in sent
    <3>1. Inspection!MessageOK(m)
      BY <2>2 DEF Inspection!IInv, Inspection!TypeOK
    <3>2. Inspection!Account(m) \in 0 .. count
      BY <1>3, <3>1 DEF Inspection!MessageOK, Inspection!Account
    <3> QED BY <1>1, <1>3, <3>2
  <2> QED BY <1>10, <2>1, <2>2
<1>12. Inspection!ListAnswersFilter'
  BY <1>1, <1>2, <1>3, <1>7 DEF Inspection!ListAnswersFilter
<1>13. Inspection!SuccessIsOwn'
  BY <1>2 DEF Inspection!IInv, Inspection!SuccessIsOwn
<1> QED BY <1>10, <1>11, <1>12, <1>13 DEF Inspection!IInv

\* The requests behind which the page stays as it is.
LEMMA InspectionRequests ==
    ASSUME Inspection!IInv,
           \/ \E id \in Inspections : Inspection!OpenExecute(id)
           \/ Inspection!Submit \/ Inspection!Create
    PROVE  Inspection!IInv'
<1>1. /\ page \in [mount : Nat, query : Inspection!Queries, asked : 0 .. count,
                   dialog : Inspection!Dialogs]
      /\ Inspection!DialogOK(page.dialog)
      /\ count \in Nat
  BY DEF Inspection!IInv, Inspection!Shapes, Inspection!TypeOK, Inspection!Numbers
<1>2. PICK n : /\ Inspection!Exchange({}, {n}) /\ InspectionNext(n) /\ n.op # "list"
               /\ n.op = "execute" => n.query = page.query
  <2>1. CASE \E id \in Inspections : Inspection!OpenExecute(id)
    <3>1. PICK id \in Inspections : Inspection!OpenExecute(id)
      BY <2>1
    <3> DEFINE n == [no |-> count + 1, op |-> "get", id |-> id, mount |-> page.mount,
                     answer |-> Inspection!Unanswered]
    <3>2. Inspection!Exchange({}, {n})
      BY <3>1 DEF Inspection!OpenExecute
    <3>3. InspectionNext(n) /\ n.op = "get"
      BY <1>1 DEF InspectionNext, Inspection!Messages, Inspection!GetMessages
    <3> HIDE DEF n
    <3> QED BY <3>2, <3>3
  <2>2. CASE Inspection!Submit
    <3> DEFINE n == [no |-> count + 1, op |-> "execute", id |-> page.dialog.id,
                     list |-> page.dialog.list, query |-> page.query,
                     mount |-> page.mount, answer |-> Inspection!Unanswered]
    <3>1. Inspection!Exchange({}, {n})
      BY <2>2 DEF Inspection!Submit
    <3>2. page.dialog.id \in Inspections /\ page.dialog.list \in Inspection!Lists(page.dialog.id)
      BY <1>1, <2>2 DEF Inspection!Submit, Inspection!IsOpen, Inspection!DialogOK
    <3>3. InspectionNext(n) /\ n.op = "execute" /\ n.query = page.query
      BY <1>1, <3>2, MarksOfInspections
         DEF InspectionNext, Inspection!Messages, Inspection!ExecuteMessages
    <3> HIDE DEF n
    <3> QED BY <3>1, <3>3
  <2>3. CASE Inspection!Create
    <3> DEFINE n == [no |-> count + 1, op |-> "create", answer |-> Inspection!Unanswered]
    <3>1. Inspection!Exchange({}, {n})
      BY <2>3 DEF Inspection!Create
    <3>2. InspectionNext(n) /\ n.op = "create"
      BY <1>1 DEF InspectionNext, Inspection!Messages, Inspection!CreateMessages
    <3> HIDE DEF n
    <3> QED BY <3>1, <3>2
  <2> QED BY <2>1, <2>2, <2>3
<1>3. UNCHANGED <<page, store, verdicts, told>>
  BY DEF Inspection!OpenExecute, Inspection!Submit, Inspection!Create
<1>4. count' = count + 1 /\ sent' = sent \cup {n}
  BY <1>1, <1>2, InspectionCardinality, FS_Singleton DEF Inspection!Exchange
<1>5. store' \in [rows : SUBSET Inspections, query : Inspection!Queries, asked : 0 .. count']
  <2>1. store.asked \in 0 .. count
    BY DEF Inspection!IInv, Inspection!TypeOK, Inspection!Shapes, Inspection!Numbers
  <2> QED BY <1>1, <1>3, <1>4, <2>1 DEF Inspection!IInv, Inspection!TypeOK
<1>6. told' \subseteq [id : Inspections, no : Inspection!Numbers]
  BY <1>3 DEF Inspection!IInv, Inspection!TypeOK
<1>7. /\ page' \in [mount : Nat, query : Inspection!Queries, asked : 0 .. count',
                    dialog : Inspection!Dialogs]
      /\ Inspection!DialogOK(page'.dialog)
  BY <1>1, <1>3, <1>4
<1>8. /\ Inspection!TypeOK' /\ Inspection!Shapes'
      /\ Inspection!DetailsFit' /\ Inspection!VerdictsAreTheirs'
  <2> DEFINE new == {n}
  <2>1. \A k \in new : InspectionNext(k)
    BY <1>2
  <2> QED BY <1>2, <1>3, <1>5, <1>6, <1>7, <2>1, InspectionExchange
<1>9. Inspection!FreshListsFit'
  BY <1>2, <1>3, <1>4 DEF Inspection!IInv, Inspection!FreshListsFit, Inspection!Account
<1> QED BY <1>3, <1>8, <1>9
        DEF Inspection!IInv, Inspection!ListAnswersFilter, Inspection!SuccessIsOwn

\* A message gets its answer.
LEMMA InspectionAnswered ==
    ASSUME Inspection!IInv, NEW m \in sent, NEW n,
           sent' = (sent \ {m}) \cup {n}, UNCHANGED <<page, store, count, told>>,
           n \in Inspection!Messages, n.no = m.no, n.op = m.op,
           m.op \in {"list", "execute"} => n.query = m.query,
           m.op = "list" => n.asked = m.asked,
           m.op = "get" => n.answer.list \in Inspection!Lists(n.id),
           m.op = "execute" => n.id = m.id /\ n.list = m.list,
           n.op = "execute" /\ Inspection!Resolves(n) =>
               n.id \in DOMAIN verdicts' /\ verdicts'[n.id].by = n.no,
           DOMAIN verdicts \subseteq DOMAIN verdicts', DOMAIN verdicts' \subseteq Inspections,
           \A id \in DOMAIN verdicts : verdicts'[id] = verdicts[id],
           \A id \in DOMAIN verdicts' :
               verdicts'[id].by \in Inspection!Numbers /\ verdicts'[id].list \in Inspection!Lists(id)
    PROVE  Inspection!IInv'
<1>1. \A k \in sent : Inspection!MessageOK(k)
  BY DEF Inspection!IInv, Inspection!TypeOK
<1>2. \A k \in sent' : Inspection!MessageOK(k)'
  <2> SUFFICES ASSUME NEW k \in sent' PROVE Inspection!MessageOK(k)'
    OBVIOUS
  <2>1. CASE k = n
    BY <1>1, <2>1 DEF Inspection!MessageOK
  <2>2. CASE k \in sent \ {m}
    BY <1>1, <2>2 DEF Inspection!MessageOK
  <2> QED BY <2>1, <2>2
<1>3. Inspection!TypeOK'
  BY <1>2 DEF Inspection!IInv, Inspection!TypeOK
<1>4. Inspection!Shapes'
  BY DEF Inspection!IInv, Inspection!Shapes
<1>5. Inspection!DetailsFit'
  BY DEF Inspection!IInv, Inspection!DetailsFit
<1>6. Inspection!FreshListsFit'
  BY DEF Inspection!IInv, Inspection!FreshListsFit, Inspection!Account
<1>7. Inspection!VerdictsAreTheirs'
  BY DEF Inspection!IInv, Inspection!VerdictsAreTheirs, Inspection!Resolves
<1>8. Inspection!SuccessIsOwn' /\ Inspection!ListAnswersFilter'
  BY DEF Inspection!IInv, Inspection!SuccessIsOwn, Inspection!ListAnswersFilter
<1> QED BY <1>3, <1>4, <1>5, <1>6, <1>7, <1>8 DEF Inspection!IInv

\* A verdict of an inspection that had none.
LEMMA InspectionDecided ==
    ASSUME Inspection!IInv, NEW id \in Inspections, id \notin DOMAIN verdicts,
           NEW by \in Inspection!Numbers, NEW l \in Inspection!Lists(id),
           Inspection!Decided(id, by, l)
    PROVE  /\ DOMAIN verdicts' = DOMAIN verdicts \cup {id} /\ DOMAIN verdicts' \subseteq Inspections
           /\ verdicts'[id].by = by
           /\ \A i \in DOMAIN verdicts : verdicts'[i] = verdicts[i]
           /\ \A i \in DOMAIN verdicts' :
                 verdicts'[i].by \in Inspection!Numbers /\ verdicts'[i].list \in Inspection!Lists(i)
BY DEF Inspection!Decided, Inspection!IInv, Inspection!TypeOK

\* What the server does.
LEMMA InspectionServes ==
    ASSUME Inspection!IInv, NEW m \in sent,
           \/ Inspection!ServeList(m) \/ Inspection!ServeGet(m)
           \/ Inspection!ServeExecute(m) \/ Inspection!ServeCreate(m)
    PROVE  Inspection!IInv'
<1>1. m \in Inspection!Messages /\ Inspection!MessageOK(m)
  BY DEF Inspection!IInv, Inspection!Shapes, Inspection!TypeOK
<1>2. /\ DOMAIN verdicts \subseteq Inspections
      /\ \A id \in DOMAIN verdicts :
            verdicts[id].by \in Inspection!Numbers /\ verdicts[id].list \in Inspection!Lists(id)
  BY DEF Inspection!IInv, Inspection!TypeOK
<1>3. CASE Inspection!ServeList(m)
  <2> DEFINE a == [way |-> "back", ok |-> TRUE, rows |-> Inspection!RowsOf(m.query)]
             n == [m EXCEPT !.answer = a]
  <2>1. m \in Inspection!ListMessages
    BY <1>1, <1>3, InspectionMessages DEF Inspection!ServeList
  <2>2. a \in [way : {"back"}, ok : {TRUE}, rows : SUBSET Inspections]
    BY DEF Inspection!RowsOf
  <2>3. Inspection!Answer(m, a) /\ UNCHANGED verdicts
    BY <1>3 DEF Inspection!ServeList
  <2> HIDE DEF a
  <2>4. /\ n \in Inspection!Messages /\ n.no = m.no /\ n.op = "list" /\ m.op = "list"
        /\ n.query = m.query /\ n.asked = m.asked
    BY <2>1, <2>2 DEF Inspection!Messages, Inspection!ListMessages
  <2>5. sent' = (sent \ {m}) \cup {n} /\ UNCHANGED <<page, store, count, told>>
    BY <2>3 DEF Inspection!Answer
  <2> HIDE DEF n
  <2> QED BY <1>2, <2>3, <2>4, <2>5, InspectionAnswered
<1>4. CASE Inspection!ServeGet(m)
  <2> DEFINE a == [way |-> "back", ok |-> TRUE, list |-> Inspection!MarksOf(m.id)]
             n == [m EXCEPT !.answer = a]
  <2>1. m \in Inspection!GetMessages
    BY <1>1, <1>4, InspectionMessages DEF Inspection!ServeGet
  <2>2. m.id \in Inspections /\ Inspection!MarksOf(m.id) \in Inspection!Lists(m.id)
    <3>1. m.id \in Inspections
      BY <2>1 DEF Inspection!GetMessages
    <3>2. [i \in ItemsOf[m.id] |-> FALSE] \in Inspection!Lists(m.id)
      BY DEF Inspection!Lists
    <3> QED BY <1>2, <3>1, <3>2 DEF Inspection!MarksOf
  <2>3. /\ a \in [way : {"back"}, ok : {TRUE}, list : Inspection!Marks]
        /\ a.list \in Inspection!Lists(m.id)
    BY <2>2, MarksOfInspections
  <2>4. Inspection!Answer(m, a) /\ UNCHANGED verdicts
    BY <1>4 DEF Inspection!ServeGet
  <2> HIDE DEF a
  <2>5. /\ n \in Inspection!Messages /\ n.no = m.no /\ n.op = "get" /\ m.op = "get"
        /\ n.id = m.id /\ n.answer = a
    BY <2>1, <2>3 DEF Inspection!Messages, Inspection!GetMessages
  <2>6. sent' = (sent \ {m}) \cup {n} /\ UNCHANGED <<page, store, count, told>>
    BY <2>4 DEF Inspection!Answer
  <2> HIDE DEF n
  <2> QED BY <1>2, <2>3, <2>4, <2>5, <2>6, InspectionAnswered
<1>5. CASE Inspection!ServeExecute(m)
  <2> DEFINE n(a) == [m EXCEPT !.answer = a]
  <2>1. m \in Inspection!ExecuteMessages /\ m.op = "execute"
    BY <1>1, <1>5, InspectionMessages DEF Inspection!ServeExecute
  <2>2. m.id \in Inspections /\ m.list \in Inspection!Lists(m.id) /\ m.no \in Inspection!Numbers
    <3>1. count \in Nat /\ MaxSent \in Nat /\ count <= MaxSent
      BY PagesAssumption DEF Inspection!IInv, Inspection!TypeOK, Inspection!Numbers
    <3> QED BY <1>1, <2>1, <3>1 DEF Inspection!MessageOK, Inspection!Numbers
  <2>3. ASSUME NEW a \in {Inspection!Refused, Inspection!Done}, Inspection!Answer(m, a)
        PROVE  /\ n(a) \in Inspection!Messages /\ n(a).no = m.no /\ n(a).op = "execute"
               /\ n(a).id = m.id /\ n(a).list = m.list /\ n(a).query = m.query /\ n(a).answer = a
               /\ sent' = (sent \ {m}) \cup {n(a)} /\ UNCHANGED <<page, store, count, told>>
    <3>1. /\ n(a) \in Inspection!ExecuteMessages /\ n(a).no = m.no /\ n(a).op = "execute"
          /\ n(a).id = m.id /\ n(a).list = m.list /\ n(a).query = m.query /\ n(a).answer = a
      BY <2>1 DEF Inspection!ExecuteMessages
    <3> QED BY <2>3, <3>1 DEF Inspection!Messages, Inspection!Answer
  <2>4. CASE Inspection!Answer(m, Inspection!Refused) /\ UNCHANGED verdicts
    <3> DEFINE k == n(Inspection!Refused)
    <3>1. /\ k \in Inspection!Messages /\ k.no = m.no /\ k.op = "execute"
          /\ k.id = m.id /\ k.list = m.list /\ k.query = m.query
          /\ k.answer = Inspection!Refused
          /\ sent' = (sent \ {m}) \cup {k} /\ UNCHANGED <<page, store, count, told>>
      BY <2>3, <2>4
    <3>2. ~Inspection!Resolves(k)
      BY <3>1 DEF Inspection!Resolves, Inspection!Refused
    <3> HIDE DEF k
    <3> QED BY <1>2, <2>1, <2>4, <3>1, <3>2, InspectionAnswered
  <2>5. CASE /\ m.id \notin DOMAIN verdicts /\ Inspection!Answer(m, Inspection!Done)
             /\ Inspection!Decided(m.id, m.no, m.list)
    <3> DEFINE k == n(Inspection!Done)
    <3>1. /\ k \in Inspection!Messages /\ k.no = m.no /\ k.op = "execute"
          /\ k.id = m.id /\ k.list = m.list /\ k.query = m.query
          /\ sent' = (sent \ {m}) \cup {k} /\ UNCHANGED <<page, store, count, told>>
      BY <2>3, <2>5
    <3>2. /\ DOMAIN verdicts' = DOMAIN verdicts \cup {m.id}
          /\ DOMAIN verdicts' \subseteq Inspections
          /\ verdicts'[m.id].by = m.no
          /\ \A i \in DOMAIN verdicts : verdicts'[i] = verdicts[i]
          /\ \A i \in DOMAIN verdicts' : /\ verdicts'[i].by \in Inspection!Numbers
                                         /\ verdicts'[i].list \in Inspection!Lists(i)
      BY <2>2, <2>5, InspectionDecided
    <3> HIDE DEF k
    <3> QED BY <2>1, <3>1, <3>2, InspectionAnswered
  <2> QED BY <1>5, <2>4, <2>5 DEF Inspection!ServeExecute, Inspection!Done
<1>6. CASE Inspection!ServeCreate(m)
  <2> DEFINE n == [m EXCEPT !.answer = Inspection!Refused]
  <2>1. m \in Inspection!CreateMessages
    BY <1>1, <1>6, InspectionMessages DEF Inspection!ServeCreate
  <2>2. n \in Inspection!Messages /\ n.no = m.no /\ n.op = "create" /\ m.op = "create"
    BY <2>1 DEF Inspection!Messages, Inspection!CreateMessages
  <2>3. sent' = (sent \ {m}) \cup {n} /\ UNCHANGED <<page, store, count, told, verdicts>>
    BY <1>6 DEF Inspection!ServeCreate, Inspection!Answer
  <2> HIDE DEF n
  <2> QED BY <1>2, <2>2, <2>3, InspectionAnswered
<1> QED BY <1>3, <1>4, <1>5, <1>6

\* Others execute an inspection.
LEMMA InspectionElsewhere ==
    ASSUME Inspection!IInv, NEW id \in Inspections, NEW l \in Inspection!Lists(id),
           Inspection!Elsewhere(id, l)
    PROVE  Inspection!IInv'
<1>1. id \notin DOMAIN verdicts /\ Inspection!Decided(id, 0, l)
      /\ UNCHANGED <<page, store, sent, count, told>>
  BY DEF Inspection!Elsewhere
<1>2. 0 \in Inspection!Numbers
  BY PagesAssumption DEF Inspection!Numbers
<1>3. /\ DOMAIN verdicts' = DOMAIN verdicts \cup {id} /\ DOMAIN verdicts' \subseteq Inspections
      /\ \A i \in DOMAIN verdicts : verdicts'[i] = verdicts[i]
      /\ \A i \in DOMAIN verdicts' :
            verdicts'[i].by \in Inspection!Numbers /\ verdicts'[i].list \in Inspection!Lists(i)
  BY <1>1, <1>2, InspectionDecided
<1>4. Inspection!TypeOK'
  BY <1>1, <1>3 DEF Inspection!IInv, Inspection!TypeOK, Inspection!MessageOK
<1> QED
  BY <1>1, <1>3, <1>4
     DEF Inspection!IInv, Inspection!Shapes, Inspection!DetailsFit, Inspection!FreshListsFit,
         Inspection!ListAnswersFilter, Inspection!VerdictsAreTheirs, Inspection!SuccessIsOwn,
         Inspection!Resolves, Inspection!Account

\* Answers that end a request.
LEMMA InspectionArrives ==
    ASSUME Inspection!IInv, NEW m \in sent,
           Inspection!Rejected(m) \/ Inspection!ListArrives(m) \/ Inspection!DetailArrives(m)
    PROVE  Inspection!IInv'
<1>1. m \in Inspection!Messages /\ Inspection!MessageOK(m) /\ count \in Nat
  BY DEF Inspection!IInv, Inspection!Shapes, Inspection!TypeOK, Inspection!Numbers
<1>2. Inspection!Exchange({m}, {}) /\ UNCHANGED <<verdicts, told>>
  BY DEF Inspection!Rejected, Inspection!ListArrives, Inspection!DetailArrives
<1>3. count' = count
  BY <1>1, <1>2, InspectionCardinality, FS_EmptySet DEF Inspection!Exchange
<1>4. /\ store \in [rows : SUBSET Inspections, query : Inspection!Queries, asked : 0 .. count']
      /\ page \in [mount : Nat, query : Inspection!Queries, asked : 0 .. count',
                   dialog : Inspection!Dialogs]
      /\ Inspection!DialogOK(page.dialog)
  <2>1. store.asked \in 0 .. count
    BY DEF Inspection!IInv, Inspection!TypeOK, Inspection!Shapes, Inspection!Numbers
  <2> QED BY <1>3, <2>1 DEF Inspection!IInv, Inspection!TypeOK, Inspection!Shapes
<1>5. /\ store' \in [rows : SUBSET Inspections, query : Inspection!Queries, asked : 0 .. count']
      /\ store'.asked >= page.asked => store'.query = page.query
  <2>1. CASE store' = store
    BY <1>4, <2>1 DEF Inspection!IInv, Inspection!ListAnswersFilter
  <2>2. CASE Inspection!ListArrives(m)
    <3>1. m.op = "list" /\ m.answer.way = "back"
          /\ store' = [rows |-> m.answer.rows, query |-> m.query, asked |-> m.asked]
      BY <2>2 DEF Inspection!ListArrives
    <3>2. m \in Inspection!ListMessages
      BY <1>1, <3>1, InspectionMessages
    <3>3. m.answer.rows \in SUBSET Inspections
      <4>1. m.answer # Inspection!Unanswered
        BY <3>1 DEF Inspection!Unanswered
      <4>2. m.answer \in [way : {"back"}, ok : {TRUE}, rows : SUBSET Inspections]
        BY <3>2, <4>1 DEF Inspection!ListMessages
      <4> QED BY <4>2
    <3>4. m.query \in Inspection!Queries /\ m.asked \in 0 .. count'
      BY <1>1, <1>3, <3>1 DEF Inspection!MessageOK
    <3>5. m.asked >= page.asked => m.query = page.query
      BY <3>1 DEF Inspection!IInv, Inspection!FreshListsFit, Inspection!Account
    <3> QED BY <3>1, <3>3, <3>4, <3>5
  <2> QED BY <2>1, <2>2 DEF Inspection!Rejected, Inspection!ListArrives, Inspection!DetailArrives
<1>6. /\ page' \in [mount : Nat, query : Inspection!Queries, asked : 0 .. count',
                    dialog : Inspection!Dialogs]
      /\ Inspection!DialogOK(page'.dialog)
      /\ page'.query = page.query /\ page'.asked = page.asked
  <2>1. CASE page' = page
    BY <1>4, <2>1
  <2>2. CASE Inspection!DetailArrives(m) /\ page' # page
    <3>1. m.op = "get" /\ m.answer.way = "back"
          /\ page' = [page EXCEPT !.dialog = Inspection!DialogOf(m)]
      BY <2>2 DEF Inspection!DetailArrives
    <3>2. m.id \in Inspections /\ m.answer.list \in Inspection!Lists(m.id)
      <4>1. m \in Inspection!GetMessages
        BY <1>1, <3>1, InspectionMessages
      <4>2. m.answer # Inspection!Unanswered
        BY <3>1 DEF Inspection!Unanswered
      <4> QED BY <3>1, <4>1, <4>2
              DEF Inspection!IInv, Inspection!DetailsFit, Inspection!GetMessages
    <3>3. Inspection!DialogOf(m) \in Inspection!Dialogs /\ Inspection!DialogOK(Inspection!DialogOf(m))
      BY <3>2, MarksOfInspections
         DEF Inspection!DialogOf, Inspection!Dialogs, Inspection!DialogOK
    <3> QED BY <1>4, <3>1, <3>3
  <2> QED BY <2>1, <2>2 DEF Inspection!Rejected, Inspection!ListArrives, Inspection!DetailArrives
<1>7. told' \subseteq [id : Inspections, no : Inspection!Numbers]
  BY <1>2 DEF Inspection!IInv, Inspection!TypeOK
<1>8. /\ sent' = (sent \ {m}) \cup {}
      /\ Inspection!TypeOK' /\ Inspection!Shapes'
      /\ Inspection!DetailsFit' /\ Inspection!VerdictsAreTheirs'
  <2> DEFINE new == {}
  <2>1. (\A n \in new : InspectionNext(n)) /\ new = {} /\ Inspection!Exchange({m}, new)
    BY <1>2
  <2> HIDE DEF new
  <2> QED BY <1>2, <1>5, <1>6, <1>7, <2>1, InspectionExchange
<1>9. Inspection!FreshListsFit' /\ Inspection!ListAnswersFilter'
  BY <1>5, <1>6, <1>8
     DEF Inspection!IInv, Inspection!FreshListsFit, Inspection!Account,
         Inspection!ListAnswersFilter
<1> QED BY <1>2, <1>8, <1>9 DEF Inspection!IInv, Inspection!SuccessIsOwn

\* The rest of onExecute.
LEMMA InspectionExecuted ==
    ASSUME Inspection!IInv, NEW m \in sent, Inspection!ExecutedArrives(m)
    PROVE  Inspection!IInv'
<1>1. m \in Inspection!ExecuteMessages /\ Inspection!MessageOK(m) /\ m.op = "execute"
      /\ count \in Nat /\ m.no \in Inspection!Numbers
  <2>1. m \in Inspection!Messages /\ Inspection!MessageOK(m) /\ m.op = "execute"
    BY DEF Inspection!IInv, Inspection!Shapes, Inspection!TypeOK, Inspection!ExecutedArrives
  <2>2. count \in Nat /\ MaxSent \in Nat /\ count <= MaxSent
    BY PagesAssumption DEF Inspection!IInv, Inspection!TypeOK, Inspection!Numbers
  <2> QED BY <2>1, <2>2, InspectionMessages DEF Inspection!MessageOK, Inspection!Numbers
<1> DEFINE n == Inspection!Fetch(m.query, m.no)
<1>2. /\ Inspection!Exchange({m}, {n}) /\ UNCHANGED <<store, verdicts>>
      /\ told' = told \cup {[id |-> m.id, no |-> m.no]} /\ Inspection!Resolves(m)
      /\ page' = IF m.mount = page.mount THEN [page EXCEPT !.dialog = Inspection!Closed] ELSE page
  BY DEF Inspection!ExecutedArrives
<1>3. InspectionNext(n) /\ n.op = "list" /\ n.query = m.query /\ n.asked = m.no
  BY <1>1 DEF InspectionNext, Inspection!Fetch, Inspection!Messages, Inspection!ListMessages,
              Inspection!ExecuteMessages, Inspection!MessageOK
<1> HIDE DEF n
<1>4. count' = count + 1
  BY <1>1, <1>2, InspectionCardinality, FS_Singleton DEF Inspection!Exchange
<1>5. store' \in [rows : SUBSET Inspections, query : Inspection!Queries, asked : 0 .. count']
  <2>1. store.asked \in 0 .. count
    BY DEF Inspection!IInv, Inspection!TypeOK, Inspection!Shapes, Inspection!Numbers
  <2> QED BY <1>1, <1>2, <1>4, <2>1 DEF Inspection!IInv, Inspection!TypeOK
<1>6. /\ page' \in [mount : Nat, query : Inspection!Queries, asked : 0 .. count',
                    dialog : Inspection!Dialogs]
      /\ Inspection!DialogOK(page'.dialog)
      /\ page'.query = page.query /\ page'.asked = page.asked
  <2>1. /\ page \in [mount : Nat, query : Inspection!Queries, asked : 0 .. count',
                     dialog : Inspection!Dialogs]
        /\ Inspection!DialogOK(page.dialog)
    BY <1>1, <1>4 DEF Inspection!IInv, Inspection!TypeOK, Inspection!Shapes
  <2> QED BY <1>2, <2>1 DEF Inspection!DialogOK, Inspection!Dialogs
<1>7. told' \subseteq [id : Inspections, no : Inspection!Numbers]
  BY <1>1, <1>2 DEF Inspection!IInv, Inspection!TypeOK, Inspection!ExecuteMessages
<1>8. /\ sent' = (sent \ {m}) \cup {n}
      /\ Inspection!TypeOK' /\ Inspection!Shapes'
      /\ Inspection!DetailsFit' /\ Inspection!VerdictsAreTheirs'
  <2> DEFINE new == {n}
  <2>1. (\A k \in new : InspectionNext(k)) /\ \E k : new = {k}
    BY <1>3
  <2> QED BY <1>2, <1>5, <1>6, <1>7, <2>1, InspectionExchange
<1>9. Inspection!FreshListsFit'
  BY <1>1, <1>3, <1>6, <1>8 DEF Inspection!IInv, Inspection!FreshListsFit, Inspection!Account
<1>10. Inspection!ListAnswersFilter'
  BY <1>2, <1>6 DEF Inspection!IInv, Inspection!ListAnswersFilter
<1>11. Inspection!SuccessIsOwn'
  <2>1. m.id \in DOMAIN verdicts /\ verdicts[m.id].by = m.no
    BY <1>1, <1>2 DEF Inspection!IInv, Inspection!VerdictsAreTheirs
  <2> QED BY <1>2, <2>1 DEF Inspection!IInv, Inspection!SuccessIsOwn
<1> QED BY <1>8, <1>9, <1>10, <1>11 DEF Inspection!IInv

LEMMA InspectionNextInv == Inspection!IInv /\ Inspection!Next => Inspection!IInv'
BY InspectionDialog, InspectionAsks, InspectionRequests, InspectionServes, InspectionElsewhere,
   InspectionArrives, InspectionExecuted
   DEF Inspection!Next

-----------------------------------------------------------------------------
(***************************************************************************)
(* The page of the incidents.                                              *)
(***************************************************************************)

LEMMA IncidentCardinality == \A S : Incident!Cardinality(S) = Cardinality(S)
BY DEF Incident!Cardinality, Cardinality

\* The three operations and the statuses they go between.
LEMMA IncidentWalk ==
    ASSUME NEW op \in Incident!Ops
    PROVE  /\ Incident!From[op] \in Incident!Statuses \ {"none"}
           /\ Incident!To[op] \in Incident!Statuses
<1>1. \A n \in 1 .. 4 : Incident!Walk[n] \in Incident!Statuses
  BY DEF Incident!Statuses, Incident!Walk
<1>2. {"reported", "investigating", "resolved", "closed"} \subseteq Incident!Statuses
  BY <1>1 DEF Incident!Walk
<1> QED BY <1>2 DEF Incident!Ops, Incident!From, Incident!To

LEMMA IncidentMessages ==
    ASSUME NEW m \in Incident!Messages
    PROVE  /\ m.op \in {"list", "get", "report"} \cup Incident!Ops
           /\ m.op = "list" => m \in Incident!ListMessages
           /\ m.op = "get" => m \in Incident!GetMessages
           /\ m.op \in Incident!Ops => m \in Incident!StepMessages
           /\ m.op = "report" => m \in Incident!ReportMessages
BY DEF Incident!Messages, Incident!ListMessages, Incident!GetMessages, Incident!StepMessages,
       Incident!ReportMessages, Incident!Ops

LEMMA IncidentInit == Incident!Init => Incident!IInv
<1> SUFFICES ASSUME Incident!Init PROVE Incident!IInv
  OBVIOUS
<1>1. Incident!NoFilter \in Incident!Filters
  BY DEF Incident!NoFilter, Incident!Filters
<1>2. "reported" \in Incident!Statuses
  BY IncidentWalk DEF Incident!Ops, Incident!From
<1>3. sent \subseteq Incident!ListMessages /\ \A m \in sent : m.no = 1 /\ m.op = "list"
  BY <1>1 DEF Incident!Init, Incident!ListMessages
<1>4. Incident!Shapes
  BY <1>1, <1>3 DEF Incident!Init, Incident!Shapes, Incident!Mounted, Incident!Shown,
                    Incident!Messages
<1>5. Incident!TypeOK
  BY <1>1, <1>2, <1>3 DEF Incident!Init, Incident!TypeOK, Incident!Mounted, Incident!ShownOK,
                          Incident!Ops
<1> QED
  BY <1>3, <1>4, <1>5
     DEF Incident!Init, Incident!IInv, Incident!StepsFit, Incident!StepsAreOfWhatWasSeen,
         Incident!FreshDetailsFit, Incident!ShownIsChosen, Incident!IsOpen, Incident!Mounted,
         Incident!Ops

\* A message that may be sent next.
IncidentNext(n) ==
    /\ n \in Incident!Messages /\ n.no = count + 1
    /\ n.op = "get" => n.asked \in 1 .. count + 1
    /\ n.op \in Incident!Ops => /\ n.id = n.seen.id /\ n.seen.status = Incident!From[n.op]
                                /\ n.seen.asked \in 1 .. count

\* What holds of the messages goes on to hold when some are done with and one is
\* sent, or none.
LEMMA IncidentExchange ==
    ASSUME Incident!IInv, NEW done, NEW new,
           Incident!Exchange(done, new), new = {} \/ (\E n : new = {n}),
           \A n \in new : IncidentNext(n),
           page' \in [mount : Nat, filters : Incident!Filters, dialog : Incidents \cup {Incident!NoDialog},
                      shown : Incident!Shown, asked : 0 .. count'],
           page'.shown = Incident!NothingShown \/ page'.shown.asked \in 1 .. count,
           store' \subseteq Incidents,
           UNCHANGED <<status, moved>>
    PROVE  /\ sent' = (sent \ done) \cup new /\ count \in Nat
           /\ count' = IF new = {} THEN count ELSE count + 1
           /\ Incident!TypeOK' /\ Incident!Shapes'
           /\ Incident!StepsFit' /\ Incident!StepsAreOfWhatWasSeen'
<1>1. count \in Nat
  BY DEF Incident!IInv, Incident!Shapes
<1>2. Cardinality(new) = (IF new = {} THEN 0 ELSE 1)
  BY FS_EmptySet, FS_Singleton
<1>3. /\ sent' = (sent \ done) \cup new
      /\ count' = IF new = {} THEN count ELSE count + 1
      /\ count' \in Nat /\ count <= count'
  BY <1>1, <1>2, IncidentCardinality DEF Incident!Exchange
<1>4. sent' \subseteq Incident!Messages
  BY <1>3 DEF IncidentNext, Incident!IInv, Incident!Shapes
<1>5. \A m \in sent' : m.op = "get" => m.asked \in 1 .. count'
  BY <1>1, <1>3 DEF IncidentNext, Incident!IInv, Incident!Shapes
<1>6. Incident!Shapes'
  BY <1>3, <1>4, <1>5 DEF Incident!Shapes
<1>7. \A m \in sent' :
        /\ m.no \in 1 .. count'
        /\ m.op \in Incident!Ops => m.id \in Incidents /\ Incident!ShownOK(m.seen)'
  <2> SUFFICES ASSUME NEW m \in sent'
               PROVE  /\ m.no \in 1 .. count'
                      /\ m.op \in Incident!Ops => m.id \in Incidents /\ Incident!ShownOK(m.seen)'
    OBVIOUS
  <2>1. CASE m \in new
    <3>1. IncidentNext(m) /\ count' = count + 1
      BY <1>3, <2>1
    <3>2. ASSUME m.op \in Incident!Ops PROVE m.id \in Incidents /\ Incident!ShownOK(m.seen)'
      <4>1. m \in Incident!StepMessages
        BY <3>1, <3>2, IncidentMessages DEF IncidentNext
      <4>2. m.seen \in Incident!Shown /\ m.id \in Incidents /\ m.seen.asked \in 1 .. count'
        BY <1>1, <3>1, <3>2, <4>1 DEF IncidentNext, Incident!StepMessages
      <4>3. m.seen # Incident!NothingShown
        BY <3>1, <3>2, IncidentWalk DEF IncidentNext, Incident!NothingShown
      <4> QED BY <4>2, <4>3 DEF Incident!Shown, Incident!ShownOK
    <3> QED BY <1>1, <3>1, <3>2 DEF IncidentNext
  <2>2. CASE m \in sent
    BY <1>1, <1>3, <2>2 DEF Incident!IInv, Incident!TypeOK, Incident!ShownOK
  <2> QED BY <1>3, <2>1, <2>2
<1>8. Incident!TypeOK'
  <2>1. Incident!ShownOK(page.shown)'
    <3>1. CASE page'.shown = Incident!NothingShown
      BY <3>1 DEF Incident!ShownOK
    <3>2. CASE page'.shown # Incident!NothingShown
      BY <1>1, <1>3, <3>2 DEF Incident!ShownOK, Incident!Shown
    <3> QED BY <3>1, <3>2
  <2> QED BY <1>7, <2>1 DEF Incident!IInv, Incident!TypeOK
<1>9. Incident!StepsFit'
  BY <1>3 DEF Incident!IInv, Incident!StepsFit, IncidentNext
<1> QED BY <1>1, <1>3, <1>6, <1>8, <1>9 DEF Incident!IInv, Incident!StepsAreOfWhatWasSeen

\* Whose account a message is on is known when it is sent.
LEMMA IncidentAccounts ==
    ASSUME Incident!IInv, NEW m \in sent, m.op \in Incident!Ops \cup {"get"}
    PROVE  Incident!Account(m) \in 0 .. count
<1>1. CASE m.op = "get"
  BY <1>1 DEF Incident!IInv, Incident!Shapes, Incident!Account
<1>2. CASE m.op \in Incident!Ops
  <2>1. Incident!ShownOK(m.seen) /\ m.op # "get" /\ count \in Nat
    BY <1>2 DEF Incident!IInv, Incident!TypeOK, Incident!Shapes, Incident!Ops
  <2> QED BY <2>1 DEF Incident!ShownOK, Incident!NothingShown, Incident!Account
<1> QED BY <1>1, <1>2

\* What is known of the page before each step.
LEMMA IncidentPageShape ==
    ASSUME Incident!IInv
    PROVE  /\ page \in [mount : Nat, filters : Incident!Filters,
                        dialog : Incidents \cup {Incident!NoDialog},
                        shown : Incident!Shown, asked : 0 .. count]
           /\ page.shown = Incident!NothingShown \/ page.shown.asked \in 1 .. count
           /\ store \subseteq Incidents /\ count \in Nat
BY DEF Incident!IInv, Incident!Shapes, Incident!TypeOK, Incident!ShownOK

LEMMA NoIncidentIsNoDialog == Incident!NoDialog \notin Incidents
BY PagesAssumption DEF Incident!NoDialog

\* A page without a dialog asks for its list, or reports an incident.
LEMMA IncidentAsks ==
    ASSUME Incident!IInv,
           \/ \E filters \in Incident!Filters : Incident!Select(filters)
           \/ Incident!Return \/ Incident!Report
    PROVE  Incident!IInv'
<1>1. /\ page \in [mount : Nat, filters : Incident!Filters,
                   dialog : Incidents \cup {Incident!NoDialog},
                   shown : Incident!Shown, asked : 0 .. count]
      /\ page.shown = Incident!NothingShown \/ page.shown.asked \in 1 .. count
      /\ store \subseteq Incidents /\ count \in Nat
  BY IncidentPageShape
<1>2. Incident!NoFilter \in Incident!Filters
  BY DEF Incident!NoFilter, Incident!Filters
<1>3. PICK n : Incident!Exchange({}, {n}) /\ IncidentNext(n)
  <2>1. ASSUME NEW f \in Incident!Filters, Incident!Exchange({}, {Incident!Fetch(f)})
        PROVE  \E n : Incident!Exchange({}, {n}) /\ IncidentNext(n)
    <3> DEFINE n == Incident!Fetch(f)
    <3>1. IncidentNext(n)
      BY <1>1 DEF IncidentNext, Incident!Fetch, Incident!Messages, Incident!ListMessages,
                  Incident!Ops
    <3> HIDE DEF n
    <3> QED BY <2>1, <3>1 DEF n
  <2>2. CASE \E filters \in Incident!Filters : Incident!Select(filters)
    BY <2>1, <2>2 DEF Incident!Select
  <2>3. CASE Incident!Return
    BY <1>2, <2>1, <2>3 DEF Incident!Return
  <2>4. CASE Incident!Report
    <3> DEFINE n == [no |-> count + 1, op |-> "report", answer |-> Incident!Unanswered]
    <3>1. IncidentNext(n)
      BY <1>1 DEF IncidentNext, Incident!Messages, Incident!ReportMessages, Incident!Ops,
                  Incident!Unanswered
    <3>2. Incident!Exchange({}, {n})
      BY <2>4 DEF Incident!Report
    <3> HIDE DEF n
    <3> QED BY <3>1, <3>2
  <2> QED BY <2>2, <2>3, <2>4
<1>4. UNCHANGED <<store, status, moved>>
  BY DEF Incident!Select, Incident!Return, Incident!Report
<1>5. count' = count + 1
  BY <1>1, <1>3, IncidentCardinality, FS_Singleton DEF Incident!Exchange
<1>6. /\ page' \in [mount : Nat, filters : Incident!Filters,
                    dialog : Incidents \cup {Incident!NoDialog},
                    shown : Incident!Shown, asked : 0 .. count']
      /\ page'.shown = Incident!NothingShown \/ page'.shown.asked \in 1 .. count
      /\ page'.dialog = Incident!NoDialog
  <2>1. CASE \E filters \in Incident!Filters : Incident!Select(filters)
    <3>1. PICK f \in Incident!Filters : page' = [page EXCEPT !.filters = f]
      BY <2>1 DEF Incident!Select
    <3>2. page.dialog = Incident!NoDialog
      BY <2>1 DEF Incident!Select, Incident!IsOpen
    <3> QED BY <1>1, <1>5, <3>1, <3>2
  <2>2. CASE Incident!Return
    BY <1>1, <1>2, <1>5, <2>2
       DEF Incident!Return, Incident!Mounted, Incident!Shown
  <2>3. CASE Incident!Report
    BY <1>1, <1>5, <2>3 DEF Incident!Report, Incident!IsOpen
  <2> QED BY <2>1, <2>2, <2>3
<1>7. /\ Incident!TypeOK' /\ Incident!Shapes'
      /\ Incident!StepsFit' /\ Incident!StepsAreOfWhatWasSeen'
  <2> DEFINE new == {n}
  <2>1. (\A k \in new : IncidentNext(k)) /\ \E k : new = {k}
    BY <1>3
  <2>2. store' \subseteq Incidents
    BY <1>1, <1>4
  <2> QED BY <1>3, <1>4, <1>6, <2>1, <2>2, IncidentExchange
<1>8. Incident!FreshDetailsFit' /\ Incident!ShownIsChosen'
  BY <1>6 DEF Incident!FreshDetailsFit, Incident!ShownIsChosen, Incident!IsOpen
<1> QED BY <1>7, <1>8 DEF Incident!IInv

LEMMA IncidentClosed ==
    ASSUME Incident!IInv, Incident!CloseDetail
    PROVE  Incident!IInv'
<1>1. page' = [page EXCEPT !.dialog = Incident!NoDialog]
      /\ UNCHANGED <<store, sent, count, status, moved>>
  BY DEF Incident!CloseDetail
<1>2. /\ page' \in [mount : Nat, filters : Incident!Filters,
                    dialog : Incidents \cup {Incident!NoDialog},
                    shown : Incident!Shown, asked : 0 .. count]
      /\ page'.dialog = Incident!NoDialog /\ page'.shown = page.shown
      /\ page'.mount \in Nat /\ page'.filters \in Incident!Filters /\ page'.asked \in 0 .. count
  BY <1>1, IncidentPageShape
<1>3. Incident!TypeOK'
  BY <1>1, <1>2 DEF Incident!IInv, Incident!TypeOK, Incident!ShownOK
<1> QED
  BY <1>1, <1>2, <1>3
     DEF Incident!IInv, Incident!Shapes, Incident!StepsFit, Incident!StepsAreOfWhatWasSeen,
         Incident!FreshDetailsFit, Incident!ShownIsChosen, Incident!IsOpen

\* The dialog is opened: everything on its way is on an older account.
LEMMA IncidentOpened ==
    ASSUME Incident!IInv, NEW id \in Incidents, Incident!OpenDetail(id)
    PROVE  Incident!IInv'
<1>1. /\ page \in [mount : Nat, filters : Incident!Filters,
                   dialog : Incidents \cup {Incident!NoDialog},
                   shown : Incident!Shown, asked : 0 .. count]
      /\ page.shown = Incident!NothingShown \/ page.shown.asked \in 1 .. count
      /\ store \subseteq Incidents /\ count \in Nat
  BY IncidentPageShape
<1> DEFINE n == Incident!Load(id, count + 1, page.mount)
<1>2. /\ page' = [page EXCEPT !.dialog = id, !.asked = count + 1]
      /\ Incident!Exchange({}, {n})
      /\ UNCHANGED <<store, status, moved>>
  BY DEF Incident!OpenDetail, Incident!Loaded
<1>3. IncidentNext(n) /\ n.op = "get" /\ n.id = id
  BY <1>1 DEF IncidentNext, Incident!Load, Incident!Messages, Incident!GetMessages, Incident!Ops
<1> HIDE DEF n
<1>4. count' = count + 1
  BY <1>1, <1>2, IncidentCardinality, FS_Singleton DEF Incident!Exchange
<1>5. /\ page' \in [mount : Nat, filters : Incident!Filters,
                    dialog : Incidents \cup {Incident!NoDialog},
                    shown : Incident!Shown, asked : 0 .. count']
      /\ page'.shown = page.shown /\ page'.dialog = id /\ page'.asked = count + 1
  <2>1. /\ page' = [page EXCEPT !.dialog = id, !.asked = count + 1]
        /\ count + 1 \in 0 .. count' /\ id \in Incidents \cup {Incident!NoDialog}
    BY <1>1, <1>2, <1>4
  <2> QED BY <1>1, <2>1
<1>6. /\ sent' = (sent \ {}) \cup {n}
      /\ Incident!TypeOK' /\ Incident!Shapes'
      /\ Incident!StepsFit' /\ Incident!StepsAreOfWhatWasSeen'
  <2> DEFINE new == {n}
  <2>1. (\A k \in new : IncidentNext(k)) /\ \E k : new = {k}
    BY <1>3
  <2>2. store' \subseteq Incidents
    BY <1>1, <1>2
  <2> QED BY <1>1, <1>2, <1>5, <2>1, <2>2, IncidentExchange
<1>7. Incident!FreshDetailsFit'
  <2> SUFFICES ASSUME NEW m \in sent', m.op \in Incident!Ops \cup {"get"},
                      Incident!Account(m) >= page'.asked
               PROVE  m.id = page'.dialog
    BY DEF Incident!FreshDetailsFit, Incident!Account
  <2>1. CASE m = n
    BY <1>3, <1>5, <2>1
  <2>2. CASE m \in sent
    <3>1. Incident!Account(m) \in 0 .. count
      BY <2>2, IncidentAccounts
    <3> QED BY <1>1, <1>5, <3>1
  <2> QED BY <1>6, <2>1, <2>2
<1>8. Incident!ShownIsChosen'
  <2>1. page'.shown.asked \in 0 .. count
    BY <1>1, <1>5 DEF Incident!NothingShown
  <2> QED BY <1>1, <1>5, <2>1 DEF Incident!ShownIsChosen
<1> QED BY <1>6, <1>7, <1>8 DEF Incident!IInv

\* A button is clicked for what is shown.
LEMMA IncidentClicked ==
    ASSUME Incident!IInv, NEW op \in Incident!Ops, Incident!Click(op)
    PROVE  Incident!IInv'
<1>1. /\ page \in [mount : Nat, filters : Incident!Filters,
                   dialog : Incidents \cup {Incident!NoDialog},
                   shown : Incident!Shown, asked : 0 .. count]
      /\ page.shown = Incident!NothingShown \/ page.shown.asked \in 1 .. count
      /\ store \subseteq Incidents /\ count \in Nat
  BY IncidentPageShape
<1> DEFINE n == [no |-> count + 1, op |-> op, id |-> Incident!Target, seen |-> page.shown,
                 mount |-> page.mount, answer |-> Incident!Unanswered]
<1>2. /\ Incident!IsOpen /\ page.shown.status = Incident!From[op]
      /\ Incident!Exchange({}, {n})
      /\ UNCHANGED <<page, store, status, moved>>
  BY DEF Incident!Click
<1>3. page.shown # Incident!NothingShown
  BY <1>2, IncidentWalk DEF Incident!NothingShown
<1>4. page.shown \in [id : Incidents, status : Incident!Statuses, asked : Nat]
  BY <1>1, <1>3 DEF Incident!Shown
<1>5. /\ n.no = count + 1 /\ n.op = op /\ n.id = page.shown.id /\ n.seen = page.shown
      /\ n \in Incident!StepMessages
  <2>1. Incident!Unanswered \in [code : {0, 200, 409}]
    BY DEF Incident!Unanswered
  <2> QED BY <1>1, <1>4, <2>1 DEF Incident!StepMessages, Incident!Target
<1> HIDE DEF n
<1>6. IncidentNext(n) /\ op # "get" /\ op # "list"
  BY <1>1, <1>2, <1>3, <1>5 DEF IncidentNext, Incident!Messages, Incident!Ops
<1>7. count' = count + 1
  BY <1>1, <1>2, IncidentCardinality, FS_Singleton DEF Incident!Exchange
<1>8. /\ sent' = (sent \ {}) \cup {n}
      /\ Incident!TypeOK' /\ Incident!Shapes'
      /\ Incident!StepsFit' /\ Incident!StepsAreOfWhatWasSeen'
  <2> DEFINE new == {n}
  <2>1. (\A k \in new : IncidentNext(k)) /\ \E k : new = {k}
    BY <1>6
  <2>2. store' \subseteq Incidents
    BY <1>1, <1>2
  <2>3. page' \in [mount : Nat, filters : Incident!Filters,
                   dialog : Incidents \cup {Incident!NoDialog},
                   shown : Incident!Shown, asked : 0 .. count']
    BY <1>1, <1>2, <1>7
  <2> QED BY <1>1, <1>2, <2>1, <2>2, <2>3, IncidentExchange
<1>9. Incident!Account(n) >= page.asked => n.id = page.dialog
  BY <1>2, <1>5, <1>6 DEF Incident!IInv, Incident!ShownIsChosen, Incident!Account
<1>10. Incident!FreshDetailsFit'
  BY <1>2, <1>8, <1>9 DEF Incident!IInv, Incident!FreshDetailsFit, Incident!IsOpen,
                          Incident!Account
<1>11. Incident!ShownIsChosen'
  BY <1>2 DEF Incident!IInv, Incident!ShownIsChosen, Incident!IsOpen
<1> QED BY <1>8, <1>10, <1>11 DEF Incident!IInv

\* A message gets its answer; what it says of itself stays.
LEMMA IncidentAnswered ==
    ASSUME Incident!IInv, NEW m \in sent, NEW n,
           sent' = (sent \ {m}) \cup {n}, UNCHANGED <<page, store, count>>,
           n \in Incident!Messages, n.no = m.no, n.op = m.op,
           m.op \in Incident!Ops \cup {"get"} => n.id = m.id,
           m.op = "get" => n.asked = m.asked,
           m.op \in Incident!Ops => n.seen = m.seen,
           status' \in [Incidents -> Incident!Statuses],
           Incident!StepsAreOfWhatWasSeen'
    PROVE  Incident!IInv'
<1>1. Incident!TypeOK'
  BY DEF Incident!IInv, Incident!TypeOK, Incident!ShownOK
<1>2. Incident!Shapes'
  BY DEF Incident!IInv, Incident!Shapes
<1>3. Incident!StepsFit'
  BY DEF Incident!IInv, Incident!StepsFit
<1>4. Incident!Account(n) = Incident!Account(m) \/ m.op \notin Incident!Ops \cup {"get"}
  BY DEF Incident!Account
<1>5. Incident!FreshDetailsFit'
  <2> SUFFICES ASSUME Incident!IsOpen, NEW k \in sent', k.op \in Incident!Ops \cup {"get"},
                      Incident!Account(k) >= page.asked
               PROVE  k.id = page.dialog
    BY DEF Incident!FreshDetailsFit, Incident!IsOpen, Incident!Account
  <2> QED BY <1>4 DEF Incident!IInv, Incident!FreshDetailsFit
<1>6. Incident!ShownIsChosen'
  BY DEF Incident!IInv, Incident!ShownIsChosen, Incident!IsOpen
<1> QED BY <1>1, <1>2, <1>3, <1>5, <1>6 DEF Incident!IInv

LEMMA IncidentServes ==
    ASSUME Incident!IInv, NEW m \in sent,
           \/ Incident!ServeList(m) \/ Incident!ServeGet(m)
           \/ Incident!ServeStep(m) \/ Incident!ServeReport(m)
    PROVE  Incident!IInv'
<1>1. /\ m \in Incident!Messages /\ status \in [Incidents -> Incident!Statuses]
      /\ Incident!StepsAreOfWhatWasSeen
  BY DEF Incident!IInv, Incident!Shapes, Incident!TypeOK
<1>2. UNCHANGED moved => Incident!StepsAreOfWhatWasSeen'
  BY <1>1 DEF Incident!StepsAreOfWhatWasSeen
<1>3. CASE Incident!ServeList(m)
  <2> DEFINE a == [code |-> 200, rows |-> Incident!Found(m.filters)]
             n == [m EXCEPT !.answer = a]
  <2>1. m \in Incident!ListMessages
    BY <1>1, <1>3, IncidentMessages DEF Incident!ServeList
  <2>2. a \in [code : {200}, rows : SUBSET Incidents]
    BY DEF Incident!Found
  <2>3. Incident!Answer(m, a) /\ UNCHANGED <<status, moved>>
    BY <1>3 DEF Incident!ServeList
  <2> HIDE DEF a
  <2>4. /\ n \in Incident!Messages /\ n.no = m.no /\ n.op = m.op
        /\ m.op \notin Incident!Ops \cup {"get"}
    BY <2>1, <2>2 DEF Incident!Messages, Incident!ListMessages, Incident!Ops
  <2>5. sent' = (sent \ {m}) \cup {n} /\ UNCHANGED <<page, store, count>>
    BY <2>3 DEF Incident!Answer
  <2> HIDE DEF n
  <2> QED BY <1>1, <1>2, <2>3, <2>4, <2>5, IncidentAnswered
<1>4. CASE Incident!ServeGet(m)
  <2> DEFINE a == [code |-> 200, status |-> status[m.id]]
             n == [m EXCEPT !.answer = a]
  <2>1. m \in Incident!GetMessages
    BY <1>1, <1>4, IncidentMessages DEF Incident!ServeGet
  <2>2. a \in [code : {200}, status : Incident!Statuses]
    BY <1>1, <2>1 DEF Incident!GetMessages
  <2>3. Incident!Answer(m, a) /\ UNCHANGED <<status, moved>>
    BY <1>4 DEF Incident!ServeGet
  <2> HIDE DEF a
  <2>4. /\ n \in Incident!Messages /\ n.no = m.no /\ n.op = m.op /\ n.id = m.id
        /\ n.asked = m.asked /\ m.op \notin Incident!Ops
    BY <2>1, <2>2 DEF Incident!Messages, Incident!GetMessages, Incident!Ops
  <2>5. sent' = (sent \ {m}) \cup {n} /\ UNCHANGED <<page, store, count>>
    BY <2>3 DEF Incident!Answer
  <2> HIDE DEF n
  <2> QED BY <1>1, <1>2, <2>3, <2>4, <2>5, IncidentAnswered
<1>5. CASE Incident!ServeStep(m)
  <2>1. m \in Incident!StepMessages /\ m.op \in Incident!Ops
    BY <1>1, <1>5, IncidentMessages DEF Incident!ServeStep
  <2>2. PICK code \in {200, 409} : Incident!Answer(m, [code |-> code])
    BY <1>5 DEF Incident!ServeStep
  <2> DEFINE n == [m EXCEPT !.answer = [code |-> code]]
  <2>3. /\ n \in Incident!StepMessages /\ n.no = m.no /\ n.op = m.op /\ n.id = m.id
        /\ n.seen = m.seen /\ m.op # "get"
    BY <2>1 DEF Incident!StepMessages, Incident!Ops
  <2>4. n \in Incident!Messages /\ sent' = (sent \ {m}) \cup {n}
        /\ UNCHANGED <<page, store, count>>
    BY <2>2, <2>3 DEF Incident!Messages, Incident!Answer
  <2> HIDE DEF n
  <2>5. status' \in [Incidents -> Incident!Statuses]
    BY <1>1, <1>5, <2>1, IncidentWalk DEF Incident!ServeStep
  <2>6. Incident!StepsAreOfWhatWasSeen'
    <3>1. m.id = m.seen.id /\ m.seen.status = Incident!From[m.op]
      BY <2>1 DEF Incident!IInv, Incident!StepsFit
    <3>2. CASE UNCHANGED moved
      BY <1>2, <3>2
    <3>3. CASE moved' = moved \cup {[id |-> m.id, op |-> m.op, seen |-> m.seen]}
      BY <1>1, <3>1, <3>3 DEF Incident!StepsAreOfWhatWasSeen
    <3> QED BY <1>5, <3>2, <3>3 DEF Incident!ServeStep
  <2> QED BY <2>3, <2>4, <2>5, <2>6, IncidentAnswered
<1>6. CASE Incident!ServeReport(m)
  <2> DEFINE n == [m EXCEPT !.answer = [code |-> 400]]
  <2>1. m \in Incident!ReportMessages
    BY <1>1, <1>6, IncidentMessages DEF Incident!ServeReport
  <2>2. /\ n \in Incident!Messages /\ n.no = m.no /\ n.op = m.op
        /\ m.op \notin Incident!Ops \cup {"get"}
    BY <2>1 DEF Incident!Messages, Incident!ReportMessages, Incident!Ops
  <2>3. sent' = (sent \ {m}) \cup {n} /\ UNCHANGED <<page, store, count, status, moved>>
    BY <1>6 DEF Incident!ServeReport, Incident!Answer
  <2> HIDE DEF n
  <2> QED BY <1>1, <1>2, <2>2, <2>3, IncidentAnswered
<1> QED BY <1>3, <1>4, <1>5, <1>6

\* Others take a step.
LEMMA IncidentElsewhere ==
    ASSUME Incident!IInv, NEW id \in Incidents, NEW op \in Incident!Ops,
           Incident!Elsewhere(id, op)
    PROVE  Incident!IInv'
<1>1. status' = [status EXCEPT ![id] = Incident!To[op]]
      /\ UNCHANGED <<page, store, sent, count, moved>>
  BY DEF Incident!Elsewhere
<1>2. status' \in [Incidents -> Incident!Statuses]
  BY <1>1, IncidentWalk DEF Incident!IInv, Incident!TypeOK
<1>3. Incident!TypeOK'
  BY <1>1, <1>2 DEF Incident!IInv, Incident!TypeOK, Incident!ShownOK
<1> QED
  BY <1>1, <1>3
     DEF Incident!IInv, Incident!Shapes, Incident!StepsFit, Incident!StepsAreOfWhatWasSeen,
         Incident!FreshDetailsFit, Incident!ShownIsChosen, Incident!IsOpen, Incident!Account

\* Answers that end a request.
LEMMA IncidentArrives ==
    ASSUME Incident!IInv, NEW m \in sent,
           Incident!Rejected(m) \/ Incident!ListArrives(m) \/ Incident!DetailArrives(m)
    PROVE  Incident!IInv'
<1>1. /\ page \in [mount : Nat, filters : Incident!Filters,
                   dialog : Incidents \cup {Incident!NoDialog},
                   shown : Incident!Shown, asked : 0 .. count]
      /\ page.shown = Incident!NothingShown \/ page.shown.asked \in 1 .. count
      /\ store \subseteq Incidents /\ count \in Nat
  BY IncidentPageShape
<1>2. m \in Incident!Messages
  BY DEF Incident!IInv, Incident!Shapes
<1>3. Incident!Exchange({m}, {}) /\ UNCHANGED <<status, moved>>
  BY DEF Incident!Rejected, Incident!ListArrives, Incident!DetailArrives
<1>4. count' = count
  BY <1>1, <1>3, IncidentCardinality, FS_EmptySet DEF Incident!Exchange
<1>5. store' \subseteq Incidents
  <2>1. CASE store' = store
    BY <1>1, <2>1
  <2>2. CASE Incident!ListArrives(m)
    <3>1. m \in Incident!ListMessages /\ m.answer.code = 200 /\ store' = m.answer.rows
      BY <1>2, <2>2, IncidentMessages DEF Incident!ListArrives
    <3>2. m.answer # Incident!Unanswered
      BY <3>1 DEF Incident!Unanswered
    <3>3. m.answer \in [code : {200}, rows : SUBSET Incidents]
      BY <3>1, <3>2 DEF Incident!ListMessages
    <3> QED BY <3>1, <3>3
  <2> QED BY <2>1, <2>2 DEF Incident!Rejected, Incident!ListArrives, Incident!DetailArrives
<1>6. /\ page' \in [mount : Nat, filters : Incident!Filters,
                    dialog : Incidents \cup {Incident!NoDialog},
                    shown : Incident!Shown, asked : 0 .. count']
      /\ page'.shown = Incident!NothingShown \/ page'.shown.asked \in 1 .. count
      /\ page'.dialog = page.dialog /\ page'.asked = page.asked
      /\ Incident!ShownIsChosen'
  <2>1. CASE page' = page
    BY <1>1, <1>4, <2>1 DEF Incident!IInv, Incident!ShownIsChosen, Incident!IsOpen
  <2>2. CASE Incident!DetailArrives(m) /\ page' # page
    <3> DEFINE s == [id |-> m.id, status |-> m.answer.status, asked |-> m.asked]
    <3>1. m \in Incident!GetMessages /\ m.op = "get" /\ m.answer.code = 200
          /\ page' = [page EXCEPT !.shown = s]
      BY <1>2, <2>2, IncidentMessages DEF Incident!DetailArrives
    <3>2. m.answer # Incident!Unanswered
      BY <3>1 DEF Incident!Unanswered
    <3>3. m.answer \in [code : {200}, status : Incident!Statuses]
      BY <3>1, <3>2 DEF Incident!GetMessages
    <3>4. m.asked \in 1 .. count /\ m.id \in Incidents
      BY <3>1 DEF Incident!IInv, Incident!Shapes, Incident!GetMessages
    <3>5. s \in Incident!Shown /\ s.asked \in 1 .. count /\ s.asked = m.asked /\ s.id = m.id
      BY <1>1, <3>3, <3>4 DEF Incident!Shown
    <3> HIDE DEF s
    <3>6. /\ page' \in [mount : Nat, filters : Incident!Filters,
                        dialog : Incidents \cup {Incident!NoDialog},
                        shown : Incident!Shown, asked : 0 .. count']
          /\ page'.shown = s /\ page'.dialog = page.dialog /\ page'.asked = page.asked
      BY <1>1, <1>4, <3>1, <3>5
    <3>7. Incident!ShownIsChosen'
      <4>1. Incident!IsOpen /\ m.asked >= page.asked => m.id = page.dialog
        BY <3>1 DEF Incident!IInv, Incident!FreshDetailsFit, Incident!Account, Incident!Ops
      <4> QED BY <3>5, <3>6, <4>1 DEF Incident!ShownIsChosen, Incident!IsOpen
    <3> QED BY <3>5, <3>6, <3>7
  <2> QED BY <2>1, <2>2 DEF Incident!Rejected, Incident!ListArrives, Incident!DetailArrives
<1>7. /\ sent' = (sent \ {m}) \cup {}
      /\ Incident!TypeOK' /\ Incident!Shapes'
      /\ Incident!StepsFit' /\ Incident!StepsAreOfWhatWasSeen'
  <2> DEFINE new == {}
  <2>1. (\A n \in new : IncidentNext(n)) /\ new = {} /\ Incident!Exchange({m}, new)
    BY <1>3
  <2> HIDE DEF new
  <2> QED BY <1>3, <1>5, <1>6, <2>1, IncidentExchange
<1>8. Incident!FreshDetailsFit'
  BY <1>6, <1>7 DEF Incident!IInv, Incident!FreshDetailsFit, Incident!Account, Incident!IsOpen
<1> QED BY <1>6, <1>7, <1>8 DEF Incident!IInv

\* After its step an incident is loaded again, on the account it was shown on.
LEMMA IncidentStepped ==
    ASSUME Incident!IInv, NEW m \in sent, Incident!StepArrives(m)
    PROVE  Incident!IInv'
<1>1. /\ page \in [mount : Nat, filters : Incident!Filters,
                   dialog : Incidents \cup {Incident!NoDialog},
                   shown : Incident!Shown, asked : 0 .. count]
      /\ page.shown = Incident!NothingShown \/ page.shown.asked \in 1 .. count
      /\ store \subseteq Incidents /\ count \in Nat
  BY IncidentPageShape
<1>2. m \in Incident!StepMessages /\ m.op \in Incident!Ops /\ m.op # "get"
  BY IncidentMessages DEF Incident!IInv, Incident!Shapes, Incident!StepArrives, Incident!Ops
<1>3. m.seen.asked \in 1 .. count
  <2>1. Incident!ShownOK(m.seen) /\ m.seen.status = Incident!From[m.op]
    BY <1>2 DEF Incident!IInv, Incident!TypeOK, Incident!StepsFit
  <2>2. m.seen # Incident!NothingShown
    BY <1>2, <2>1, IncidentWalk DEF Incident!NothingShown
  <2> QED BY <2>1, <2>2 DEF Incident!ShownOK
<1> DEFINE n == Incident!Load(m.id, m.seen.asked, m.mount)
<1>4. Incident!Exchange({m}, {n}) /\ UNCHANGED <<page, store, status, moved>>
  BY DEF Incident!StepArrives
<1>5. IncidentNext(n) /\ n.op = "get" /\ n.id = m.id /\ n.asked = m.seen.asked
  BY <1>1, <1>2, <1>3
     DEF IncidentNext, Incident!Load, Incident!Messages, Incident!GetMessages,
         Incident!StepMessages, Incident!Ops
<1> HIDE DEF n
<1>6. count' = count + 1
  BY <1>1, <1>4, IncidentCardinality, FS_Singleton DEF Incident!Exchange
<1>7. /\ sent' = (sent \ {m}) \cup {n}
      /\ Incident!TypeOK' /\ Incident!Shapes'
      /\ Incident!StepsFit' /\ Incident!StepsAreOfWhatWasSeen'
  <2> DEFINE new == {n}
  <2>1. (\A k \in new : IncidentNext(k)) /\ \E k : new = {k}
    BY <1>5
  <2>2. store' \subseteq Incidents
    BY <1>1, <1>4
  <2>3. page' \in [mount : Nat, filters : Incident!Filters,
                   dialog : Incidents \cup {Incident!NoDialog},
                   shown : Incident!Shown, asked : 0 .. count']
    BY <1>1, <1>4, <1>6
  <2> QED BY <1>1, <1>4, <2>1, <2>2, <2>3, IncidentExchange
<1>8. Incident!Account(n) = Incident!Account(m)
  BY <1>2, <1>5 DEF Incident!Account
<1>9. Incident!FreshDetailsFit'
  <2> SUFFICES ASSUME Incident!IsOpen, NEW k \in sent', k.op \in Incident!Ops \cup {"get"},
                      Incident!Account(k) >= page.asked
               PROVE  k.id = page.dialog
    BY <1>4 DEF Incident!FreshDetailsFit, Incident!IsOpen, Incident!Account
  <2> QED BY <1>2, <1>5, <1>7, <1>8 DEF Incident!IInv, Incident!FreshDetailsFit
<1>10. Incident!ShownIsChosen'
  BY <1>4 DEF Incident!IInv, Incident!ShownIsChosen, Incident!IsOpen
<1> QED BY <1>7, <1>9, <1>10 DEF Incident!IInv

LEMMA IncidentNextInv == Incident!IInv /\ Incident!Next => Incident!IInv'
BY IncidentClosed, IncidentAsks, IncidentOpened, IncidentClicked, IncidentServes,
   IncidentElsewhere, IncidentArrives, IncidentStepped
   DEF Incident!Next

-----------------------------------------------------------------------------
(***************************************************************************)
(* Both pages: one is on show, and nothing touches what is the other's.    *)
(***************************************************************************)

LEMMA InspectionStutters ==
    ASSUME Inspection!IInv, UNCHANGED <<page, store, sent, count, verdicts, told>>
    PROVE  Inspection!IInv'
<1>1. Inspection!TypeOK'
  BY DEF Inspection!IInv, Inspection!TypeOK, Inspection!MessageOK
<1> QED
  BY <1>1
     DEF Inspection!IInv, Inspection!Shapes, Inspection!DetailsFit, Inspection!FreshListsFit,
         Inspection!ListAnswersFilter, Inspection!VerdictsAreTheirs, Inspection!SuccessIsOwn,
         Inspection!Resolves, Inspection!Account

LEMMA IncidentStutters ==
    ASSUME Incident!IInv, UNCHANGED <<page, store, sent, count, status, moved>>
    PROVE  Incident!IInv'
<1>1. Incident!TypeOK'
  BY DEF Incident!IInv, Incident!TypeOK, Incident!ShownOK
<1> QED
  BY <1>1
     DEF Incident!IInv, Incident!Shapes, Incident!StepsFit, Incident!StepsAreOfWhatWasSeen,
         Incident!FreshDetailsFit, Incident!ShownIsChosen, Incident!IsOpen, Incident!Account

LEMMA InitInv == Init => IInv
BY InspectionInit, IncidentInit DEF Init, IInv

LEMMA NextInv == IInv /\ [Next]_vars => IInv'
<1> SUFFICES ASSUME IInv, [Next]_vars PROVE IInv'
  OBVIOUS
<1>1. CASE OfInspections
  BY <1>1, InspectionNextInv DEF OfInspections, IInv
<1>2. CASE OfIncidents
  BY <1>2, IncidentNextInv DEF OfIncidents, IInv
<1>3. CASE UNCHANGED vars
  BY <1>3, InspectionStutters, IncidentStutters DEF vars, IInv
<1> QED BY <1>1, <1>2, <1>3 DEF Next

LEMMA Invariance == Spec => []IInv
BY InitInv, NextInv, PTL DEF Spec

\* Types; a list that is submitted names the items of its own inspection.
THEOREM TypeCorrect == Spec => []TypeOK
<1>1. IInv => TypeOK
  BY DEF IInv, TypeOK, Inspection!IInv, Incident!IInv
<1> QED BY <1>1, Invariance, PTL

\* Who is told that an inspection is executed decided its verdict
\* (InspectionManage.onExecute).
THEOREM SuccessCorrect == Spec => []SuccessIsOwn
<1>1. IInv => SuccessIsOwn
  BY DEF IInv, SuccessIsOwn, Inspection!IInv
<1> QED BY <1>1, Invariance, PTL

\* A list asked for since the filter was last changed answers that filter
\* (inspectionStore.fetchList).
THEOREM FilterCorrect == Spec => []ListAnswersFilter
<1>1. IInv => ListAnswersFilter
  BY DEF IInv, ListAnswersFilter, Inspection!IInv
<1> QED BY <1>1, Invariance, PTL

\* A step the server takes for the page is of the incident and from the status
\* that the user saw when he clicked (IncidentManage, useIncident).
THEOREM StepsCorrect == Spec => []StepsAreOfWhatWasSeen
<1>1. IInv => StepsAreOfWhatWasSeen
  BY DEF IInv, StepsAreOfWhatWasSeen, Incident!IInv
<1> QED BY <1>1, Invariance, PTL

\* Only an answer to something older than the dialog can show another incident
\* in it (useIncident.load).
THEOREM ShownCorrect == Spec => []ShownIsChosen
<1>1. IInv => ShownIsChosen
  BY DEF IInv, ShownIsChosen, Incident!IInv
<1> QED BY <1>1, Invariance, PTL

-----------------------------------------------------------------------------
(***************************************************************************)
(* Lists, for any page size, any number of rows and any keys: the rows of  *)
(* an answer go with its total but for rows that came or left between the  *)
(* COUNT and the SELECT. The invariant says on which side the count can be *)
(* wrong while the SELECT is still to come.                                *)
(***************************************************************************)

\* The rows the filter takes can be counted.
LEMMA FittingIsFinite ==
    ASSUME ListTypeOK
    PROVE  /\ Fitting \subseteq DOMAIN rows /\ DOMAIN rows = 1..Len(rows)
           /\ Fitting \subseteq Ids
           /\ IsFiniteSet(Fitting) /\ Cardinality(Fitting) \in 0..MaxRows
<1>1. DOMAIN rows = 1..Len(rows) /\ Len(rows) \in Nat /\ Len(rows) <= MaxRows /\ MaxRows \in Nat
  BY ListsAssumption DEF ListTypeOK
<1>2. Fitting \subseteq DOMAIN rows /\ Fitting \subseteq Ids
  BY <1>1 DEF Fitting, Ids
<1>3. IsFiniteSet(Ids) /\ Cardinality(Ids) = MaxRows
  BY <1>1, FS_Interval DEF Ids
<1>4. IsFiniteSet(Fitting) /\ Cardinality(Fitting) <= Cardinality(Ids)
  BY <1>2, <1>3, FS_Subset
<1>5. Cardinality(Fitting) \in Nat
  BY <1>4, FS_CardinalityType
<1> QED BY <1>1, <1>2, <1>3, <1>4, <1>5

\* What a SELECT returns: as many rows as there are behind those it skips, and
\* at most as many as it may.
LEMMA SliceSize ==
    ASSUME NEW S, IsFiniteSet(S), NEW skip \in Nat, NEW take \in Nat,
           NEW P \in Slices(S, skip, take)
    PROVE  /\ P \subseteq S /\ Cardinality(P) \in Nat /\ Cardinality(P) <= take
           /\ Cardinality(P) > 0 => skip + Cardinality(P) <= Cardinality(S)
           /\ Cardinality(P) < take => Cardinality(S) <= skip + Cardinality(P)
<1>1. PICK F \in SUBSET (S \ P) :
        /\ Cardinality(F) = AtMost(skip, Cardinality(S))
        /\ Cardinality(P) = AtMost(take, Cardinality(S) - Cardinality(F))
  BY DEF Slices
<1>2. P \subseteq S
  BY DEF Slices
<1>3. Cardinality(S) \in Nat /\ Cardinality(P) \in Nat
  BY <1>2, FS_Subset, FS_CardinalityType
<1> QED BY <1>1, <1>2, <1>3 DEF AtMost

-----------------------------------------------------------------------------
(* The inductive invariant, one lemma per kind of step. *)

LEMMA ListInitInv == ListInit => ListIInv
<1> SUFFICES ASSUME ListInit PROVE ListIInv
  OBVIOUS
<1>1. ListTypeOK
  BY ListsAssumption DEF ListInit, ListTypeOK, Idle, Ids
<1> QED BY <1>1 DEF ListInit, ListIInv, PageIsNext, CountIsRight, PagesMatchTotals, Idle

\* A page is asked for: the first one, or the next.
LEMMA AskInv ==
    ASSUME ListIInv, (\E first \in {0, 1} : Open(first)) \/ Turn
    PROVE  ListIInv'
<1>1. CASE \E first \in {0, 1} : Open(first)
  <2>1. request' = [step |-> "count", page |-> 1] /\ pages' = <<>>
    BY <1>1 DEF Open, Normalized
  <2>2. ListTypeOK'
    BY <1>1, <2>1, FittingIsFinite, ListsAssumption DEF Open, ListIInv, ListTypeOK, Ids
  <2> QED BY <2>1, <2>2 DEF ListIInv, PageIsNext, CountIsRight, PagesMatchTotals
<1>2. CASE Turn
  <2>1. Len(pages) \in Nat
    BY DEF ListIInv, ListTypeOK
  <2>2. request' = [step |-> "count", page |-> Len(pages) + 1]
    BY <1>2, <2>1 DEF Turn, Normalized
  <2>3. ListTypeOK'
    BY <1>2, <2>1, <2>2 DEF Turn, ListIInv, ListTypeOK, history
  <2> QED BY <1>2, <2>2, <2>3
          DEF Turn, Idle, ListIInv, PageIsNext, CountIsRight, PagesMatchTotals, history
<1> QED BY <1>1, <1>2

\* The COUNT: what it returns is right at this moment.
LEMMA CountedInv ==
    ASSUME ListIInv, Count
    PROVE  ListIInv'
<1>1. Cardinality(Fitting) \in 0..MaxRows /\ Fitting' = Fitting
  BY FittingIsFinite DEF ListIInv, Count, Fitting
<1>2. request.page \in Nat \ {0} /\ request # Idle
  BY DEF ListIInv, ListTypeOK, Count, Idle
<1>3. ListTypeOK'
  BY <1>1, <1>2 DEF ListIInv, ListTypeOK, Count, Counted
<1> QED BY <1>1, <1>2, <1>3
        DEF Count, Counted, ListIInv, PageIsNext, CountIsRight, PagesMatchTotals

\* The SELECT: its rows are cut out of the rows of this moment.
LEMMA FindInv ==
    ASSUME ListIInv, Find
    PROVE  ListIInv'
<1>1. PICK P \in Slices(Fitting, Offset(request.page), Limit) : pages' = Append(pages, P)
  BY DEF Find
<1>2. /\ request.page = Len(pages) + 1 /\ request.total \in Nat /\ request.total \in 0..MaxRows
      /\ Len(pages) \in Nat /\ pages \in Seq(SUBSET Ids)
  BY ListsAssumption DEF ListIInv, ListTypeOK, PageIsNext, Find, Idle
<1> DEFINE skip == Len(pages) * PageSize
<1>3. skip \in Nat /\ Offset(request.page) = skip /\ PageSize \in Nat
  <2>1. PageSize \in Nat
    BY ListsAssumption
  <2>2. request.page - 1 = Len(pages)
    BY <1>2
  <2> QED BY <1>2, <2>1, <2>2, SMT DEF Offset
<1>4. /\ P \subseteq Fitting /\ Cardinality(P) \in Nat
      /\ Cardinality(P) > 0 => skip + Cardinality(P) <= Cardinality(Fitting)
      /\ Cardinality(P) < PageSize => Cardinality(Fitting) <= skip + Cardinality(P)
  BY <1>1, <1>3, FittingIsFinite, SliceSize DEF ListIInv, Limit
<1>5. Cardinality(Fitting) \in Nat /\ Fitting \subseteq Ids
  BY FittingIsFinite, ListsAssumption DEF ListIInv
<1>6. /\ lost = {} => request.total <= Cardinality(Fitting)
      /\ late = {} => Cardinality(Fitting) <= request.total
  BY DEF ListIInv, CountIsRight, Find
<1>7. /\ pages' \in Seq(SUBSET Ids) /\ Len(pages') = Len(pages) + 1
      /\ pages'[Len(pages')] = P
  BY <1>1, <1>2, <1>4, <1>5
<1>8. /\ (Cardinality(P) > 0 /\ skip + Cardinality(P) > request.total) => late # {}
      /\ (Cardinality(P) < PageSize /\ skip + Cardinality(P) < request.total) => lost # {}
  BY <1>2, <1>3, <1>4, <1>5, <1>6
<1>9. PagesMatchTotals'
  <2>1. (Len(pages') - 1) * PageSize = skip
    BY <1>2, <1>7
  <2> QED BY <1>7, <1>8, <2>1 DEF PagesMatchTotals, Find, history
<1>10. ListTypeOK'
  BY <1>2, <1>7 DEF ListIInv, ListTypeOK, Find, history
<1> QED BY <1>9, <1>10 DEF ListIInv, PageIsNext, CountIsRight, Find, Idle

LEMMA FailsInv ==
    ASSUME ListIInv, Fails
    PROVE  ListIInv'
<1>1. ListTypeOK'
  BY ListsAssumption DEF ListIInv, ListTypeOK, Fails, Ids
<1> QED BY <1>1 DEF ListIInv, PageIsNext, CountIsRight, PagesMatchTotals, Fails, Idle

\* A row that comes after the count can only make it too small.
LEMMA InsertInv ==
    ASSUME ListIInv, NEW key \in Keys, NEW fits \in BOOLEAN, Insert(key, fits)
    PROVE  ListIInv'
<1> DEFINE row == [key |-> key, fits |-> fits]
           new == Len(rows) + 1
<1>1. /\ Len(rows) \in Nat /\ Len(rows) < MaxRows /\ MaxRows \in Nat
      /\ rows \in Seq([key : Keys, fits : BOOLEAN]) /\ rows' = Append(rows, row)
  BY ListsAssumption DEF ListIInv, ListTypeOK, Insert
<1>2. /\ rows' \in Seq([key : Keys, fits : BOOLEAN]) /\ Len(rows') = new
      /\ DOMAIN rows' = DOMAIN rows \cup {new} /\ new \notin DOMAIN rows
      /\ rows'[new] = row /\ \A i \in DOMAIN rows : rows'[i] = rows[i]
  BY <1>1
<1>3. Fitting' = IF fits THEN Fitting \cup {new} ELSE Fitting
  BY <1>2 DEF Fitting
<1>4. /\ IsFiniteSet(Fitting) /\ Cardinality(Fitting) \in Nat /\ new \notin Fitting
  BY <1>2, FittingIsFinite, ListsAssumption DEF ListIInv
<1>5. Cardinality(Fitting') = IF fits THEN Cardinality(Fitting) + 1 ELSE Cardinality(Fitting)
  BY <1>3, <1>4, FS_AddElement
<1>6. new \in Ids
  BY <1>1 DEF Ids
<1>7. ListTypeOK'
  <2>1. CASE fits
    BY <1>1, <1>2, <1>6, <2>1 DEF ListIInv, ListTypeOK, Insert, Comes, Noted
  <2>2. CASE ~fits
    BY <1>1, <1>2, <2>2 DEF ListIInv, ListTypeOK, Insert, history
  <2> QED BY <2>1, <2>2
<1>8. CountIsRight'
  <2> SUFFICES ASSUME request.step = "find" PROVE CountIsRight'
    BY DEF CountIsRight, Insert
  <2>1. request.total \in Nat
    BY ListsAssumption DEF ListIInv, ListTypeOK, Idle
  <2>2. CASE fits
    <3>1. late' # {} /\ lost' = lost
      BY <2>2 DEF Insert, Comes, Noted
    <3> QED BY <1>4, <1>5, <2>1, <2>2, <3>1 DEF ListIInv, CountIsRight, Insert
  <2>3. CASE ~fits
    BY <1>5, <2>3 DEF ListIInv, CountIsRight, Insert, history
  <2> QED BY <2>2, <2>3
<1>9. PagesMatchTotals'
  BY DEF ListIInv, PagesMatchTotals, Insert, Comes, Noted, history
<1> QED BY <1>7, <1>8, <1>9 DEF ListIInv, PageIsNext, Insert

\* A row that leaves after the count can only make it too large.
LEMMA ChangeInv ==
    ASSUME ListIInv, NEW i \in DOMAIN rows, Change(i)
    PROVE  ListIInv'
<1> DEFINE Rows == [key : Keys, fits : BOOLEAN]
           changed == [rows[i] EXCEPT !.fits = ~@]
<1>0. /\ rows \in Seq(Rows) /\ Len(rows) \in Nat /\ Len(rows) <= MaxRows /\ MaxRows \in Nat
      /\ DOMAIN rows = 1..Len(rows)
  BY ListsAssumption DEF ListIInv, ListTypeOK
<1>1. i \in Ids /\ rows[i] \in Rows
  <2> HIDE DEF Rows
  <2> QED BY <1>0 DEF Ids
<1>2. /\ rows' \in Seq(Rows) /\ Len(rows') = Len(rows) /\ DOMAIN rows' = DOMAIN rows
      /\ rows'[i].fits <=> ~rows[i].fits
      /\ \A j \in DOMAIN rows : j # i => rows'[j] = rows[j]
  <2>1. changed \in Rows /\ (changed.fits <=> ~rows[i].fits)
    BY <1>1
  <2>2. rows' = [rows EXCEPT ![i] = changed]
    BY DEF Change
  <2> HIDE DEF changed, Rows
  <2> QED BY <1>0, <2>1, <2>2
<1>3. Fitting' = IF rows[i].fits THEN Fitting \ {i} ELSE Fitting \cup {i}
  BY <1>1, <1>2 DEF Fitting
<1>4. /\ IsFiniteSet(Fitting) /\ Cardinality(Fitting) \in Nat
      /\ i \in Fitting <=> rows[i].fits
  BY FittingIsFinite, ListsAssumption DEF ListIInv, Fitting
<1>5. Cardinality(Fitting') = IF rows[i].fits THEN Cardinality(Fitting) - 1
                                              ELSE Cardinality(Fitting) + 1
  BY <1>3, <1>4, FS_AddElement, FS_RemoveElement
<1>6. ListTypeOK'
  <2>1. CASE rows[i].fits
    BY <1>1, <1>2, <2>1 DEF ListIInv, ListTypeOK, Change, Goes, Noted
  <2>2. CASE ~rows[i].fits
    BY <1>1, <1>2, <2>2 DEF ListIInv, ListTypeOK, Change, Comes, Noted
  <2> QED BY <2>1, <2>2
<1>7. CountIsRight'
  <2> SUFFICES ASSUME request.step = "find" PROVE CountIsRight'
    BY DEF CountIsRight, Change
  <2>1. request.total \in Nat
    BY ListsAssumption DEF ListIInv, ListTypeOK, Idle
  <2>2. CASE rows[i].fits
    <3>1. lost' # {} /\ late' = late
      BY <2>2 DEF Change, Goes, Noted
    <3> QED BY <1>4, <1>5, <2>1, <2>2, <3>1 DEF ListIInv, CountIsRight, Change
  <2>3. CASE ~rows[i].fits
    <3>1. late' # {} /\ lost' = lost
      BY <2>3 DEF Change, Comes, Noted
    <3> QED BY <1>4, <1>5, <2>1, <2>3, <3>1 DEF ListIInv, CountIsRight, Change
  <2> QED BY <2>2, <2>3
<1>8. PagesMatchTotals'
  BY DEF ListIInv, PagesMatchTotals, Change, Comes, Goes, Noted
<1> QED BY <1>6, <1>7, <1>8 DEF ListIInv, PageIsNext, Change

LEMMA ListNextInv == ListIInv /\ [ListNext]_listVars => ListIInv'
<1> SUFFICES ASSUME ListIInv, [ListNext]_listVars PROVE ListIInv'
  OBVIOUS
<1>1. CASE UNCHANGED listVars
  BY <1>1 DEF listVars, history, ListIInv, ListTypeOK, PageIsNext, CountIsRight, PagesMatchTotals, Fitting
<1>2. CASE ListNext
  BY <1>2, AskInv, CountedInv, FindInv, FailsInv, InsertInv, ChangeInv DEF ListNext
<1> QED BY <1>1, <1>2

LEMMA ListInvariance == ListSpec => []ListIInv
  BY ListInitInv, ListNextInv, PTL DEF ListSpec

-----------------------------------------------------------------------------

\* The table, the requests and the walk keep their types.
THEOREM ListTypeCorrect == ListSpec => []ListTypeOK
<1>1. ListIInv => ListTypeOK
  BY DEF ListIInv
<1> QED BY <1>1, ListInvariance, PTL

\* The rows of an answer go with its total but for those that came or left
\* between the COUNT and the SELECT (the repositories' List, pageResponse).
THEOREM TotalsCorrect == ListSpec => []PagesMatchTotals
<1>1. ListIInv => PagesMatchTotals
  BY DEF ListIInv
<1> QED BY <1>1, ListInvariance, PTL

-----------------------------------------------------------------------------
(***************************************************************************)
(* The walk: what a page shows of a row depends on how many rows stand in  *)
(* front of it, and that number changes only with rows that are noted.     *)
(***************************************************************************)

LEMMA FrontIsFinite ==
    ASSUME ListTypeOK, NEW r
    PROVE  IsFiniteSet(Front(r)) /\ Cardinality(Front(r)) \in Nat
                                 /\ Cardinality(Front(r)) <= Cardinality(Fitting)
<1>1. Front(r) \subseteq Fitting
  BY DEF Front
<1> QED BY <1>1, FittingIsFinite, FS_Subset, FS_CardinalityType

LEMMA KeyIsNat ==
    ASSUME ListTypeOK, NEW r \in DOMAIN rows
    PROVE  rows[r].key \in Nat
<1> DEFINE Rows == [key : Keys, fits : BOOLEAN]
<1>1. rows \in Seq(Rows)
  BY DEF ListTypeOK
<1>2. rows[r] \in Rows
  <2> HIDE DEF Rows
  <2> QED BY <1>1
<1> QED BY <1>2, ListsAssumption

\* Of two rows with different keys one is in front of the other.
LEMMA InFrontIsTotal ==
    ASSUME ListTypeOK, NEW r \in DOMAIN rows, ~IsTied(r), NEW i \in DOMAIN rows, i # r
    PROVE  InFront(i, r) \/ InFront(r, i)
<1>1. rows[r].key \in Nat /\ rows[i].key \in Nat
  BY KeyIsNat
<1>2. rows[i].key # rows[r].key
  BY DEF IsTied, Tied
<1> QED BY <1>1, <1>2 DEF InFront

LEMMA NeverInFrontOfItself ==
    ASSUME ListTypeOK, NEW r \in DOMAIN rows
    PROVE  ~InFront(r, r) /\ r \notin Front(r)
<1>1. rows[r].key \in Nat
  BY KeyIsNat
<1> QED BY <1>1 DEF InFront, Front

\* A row on a page has as many rows in front of it as were skipped, and fewer than
\* the page and those before it have room for; one that is not on the page, though
\* not skipped, has all of them in front of it.
LEMMA SliceOrder ==
    ASSUME ListTypeOK, NEW skip \in Nat, NEW P \in Slices(Fitting, skip, PageSize),
           NEW r \in Fitting, ~IsTied(r)
    PROVE  LET n == Cardinality(Front(r)) IN
           /\ r \in P => skip <= n /\ n < skip + PageSize
           /\ r \notin P /\ skip <= n => skip + PageSize <= n
<1> DEFINE S == Fitting
<1>0. PageSize \in Nat \ {0}
  BY ListsAssumption
<1>1. IsFiniteSet(S) /\ S \subseteq DOMAIN rows /\ Cardinality(S) \in Nat
  BY FittingIsFinite
<1>2. PICK F \in SUBSET (S \ P) :
        /\ Cardinality(F) = AtMost(skip, Cardinality(S))
        /\ Cardinality(P) = AtMost(PageSize, Cardinality(S) - Cardinality(F))
        /\ \A i \in F, j \in S \ F : ~InFront(j, i)
        /\ \A i \in P, j \in S \ (F \union P) : ~InFront(j, i)
  BY DEF Slices
<1>3. P \subseteq S /\ F \subseteq S /\ F \cap P = {}
  BY <1>2 DEF Slices
<1>4. /\ IsFiniteSet(F) /\ IsFiniteSet(P) /\ Cardinality(F) \in Nat /\ Cardinality(P) \in Nat
      /\ Cardinality(F) <= Cardinality(S)
  BY <1>1, <1>3, FS_Subset, FS_CardinalityType
<1>5. IsFiniteSet(F \union P) /\ Cardinality(F \union P) = Cardinality(F) + Cardinality(P)
  <2>1. Cardinality(F \cap P) = 0
    BY <1>3, FS_EmptySet
  <2>2. /\ IsFiniteSet(F \union P)
        /\ Cardinality(F \union P) = Cardinality(F) + Cardinality(P) - Cardinality(F \cap P)
    BY <1>4, FS_Union
  <2> QED BY <1>4, <2>1, <2>2
<1>6. IsFiniteSet(Front(r)) /\ Cardinality(Front(r)) \in Nat
  BY FrontIsFinite
<1>7. \A i \in S : i # r => InFront(i, r) \/ InFront(r, i)
  BY <1>1, InFrontIsTotal
<1>8. Cardinality(F) <= skip
  BY <1>1, <1>2 DEF AtMost
<1>9. CASE r \in P
  <2>1. Front(r) \subseteq (F \union P) \ {r}
    BY <1>1, <1>2, <1>9, NeverInFrontOfItself DEF Front
  <2>2. /\ IsFiniteSet((F \union P) \ {r})
        /\ Cardinality((F \union P) \ {r}) = Cardinality(F) + Cardinality(P) - 1
    <3>1. PICK U : U = F \union P
      OBVIOUS
    <3>2. IsFiniteSet(U) /\ r \in U
      BY <1>5, <1>9, <3>1
    <3>3. IsFiniteSet(U \ {r}) /\ Cardinality(U \ {r}) = Cardinality(U) - 1
      BY <3>2, FS_RemoveElement
    <3>4. /\ IsFiniteSet((F \union P) \ {r})
          /\ Cardinality((F \union P) \ {r}) = Cardinality(F \union P) - 1
      BY <3>1, <3>3, Zenon
    <3> QED BY <1>4, <1>5, <3>4
  <2>3. Cardinality(Front(r)) <= Cardinality(F) + Cardinality(P) - 1
    BY <2>1, <2>2, FS_Subset
  <2>4. Cardinality(P) # 0
    BY <1>4, <1>9, FS_EmptySet
  <2>5. Cardinality(F) = skip /\ Cardinality(P) <= PageSize
    BY <1>0, <1>1, <1>2, <1>4, <2>4 DEF AtMost
  <2>6. F \subseteq Front(r)
    BY <1>2, <1>3, <1>7, <1>9 DEF Front
  <2>7. skip <= Cardinality(Front(r))
    BY <1>6, <2>5, <2>6, FS_Subset
  <2> QED BY <1>0, <1>4, <1>6, <1>9, <2>3, <2>5, <2>7
<1>10. CASE r \notin P /\ skip <= Cardinality(Front(r))
  <2>1. r \notin F
    <3> SUFFICES ASSUME r \in F PROVE FALSE
      OBVIOUS
    <3>1. Front(r) \subseteq F \ {r}
      BY <1>1, <1>2, NeverInFrontOfItself DEF Front
    <3>2. IsFiniteSet(F \ {r}) /\ Cardinality(F \ {r}) = Cardinality(F) - 1
      BY <1>4, FS_RemoveElement
    <3>3. Cardinality(Front(r)) <= Cardinality(F) - 1
      BY <3>1, <3>2, FS_Subset
    <3> QED BY <1>4, <1>6, <1>8, <1>10, <3>3
  <2>2. F \union P \subseteq Front(r)
    BY <1>2, <1>3, <1>7, <1>10, <2>1 DEF Front
  <2>3. Cardinality(F) + Cardinality(P) <= Cardinality(Front(r))
    BY <1>5, <1>6, <2>2, FS_Subset
  <2>4. Cardinality(F \union P) < Cardinality(S)
    <3>1. F \union P \subseteq S \ {r}
      BY <1>3, <1>10, <2>1
    <3>2. IsFiniteSet(S \ {r}) /\ Cardinality(S \ {r}) = Cardinality(S) - 1
      BY <1>1, FS_RemoveElement
    <3>3. Cardinality(F \union P) <= Cardinality(S) - 1
      BY <3>1, <3>2, FS_Subset
    <3> QED BY <1>1, <1>4, <1>5, <3>3
  <2>5. Cardinality(F) = skip /\ Cardinality(P) = PageSize
    BY <1>0, <1>1, <1>2, <1>4, <1>5, <2>4 DEF AtMost
  <2> QED BY <1>10, <2>3, <2>5
<1> QED BY <1>9, <1>10

-----------------------------------------------------------------------------
(* The invariant of the walk, one lemma per kind of step. *)

LEMMA PagesAre ==
    ASSUME ListTypeOK
    PROVE  Len(pages) \in Nat /\ DOMAIN pages = 1..Len(pages) /\ PageSize \in Nat \ {0}
BY ListsAssumption DEF ListTypeOK

LEMMA WalkInit == ListInit => WalkIInv
<1> SUFFICES ASSUME ListInit PROVE WalkIInv
  OBVIOUS
<1>1. pages = <<>> /\ steady = {} /\ came = {} /\ gone = {} /\ late = {} /\ request = Idle
  BY DEF ListInit
<1> QED BY <1>1 DEF WalkIInv, HistoryOfRows, UnreadIsBehind, CountedIsInTotal, ReadIsInFront,
                    OnlyMovesHideRows, OnlyArrivalsRepeatRows, Idle

\* A step that leaves the rows as they are.
LEMMA SameRows ==
    ASSUME UNCHANGED <<list, rows>>
    PROVE  /\ Fitting' = Fitting
           /\ \A r : Front(r)' = Front(r) /\ (IsTied(r)' <=> IsTied(r))
           /\ \A i, j : (InFront(i, j)' <=> InFront(i, j)) /\ (Tied(i, j)' <=> Tied(i, j))
<1>1. Fitting' = Fitting
  BY DEF Fitting
<1>2. \A i, j : (InFront(i, j)' <=> InFront(i, j)) /\ (Tied(i, j)' <=> Tied(i, j))
  BY DEF InFront, Tied
<1>3. \A r : Front(r)' = Front(r) /\ (IsTied(r)' <=> IsTied(r))
  BY <1>1, <1>2 DEF Front, IsTied
<1> QED BY <1>1, <1>2, <1>3

\* The walk begins, or is given up.
LEMMA WalkBegins ==
    ASSUME ListIInv, UNCHANGED <<list, rows>>, pages' = <<>>, total' = 0,
           steady' \subseteq Fitting, came' = {}, gone' = {}, late' = {},
           request'.step # "find"
    PROVE  WalkIInv'
<1>1. Fitting' = Fitting /\ \A r : Front(r)' = Front(r)
  BY SameRows
<1>2. \A r : Cardinality(Front(r)) \in Nat
  BY FrontIsFinite DEF ListIInv
<1>3. ~IsWalked'
  BY DEF IsWalked
<1>4. Len(pages') * PageSize = 0
  BY ListsAssumption
<1> QED BY <1>1, <1>2, <1>3, <1>4 DEF WalkIInv, HistoryOfRows, UnreadIsBehind, CountedIsInTotal,
           ReadIsInFront, OnlyMovesHideRows, OnlyArrivalsRepeatRows

LEMMA OpenWalk ==
    ASSUME ListIInv, NEW first \in {0, 1}, Open(first)
    PROVE  WalkIInv'
<1>1. request'.step # "find"
  BY DEF Open
<1>2. Fitting \subseteq Fitting
  OBVIOUS
<1> QED BY <1>1, <1>2, WalkBegins DEF Open

LEMMA FailsWalk ==
    ASSUME ListIInv, Fails
    PROVE  WalkIInv'
<1>1. request'.step # "find"
  BY DEF Fails, Idle
<1> QED BY <1>1, WalkBegins DEF Fails

\* The next page is asked for.
LEMMA TurnWalk ==
    ASSUME WalkIInv, Turn
    PROVE  WalkIInv'
<1>1. /\ UNCHANGED <<list, rows, pages, total, steady, came, gone, late>>
      /\ request'.step # "find" /\ ~IsWalked
  BY DEF Turn, history
<1>2. /\ Fitting' = Fitting
      /\ \A r : Front(r)' = Front(r) /\ (IsTied(r)' <=> IsTied(r))
      /\ \A i, j : (InFront(i, j)' <=> InFront(i, j)) /\ (Tied(i, j)' <=> Tied(i, j))
  BY <1>1, SameRows
<1>3. ~IsWalked'
  BY <1>1 DEF IsWalked, LastPage
<1> QED BY <1>1, <1>2, <1>3 DEF WalkIInv, HistoryOfRows, UnreadIsBehind, CountedIsInTotal,
           ReadIsInFront, OnlyMovesHideRows, OnlyArrivalsRepeatRows, Seen, Behind

\* The COUNT counts a steady row and those in front of it.
LEMMA CountWalk ==
    ASSUME ListIInv, WalkIInv, Count
    PROVE  WalkIInv'
<1>1. /\ UNCHANGED <<list, rows, pages, total, steady, came, gone>>
      /\ late' = {} /\ request'.total = Cardinality(Fitting) /\ request # Idle
  BY DEF Count, Counted, Idle
<1>2. /\ Fitting' = Fitting
      /\ \A r : Front(r)' = Front(r) /\ (IsTied(r)' <=> IsTied(r))
      /\ \A i, j : (InFront(i, j)' <=> InFront(i, j)) /\ (Tied(i, j)' <=> Tied(i, j))
  BY <1>1, SameRows
<1>3. ~IsWalked /\ ~IsWalked'
  BY <1>1 DEF WalkIInv, HistoryOfRows, IsWalked, LastPage
<1>4. ASSUME NEW r \in steady PROVE Cardinality(Front(r)) < Cardinality(Fitting)
  <2>1. r \in Fitting /\ r \in DOMAIN rows /\ IsFiniteSet(Fitting) /\ Cardinality(Fitting) \in Nat
    BY <1>4, FittingIsFinite, ListsAssumption DEF WalkIInv, HistoryOfRows, ListIInv
  <2>2. Front(r) \subseteq Fitting \ {r}
    BY <2>1, NeverInFrontOfItself DEF Front, ListIInv
  <2>3. IsFiniteSet(Fitting \ {r}) /\ Cardinality(Fitting \ {r}) = Cardinality(Fitting) - 1
    BY <2>1, FS_RemoveElement
  <2>4. Cardinality(Front(r)) <= Cardinality(Fitting) - 1
    BY <2>2, <2>3, FS_Subset
  <2>5. Cardinality(Front(r)) \in Nat
    BY FrontIsFinite DEF ListIInv
  <2> QED BY <2>1, <2>4, <2>5
<1>5. CountedIsInTotal'
  BY <1>1, <1>2, <1>4 DEF CountedIsInTotal
<1>6. HistoryOfRows'
  BY <1>1, <1>2, <1>3 DEF WalkIInv, HistoryOfRows
<1>7. UnreadIsBehind' /\ ReadIsInFront'
  BY <1>1, <1>2, <1>3 DEF WalkIInv, UnreadIsBehind, ReadIsInFront, Seen, Behind
<1>8. OnlyMovesHideRows' /\ OnlyArrivalsRepeatRows'
  BY <1>1, <1>2, <1>3 DEF WalkIInv, OnlyMovesHideRows, OnlyArrivalsRepeatRows
<1> QED BY <1>5, <1>6, <1>7, <1>8 DEF WalkIInv

\* As many pages as the total fills have room for all of it.
LEMMA PagesHoldTotal ==
    ASSUME NEW n \in Nat, NEW all \in Nat, NEW size \in Nat \ {0},
           n >= (all + size - 1) \div size
    PROVE  all <= n * size
<1> DEFINE q == (all + size - 1) \div size
<1>1. q \in Nat /\ all + size - 1 < (q + 1) * size
  OBVIOUS
<1> HIDE DEF q
<1>2. (q + 1) * size = q * size + size
  BY <1>1
<1>3. q * size <= n * size
  BY <1>1 DEF q
<1>4. q * size \in Nat /\ n * size \in Nat
  BY <1>1
<1> QED BY <1>1, <1>2, <1>3, <1>4

\* The SELECT: a page more is read.
LEMMA FindWalk ==
    ASSUME ListIInv, WalkIInv, Find
    PROVE  WalkIInv'
<1> DEFINE n == Len(pages)
           skip == n * PageSize
<1>1. PICK P \in Slices(Fitting, Offset(request.page), Limit) : pages' = Append(pages, P)
  BY DEF Find
<1>2. /\ UNCHANGED <<list, rows, steady, came, gone, late>>
      /\ total' = request.total /\ request' = Idle /\ request # Idle /\ request.step = "find"
  BY DEF Find, history, Idle
<1>3. /\ request.page = n + 1 /\ request.total \in Nat /\ n \in Nat
      /\ pages \in Seq(SUBSET Ids) /\ DOMAIN pages = 1..n /\ PageSize \in Nat \ {0}
  BY <1>2, ListsAssumption DEF ListIInv, ListTypeOK, PageIsNext, Idle
<1>4. skip \in Nat /\ Offset(request.page) = skip
  <2>1. request.page - 1 = n
    BY <1>3
  <2> QED BY <1>3, <2>1, SMT DEF Offset
<1>5. P \in Slices(Fitting, skip, PageSize)
  BY <1>1, <1>4 DEF Limit
<1>6. P \subseteq Fitting /\ Fitting \subseteq DOMAIN rows /\ Fitting \subseteq Ids
  BY <1>5, FittingIsFinite DEF Slices, ListIInv
<1>7. /\ DOMAIN pages' = 1..(n + 1) /\ Len(pages') = n + 1 /\ pages'[n + 1] = P
      /\ \A p \in 1..n : pages'[p] = pages[p]
  BY <1>1, <1>3, <1>6
<1>8. (n + 1) * PageSize = skip + PageSize
  BY <1>3, SMT
<1>9. /\ Fitting' = Fitting
      /\ \A r : Front(r)' = Front(r) /\ (IsTied(r)' <=> IsTied(r))
      /\ \A i, j : (InFront(i, j)' <=> InFront(i, j)) /\ (Tied(i, j)' <=> Tied(i, j))
  BY <1>2, SameRows
<1>10. ~IsWalked
  BY <1>2 DEF WalkIInv, HistoryOfRows
<1>11. \A r : Cardinality(Front(r)) \in Nat
  BY FrontIsFinite DEF ListIInv
<1>12. ASSUME NEW r \in Fitting, ~IsTied(r)
       PROVE  /\ r \in P => skip <= Cardinality(Front(r)) /\ Cardinality(Front(r)) < skip + PageSize
              /\ r \notin P /\ skip <= Cardinality(Front(r)) => skip + PageSize <= Cardinality(Front(r))
  BY <1>4, <1>5, <1>12, SliceOrder DEF ListIInv
<1> HIDE DEF n, skip
<1>13. HistoryOfRows'
  <2>1. ASSUME NEW p \in DOMAIN pages' PROVE pages'[p] \subseteq DOMAIN rows
    <3>1. CASE p = n + 1
      BY <1>6, <1>7, <3>1
    <3>2. CASE p \in 1..n
      BY <1>3, <1>7, <3>2 DEF WalkIInv, HistoryOfRows
    <3> QED BY <1>3, <1>7, <3>1, <3>2
  <2> QED BY <1>2, <1>9, <2>1 DEF WalkIInv, HistoryOfRows
<1>14. ASSUME NEW r \in steady \ Seen'
       PROVE  Behind(gone, r) \/ IsTied(r) \/ (n + 1) * PageSize <= Cardinality(Front(r))
  <2>1. r \notin P /\ r \notin Seen
    <3>1. \A p \in DOMAIN pages' : r \notin pages'[p]
      BY <1>14 DEF Seen
    <3>2. r \notin P
      BY <1>3, <1>7, <3>1
    <3>3. \A p \in 1..n : r \notin pages[p]
      BY <1>3, <1>7, <3>1
    <3> QED BY <1>3, <3>2, <3>3 DEF Seen
  <2>2. r \in Fitting
    BY DEF WalkIInv, HistoryOfRows
  <2>3. Behind(gone, r) \/ IsTied(r) \/ skip <= Cardinality(Front(r))
    BY <1>10, <2>1 DEF WalkIInv, UnreadIsBehind, skip, n
  <2> QED BY <1>8, <1>12, <2>1, <2>2, <2>3
<1>15. UnreadIsBehind'
  BY <1>2, <1>7, <1>9, <1>14 DEF UnreadIsBehind, Behind
<1>16. CountedIsInTotal'
  BY <1>2 DEF CountedIsInTotal, Idle
<1>17. ReadIsInFront'
  <2>1. ASSUME NEW p \in 1..(n + 1), NEW r \in pages'[p]
        PROVE  Behind(came, r) \/ IsTied(r) \/ Cardinality(Front(r)) < p * PageSize
    <3>1. CASE p = n + 1
      BY <1>6, <1>7, <1>8, <1>12, <2>1, <3>1
    <3>2. CASE p \in 1..n
      BY <1>3, <1>7, <1>10, <2>1, <3>2 DEF WalkIInv, ReadIsInFront
    <3> QED BY <1>3, <2>1, <3>1, <3>2
  <2> QED BY <1>2, <1>7, <1>9, <2>1 DEF ReadIsInFront, Behind
<1>18. OnlyMovesHideRows'
  <2> SUFFICES ASSUME IsWalked', NEW r \in steady \ Seen'
               PROVE  \/ \E g \in gone : InFront(g, r)
                      \/ \E c \in late : InFront(c, r)
                      \/ \E t \in DOMAIN rows : Tied(t, r)
    BY <1>2, <1>9 DEF OnlyMovesHideRows
  <2>1. request.total <= (n + 1) * PageSize
    <3>1. n + 1 >= (request.total + PageSize - 1) \div PageSize
      BY <1>2, <1>7 DEF IsWalked, LastPage
    <3>2. n + 1 \in Nat
      BY <1>3
    <3> QED BY <1>3, <3>1, <3>2, PagesHoldTotal
  <2>2. Behind(late, r) \/ Cardinality(Front(r)) < request.total
    BY <1>2 DEF WalkIInv, CountedIsInTotal
  <2>3. Behind(gone, r) \/ IsTied(r) \/ (n + 1) * PageSize <= Cardinality(Front(r))
    BY <1>14
  <2>4. (n + 1) * PageSize \in Nat
    BY <1>3, <1>4, <1>8 DEF skip
  <2> QED BY <1>3, <1>11, <2>1, <2>2, <2>3, <2>4 DEF Behind, IsTied
<1>19. OnlyArrivalsRepeatRows'
  <2> SUFFICES ASSUME NEW p \in 1..(n + 1), NEW q \in 1..(n + 1), p < q,
                      NEW r \in pages'[p] \cap pages'[q], ~Behind(came, r), ~IsTied(r)
               PROVE  FALSE
    BY <1>2, <1>7, <1>9 DEF OnlyArrivalsRepeatRows, Behind, IsTied
  <2>1. p \in 1..n /\ r \in pages[p]
    BY <1>3, <1>7
  <2>2. CASE q \in 1..n
    BY <1>3, <1>7, <2>1, <2>2 DEF WalkIInv, OnlyArrivalsRepeatRows, Behind, IsTied
  <2>3. CASE q = n + 1
    <3>1. Cardinality(Front(r)) < p * PageSize
      BY <1>3, <1>10, <2>1 DEF WalkIInv, ReadIsInFront
    <3>2. r \in P /\ r \in Fitting
      BY <1>6, <1>7, <2>3
    <3>3. skip <= Cardinality(Front(r))
      BY <1>12, <3>2
    <3>4. p * PageSize <= skip
      BY <1>3, <2>1, SMT DEF skip
    <3>5. p * PageSize \in Nat
      BY <1>3, <2>1
    <3> QED BY <1>4, <1>11, <3>1, <3>3, <3>4, <3>5
  <2> QED BY <1>3, <2>2, <2>3
<1> QED BY <1>13, <1>15, <1>16, <1>17, <1>18, <1>19 DEF WalkIInv

\* What a row is sorted by never changes, and no row is ever removed.
KeysStay ==
    /\ list' = list
    /\ \A i \in DOMAIN rows : i \in DOMAIN rows' /\ rows'[i].key = rows[i].key

LEMMA OrderStays ==
    ASSUME KeysStay, NEW r \in DOMAIN rows
    PROVE  /\ \A i \in DOMAIN rows : (InFront(i, r)' <=> InFront(i, r)) /\ (Tied(i, r) => Tied(i, r)')
           /\ IsTied(r) => IsTied(r)'
BY DEF KeysStay, InFront, Tied, IsTied

\* A row comes: it is noted, unless nobody walks.
LEMMA ComesWalk ==
    ASSUME ListIInv, WalkIInv, ListIInv', KeysStay, NEW i \in DOMAIN rows', i \notin Fitting,
           Fitting' = Fitting \union {i}, Comes(i), UNCHANGED <<request, pages, total>>
    PROVE  WalkIInv'
<1>1. /\ steady' = steady /\ gone' = gone
      /\ came' = Noted(came, i, Walking) /\ late' = Noted(late, i, request.step = "find")
      /\ came \subseteq came' /\ late \subseteq late'
  BY DEF Comes, Noted
<1>2. /\ steady \subseteq Fitting /\ Fitting \subseteq DOMAIN rows
      /\ came \subseteq DOMAIN rows /\ gone \subseteq DOMAIN rows /\ late \subseteq DOMAIN rows
      /\ \A p \in DOMAIN pages : pages[p] \subseteq DOMAIN rows
      /\ request # Idle => ~IsWalked
  BY FittingIsFinite DEF WalkIInv, HistoryOfRows, ListIInv
<1>3. \A r \in DOMAIN rows :
          /\ \A j \in DOMAIN rows : (InFront(j, r)' <=> InFront(j, r)) /\ (Tied(j, r) => Tied(j, r)')
          /\ IsTied(r) => IsTied(r)'
  BY OrderStays
<1>4. IsWalked' <=> IsWalked
  BY DEF IsWalked, LastPage
<1>5. ASSUME NEW r \in DOMAIN rows
      PROVE  /\ Cardinality(Front(r)) \in Nat /\ Cardinality(Front(r)') \in Nat
             /\ Cardinality(Front(r)) <= Cardinality(Front(r)')
             /\ ~InFront(i, r)' => Front(r)' = Front(r)
  <2>1. Front(r) \subseteq Front(r)'
    BY <1>2, <1>3, <1>5 DEF Front
  <2>2. ~InFront(i, r)' => Front(r)' = Front(r)
    BY <1>2, <1>3, <1>5 DEF Front
  <2>3. IsFiniteSet(Front(r)')
    <3>1. IsFiniteSet(Fitting)
      BY FittingIsFinite DEF ListIInv
    <3>2. IsFiniteSet(Fitting')
      BY <3>1, FS_AddElement
    <3>3. Front(r)' \subseteq Fitting'
      BY DEF Front
    <3> QED BY <3>2, <3>3, FS_Subset
  <2> QED BY <2>1, <2>2, <2>3, FS_Subset, FS_CardinalityType
<1>6. HistoryOfRows'
  <2>1. came' \subseteq DOMAIN rows' /\ late' \subseteq DOMAIN rows' /\ gone' \subseteq DOMAIN rows'
    BY <1>1, <1>2 DEF Noted, KeysStay
  <2> QED BY <1>1, <1>2, <1>4, <2>1 DEF HistoryOfRows, KeysStay
<1>7. UnreadIsBehind'
  <2> SUFFICES ASSUME ~IsWalked, NEW r \in steady \ Seen
               PROVE  (Behind(gone, r) \/ IsTied(r))' \/ Len(pages) * PageSize <= Cardinality(Front(r)')
    BY <1>1, <1>4 DEF UnreadIsBehind, Seen
  <2>1. Behind(gone, r) \/ IsTied(r) \/ Len(pages) * PageSize <= Cardinality(Front(r))
    BY DEF WalkIInv, UnreadIsBehind
  <2>2. r \in DOMAIN rows
    BY <1>2
  <2>3. Len(pages) * PageSize \in Nat
    BY PagesAre DEF ListIInv
  <2>4. Behind(gone, r) => Behind(gone, r)'
    BY <1>1, <1>2, <1>3, <2>2 DEF Behind
  <2> QED BY <1>3, <1>5, <2>1, <2>2, <2>3, <2>4
<1>8. CountedIsInTotal'
  <2> SUFFICES ASSUME request.step = "find", NEW r \in steady
               PROVE  Behind(late, r)' \/ Cardinality(Front(r)') < request.total
    BY <1>1 DEF CountedIsInTotal
  <2>1. r \in DOMAIN rows
    BY <1>2
  <2>2. Behind(late, r) \/ Cardinality(Front(r)) < request.total
    BY DEF WalkIInv, CountedIsInTotal
  <2>3. Behind(late, r) => Behind(late, r)'
    BY <1>1, <1>2, <1>3, <2>1 DEF Behind
  <2>4. InFront(i, r)' => Behind(late, r)'
    BY <1>1 DEF Behind, Noted
  <2> QED BY <1>5, <2>1, <2>2, <2>3, <2>4
<1>9. ReadIsInFront'
  <2> SUFFICES ASSUME ~IsWalked, NEW p \in DOMAIN pages, NEW r \in pages[p]
               PROVE  (Behind(came, r) \/ IsTied(r))' \/ Cardinality(Front(r)') < p * PageSize
    BY <1>1, <1>4 DEF ReadIsInFront
  <2>1. r \in DOMAIN rows
    BY <1>2
  <2>2. Behind(came, r) \/ IsTied(r) \/ Cardinality(Front(r)) < p * PageSize
    BY DEF WalkIInv, ReadIsInFront
  <2>3. Behind(came, r) => Behind(came, r)'
    BY <1>1, <1>2, <1>3, <2>1 DEF Behind
  <2>4. pages # <<>>
    OBVIOUS
  <2>5. InFront(i, r)' => Behind(came, r)'
    BY <1>1, <2>4 DEF Behind, Noted, Walking
  <2> QED BY <1>3, <1>5, <2>1, <2>2, <2>3, <2>5
<1>10. OnlyMovesHideRows'
  <2> SUFFICES ASSUME IsWalked, NEW r \in steady \ Seen
               PROVE  \/ \E g \in gone : InFront(g, r)'
                      \/ \E c \in late : InFront(c, r)'
                      \/ \E t \in DOMAIN rows : Tied(t, r)'
    BY <1>1, <1>4 DEF OnlyMovesHideRows, Seen, KeysStay
  <2> QED BY <1>2, <1>3 DEF WalkIInv, OnlyMovesHideRows
<1>11. OnlyArrivalsRepeatRows'
  <2> SUFFICES ASSUME NEW p \in DOMAIN pages, NEW q \in DOMAIN pages,
                      NEW r \in pages[p] \cap pages[q], p < q
               PROVE  (\E c \in came : InFront(c, r)') \/ (\E t \in DOMAIN rows : Tied(t, r)')
    BY <1>1 DEF OnlyArrivalsRepeatRows, KeysStay
  <2> QED BY <1>2, <1>3 DEF WalkIInv, OnlyArrivalsRepeatRows
<1> QED BY <1>6, <1>7, <1>8, <1>9, <1>10, <1>11 DEF WalkIInv

\* A row goes, or nothing at all happens to the rows the filter takes.
LEMMA GoesWalk ==
    ASSUME ListIInv, WalkIInv, KeysStay, UNCHANGED <<request, pages, total, came, late>>,
           NEW S \in SUBSET Fitting, Fitting' = Fitting \ S,
           steady' \subseteq steady \ S, gone \subseteq gone', gone' \subseteq DOMAIN rows,
           Walking => S \subseteq gone'
    PROVE  WalkIInv'
<1>1. /\ steady \subseteq Fitting /\ Fitting \subseteq DOMAIN rows
      /\ came \subseteq DOMAIN rows /\ gone \subseteq DOMAIN rows /\ late \subseteq DOMAIN rows
      /\ \A p \in DOMAIN pages : pages[p] \subseteq DOMAIN rows
      /\ request # Idle => ~IsWalked
  BY FittingIsFinite DEF WalkIInv, HistoryOfRows, ListIInv
<1>2. \A r \in DOMAIN rows :
          /\ \A j \in DOMAIN rows : (InFront(j, r)' <=> InFront(j, r)) /\ (Tied(j, r) => Tied(j, r)')
          /\ IsTied(r) => IsTied(r)'
  BY OrderStays
<1>3. IsWalked' <=> IsWalked
  BY DEF IsWalked, LastPage
<1>4. ASSUME NEW r \in DOMAIN rows
      PROVE  /\ Cardinality(Front(r)) \in Nat /\ Cardinality(Front(r)') \in Nat
             /\ Cardinality(Front(r)') <= Cardinality(Front(r))
             /\ Front(r)' = Front(r) \/ \E j \in S : InFront(j, r)
  <2>1. Front(r)' \subseteq Front(r)
    BY <1>1, <1>2, <1>4 DEF Front
  <2>2. Front(r)' = Front(r) \/ \E j \in S : InFront(j, r)
    BY <1>1, <1>2, <1>4 DEF Front
  <2>3. IsFiniteSet(Front(r))
    BY FrontIsFinite DEF ListIInv
  <2> QED BY <2>1, <2>2, <2>3, FS_Subset, FS_CardinalityType
<1>5. HistoryOfRows'
  BY <1>1, <1>3 DEF HistoryOfRows, KeysStay
<1>6. UnreadIsBehind'
  <2> SUFFICES ASSUME ~IsWalked, NEW r \in steady \ Seen
               PROVE  (Behind(gone, r) \/ IsTied(r))' \/ Len(pages) * PageSize <= Cardinality(Front(r)')
    BY <1>3 DEF UnreadIsBehind, Seen
  <2>1. Behind(gone, r) \/ IsTied(r) \/ Len(pages) * PageSize <= Cardinality(Front(r))
    BY DEF WalkIInv, UnreadIsBehind
  <2>2. r \in DOMAIN rows
    BY <1>1
  <2>3. Behind(gone, r) => Behind(gone, r)'
    BY <1>1, <1>2, <2>2 DEF Behind
  <2>4. CASE Walking
    <3>1. (\E j \in S : InFront(j, r)) => Behind(gone, r)'
      BY <1>1, <1>2, <2>2, <2>4 DEF Behind
    <3> QED BY <1>2, <1>4, <2>1, <2>2, <2>3, <3>1
  <2>5. CASE ~Walking
    <3>1. pages = <<>>
      BY <2>5 DEF Walking
    <3>2. Len(pages) * PageSize = 0
      BY <3>1, ListsAssumption
    <3> QED BY <1>4, <2>2, <3>2
  <2> QED BY <2>4, <2>5
<1>7. CountedIsInTotal'
  <2> SUFFICES ASSUME request.step = "find", NEW r \in steady
               PROVE  Behind(late, r)' \/ Cardinality(Front(r)') < request.total
    BY DEF CountedIsInTotal
  <2>1. r \in DOMAIN rows
    BY <1>1
  <2>2. Behind(late, r) \/ Cardinality(Front(r)) < request.total
    BY DEF WalkIInv, CountedIsInTotal
  <2>3. Behind(late, r) => Behind(late, r)'
    BY <1>1, <1>2, <2>1 DEF Behind
  <2>4. request.total \in Nat
    BY ListsAssumption DEF ListIInv, ListTypeOK, Idle
  <2> QED BY <1>4, <2>1, <2>2, <2>3, <2>4
<1>8. ReadIsInFront'
  <2> SUFFICES ASSUME ~IsWalked, NEW p \in DOMAIN pages, NEW r \in pages[p]
               PROVE  (Behind(came, r) \/ IsTied(r))' \/ Cardinality(Front(r)') < p * PageSize
    BY <1>3 DEF ReadIsInFront
  <2>1. r \in DOMAIN rows
    BY <1>1
  <2>2. Behind(came, r) \/ IsTied(r) \/ Cardinality(Front(r)) < p * PageSize
    BY DEF WalkIInv, ReadIsInFront
  <2>3. Behind(came, r) => Behind(came, r)'
    BY <1>1, <1>2, <2>1 DEF Behind
  <2>4. p * PageSize \in Nat
    BY PagesAre DEF ListIInv
  <2> QED BY <1>2, <1>4, <2>1, <2>2, <2>3, <2>4
<1>9. OnlyMovesHideRows'
  <2> SUFFICES ASSUME IsWalked, NEW r \in steady \ Seen
               PROVE  \/ \E g \in gone : InFront(g, r)'
                      \/ \E c \in late : InFront(c, r)'
                      \/ \E t \in DOMAIN rows : Tied(t, r)'
    BY <1>3 DEF OnlyMovesHideRows, Seen, KeysStay
  <2> QED BY <1>1, <1>2 DEF WalkIInv, OnlyMovesHideRows
<1>10. OnlyArrivalsRepeatRows'
  <2> SUFFICES ASSUME NEW p \in DOMAIN pages, NEW q \in DOMAIN pages,
                      NEW r \in pages[p] \cap pages[q], p < q
               PROVE  (\E c \in came : InFront(c, r)') \/ (\E t \in DOMAIN rows : Tied(t, r)')
    BY DEF OnlyArrivalsRepeatRows, KeysStay
  <2> QED BY <1>1, <1>2 DEF WalkIInv, OnlyArrivalsRepeatRows
<1> QED BY <1>5, <1>6, <1>7, <1>8, <1>9, <1>10 DEF WalkIInv

LEMMA InsertWalk ==
    ASSUME ListIInv, WalkIInv, ListIInv', NEW key \in Keys, NEW fits \in BOOLEAN, Insert(key, fits)
    PROVE  WalkIInv'
<1> DEFINE row == [key |-> key, fits |-> fits]
           new == Len(rows) + 1
<1>1. /\ UNCHANGED <<list, request, pages, total>> /\ rows' = Append(rows, row)
      /\ IF fits THEN Comes(new) ELSE UNCHANGED history
  BY DEF Insert
<1>2. /\ DOMAIN rows = 1..Len(rows) /\ Len(rows) \in Nat /\ new \notin DOMAIN rows
      /\ rows \in Seq([key : Keys, fits : BOOLEAN])
  BY FittingIsFinite DEF ListIInv, ListTypeOK
<1>3. /\ DOMAIN rows' = DOMAIN rows \union {new}
      /\ rows'[new] = row /\ \A i \in DOMAIN rows : rows'[i] = rows[i]
  BY <1>1, <1>2
<1>4. KeysStay
  BY <1>1, <1>3 DEF KeysStay
<1>5. Fitting' = (IF fits THEN Fitting \union {new} ELSE Fitting) /\ new \notin Fitting
  BY <1>2, <1>3 DEF Fitting
<1> HIDE DEF new
<1>6. CASE fits
  BY <1>1, <1>3, <1>4, <1>5, <1>6, ComesWalk
<1>7. CASE ~fits
  <2>1. UNCHANGED <<came, late, steady, gone>> /\ Fitting' = Fitting \ {}
    BY <1>1, <1>5, <1>7 DEF history
  <2>2. gone \subseteq DOMAIN rows
    BY DEF WalkIInv, HistoryOfRows
  <2> QED BY <1>1, <1>4, <2>1, <2>2, GoesWalk
<1> QED BY <1>6, <1>7

LEMMA ChangeWalk ==
    ASSUME ListIInv, WalkIInv, ListIInv', NEW i \in DOMAIN rows, Change(i)
    PROVE  WalkIInv'
<1> DEFINE Rows == [key : Keys, fits : BOOLEAN]
           changed == [rows[i] EXCEPT !.fits = ~@]
<1>1. /\ UNCHANGED <<list, request, pages, total>>
      /\ rows' = [rows EXCEPT ![i] = changed]
      /\ IF rows[i].fits THEN Goes(i) ELSE Comes(i)
  BY DEF Change
<1>2. rows \in Seq(Rows) /\ DOMAIN rows = 1..Len(rows)
  BY FittingIsFinite DEF ListIInv, ListTypeOK
<1>3. rows[i] \in Rows
  <2> HIDE DEF Rows
  <2> QED BY <1>2
<1>4. changed.key = rows[i].key /\ changed.fits = ~rows[i].fits /\ rows[i].fits \in BOOLEAN
  BY <1>3
<1> HIDE DEF changed, Rows
<1>5. /\ DOMAIN rows' = DOMAIN rows /\ rows'[i] = changed
      /\ \A j \in DOMAIN rows : j # i => rows'[j] = rows[j]
  BY <1>1
<1>6. KeysStay
  BY <1>1, <1>4, <1>5 DEF KeysStay
<1>7. CASE rows[i].fits
  <2>1. Fitting' = Fitting \ {i} /\ i \in Fitting
    BY <1>4, <1>5, <1>7 DEF Fitting
  <2>2. /\ steady' = steady \ {i} /\ gone' = Noted(gone, i, Walking) /\ UNCHANGED <<came, late>>
    BY <1>1, <1>7 DEF Goes
  <2>3. gone \subseteq DOMAIN rows
    BY DEF WalkIInv, HistoryOfRows
  <2>4. /\ {i} \in SUBSET Fitting /\ steady' \subseteq steady \ {i}
        /\ gone \subseteq gone' /\ gone' \subseteq DOMAIN rows /\ (Walking => {i} \subseteq gone')
    BY <2>1, <2>2, <2>3 DEF Noted
  <2>5. UNCHANGED <<request, pages, total, came, late>>
    BY <1>1, <2>2
  <2> QED BY <1>6, <2>1, <2>4, <2>5, GoesWalk
<1>8. CASE ~rows[i].fits
  <2>1. Fitting' = Fitting \union {i} /\ i \notin Fitting
    BY <1>4, <1>5, <1>8 DEF Fitting
  <2> QED BY <1>1, <1>5, <1>6, <1>8, <2>1, ComesWalk
<1> QED BY <1>7, <1>8

LEMMA WalkNext == ListIInv /\ ListIInv' /\ WalkIInv /\ [ListNext]_listVars => WalkIInv'
<1> SUFFICES ASSUME ListIInv, ListIInv', WalkIInv, [ListNext]_listVars PROVE WalkIInv'
  OBVIOUS
<1>1. CASE UNCHANGED listVars
  <2>1. UNCHANGED <<list, rows, request, pages, total, steady, came, gone, late>>
    BY <1>1 DEF listVars, history
  <2>2. KeysStay
    BY <2>1 DEF KeysStay
  <2>3. Fitting' = Fitting \ {}
    BY <2>1 DEF Fitting
  <2>4. /\ {} \in SUBSET Fitting /\ steady' \subseteq steady \ {}
        /\ gone \subseteq gone' /\ gone' \subseteq DOMAIN rows /\ (Walking => {} \subseteq gone')
    BY <2>1 DEF WalkIInv, HistoryOfRows
  <2>5. UNCHANGED <<request, pages, total, came, late>>
    BY <2>1
  <2> QED BY <2>2, <2>3, <2>4, <2>5, GoesWalk
<1>2. CASE ListNext
  BY <1>2, OpenWalk, TurnWalk, CountWalk, FindWalk, FailsWalk, InsertWalk, ChangeWalk DEF ListNext
<1> QED BY <1>1, <1>2

LEMMA WalkInvariance == ListSpec => []WalkIInv
  BY WalkInit, WalkNext, ListInvariance, PTL DEF ListSpec

\* Who reads a list to its end has seen every row that was in it all along, but
\* for those that the rows in front of them moved, or that share a key: for any
\* page size, number of rows and length of the walk (the repositories' List).
THEOREM HiddenCorrect == ListSpec => []OnlyMovesHideRows
<1>1. WalkIInv => OnlyMovesHideRows
  BY DEF WalkIInv
<1> QED BY <1>1, WalkInvariance, PTL

\* No row is shown twice unless one came in front of it, or it shares its key
\* (the repositories' List, AuditLogList).
THEOREM RepeatedCorrect == ListSpec => []OnlyArrivalsRepeatRows
<1>1. WalkIInv => OnlyArrivalsRepeatRows
  BY DEF WalkIInv
<1> QED BY <1>1, WalkInvariance, PTL

============================================================================
