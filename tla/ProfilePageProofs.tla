------------------------- MODULE ProfilePageProofs -------------------------
(***************************************************************************)
(* Proofs about ProfilePage for any users, files, versions and number of   *)
(* requests: profiles are their users' own, a save holds nothing older     *)
(* than its page, pictures are whole, and sessions end for a reason.       *)
(*                                                                         *)
(* Tokens make the argument: a request carries the one of its session, who *)
(* waits on a page waits in that session, and so what an answer puts into  *)
(* the page is of the user whose page it is.                               *)
(***************************************************************************)
EXTENDS ProfilePage, TLAPS

-----------------------------------------------------------------------------
(* The files. *)

LEMMA PicturesAreWhole ==
    AvatarsAreWhole <=> \A u \in Users : OwnPicture(rows[u].avatar, u)
BY DEF AvatarsAreWhole, OwnPicture

LEMMA TruncatedIsFile ==
    \A who : Truncated(who) # NoFile /\ Truncated(who).of = {who} /\ Truncated(who).whole = FALSE
<1>1. \A who : {who} # {}
  OBVIOUS
<1> QED BY <1>1 DEF Truncated, NoFile

LEMMA FileCreated ==
    ASSUME FilesOK, WritersAreAlone, NEW u, NEW who \in Owners, NEW name \in Names,
           CreateFile(u, who, name)
    PROVE  /\ FilesOK' /\ WritersAreAlone'
           /\ \A url \in Names \union {NoUrl} : \A x : OwnPicture(url, x) => OwnPicture(url, x)'
           /\ DOMAIN open' = DOMAIN open \union {u} /\ open'[u].who = who
           /\ \A v \in DOMAIN open : open'[v] = open[v]
<1>1. /\ u \notin DOMAIN open
      /\ files' = [files EXCEPT ![name] = Truncated(who)]
      /\ open' = [v \in DOMAIN open \union {u} |->
                     IF v = u THEN [name |-> name, who |-> who] ELSE open[v]]
      /\ shared' = IF files[name] = NoFile THEN shared ELSE shared \union {name}
  BY DEF CreateFile
<1>2. /\ DOMAIN open' = DOMAIN open \union {u}
      /\ open'[u] = [name |-> name, who |-> who]
      /\ open'[u].who = who /\ open'[u].name = name
      /\ \A v \in DOMAIN open : open'[v] = open[v]
  BY <1>1
<1>3. FilesOK'
  BY <1>1, <1>2 DEF FilesOK, Truncated
<1>4. \A n \in Names : n # name => files'[n] = files[n]
  BY <1>1 DEF FilesOK
<1>5. files'[name] = Truncated(who)
  BY <1>1 DEF FilesOK
<1>6. ASSUME NEW url \in Names \union {NoUrl}, NEW x, OwnPicture(url, x)
      PROVE  OwnPicture(url, x)'
  BY <1>1, <1>4, <1>6 DEF OwnPicture, NoFile
<1>7. ASSUME NEW v \in DOMAIN open, open[v].name = name PROVE name \in shared'
  BY <1>1, <1>7, TruncatedIsFile DEF WritersAreAlone
<1>8. WritersAreAlone'
  <2> SUFFICES ASSUME NEW v \in DOMAIN open', open'[v].name \notin shared'
               PROVE  /\ files'[open'[v].name] = Truncated(open'[v].who)
                      /\ \A w \in DOMAIN open' : open'[w].name = open'[v].name => w = v
    BY DEF WritersAreAlone, Truncated
  <2>1. CASE v = u
    BY <1>2, <1>5, <1>7, <2>1
  <2>2. CASE v \in DOMAIN open
    <3>1. open'[v] = open[v] /\ open[v].name \notin shared /\ open[v].name # name
      BY <1>1, <1>2, <1>7, <2>2
    <3>2. open[v].name \in Names
      BY <2>2 DEF FilesOK
    <3> QED BY <1>2, <1>4, <2>2, <3>1, <3>2 DEF WritersAreAlone
  <2> QED BY <1>2, <2>1, <2>2
<1> QED BY <1>2, <1>3, <1>6, <1>8

LEMMA FileCopied ==
    ASSUME FilesOK, WritersAreAlone, NEW u, Copy(u)
    PROVE  /\ FilesOK' /\ WritersAreAlone'
           /\ \A url \in Names \union {NoUrl} : \A x : OwnPicture(url, x) => OwnPicture(url, x)'
           /\ DOMAIN open' = DOMAIN open \ {u}
           /\ \A v \in DOMAIN open' : open'[v] = open[v]
           /\ \E name, who : /\ name = open[u].name /\ who = open[u].who
                             /\ OwnPicture(name, who)'
<1>0. PICK name, who : name = open[u].name /\ who = open[u].who
  OBVIOUS
<1>1. /\ u \in DOMAIN open /\ name \in Names /\ who \in Owners
      /\ files' = [files EXCEPT ![name] = [of |-> files[name].of \union {who}, whole |-> TRUE]]
      /\ shared' = shared
  BY <1>0 DEF Copy, FilesOK
<1>2. /\ DOMAIN open' = DOMAIN open \ {u}
      /\ \A v \in DOMAIN open' : open'[v] = open[v]
  BY DEF Copy, Without
<1>3. files[name] \in [of : SUBSET (Owners \union {"another"}), whole : BOOLEAN]
  BY <1>1 DEF FilesOK
<1>4. FilesOK'
  BY <1>1, <1>2, <1>3 DEF FilesOK
<1>5. /\ \A n \in Names : n # name => files'[n] = files[n]
      /\ files'[name] = [of |-> files[name].of \union {who}, whole |-> TRUE]
  BY <1>1 DEF FilesOK
<1>6. name \in shared \/ (files[name] = Truncated(who)
                          /\ \A w \in DOMAIN open : open[w].name = name => w = u)
  BY <1>0, <1>1 DEF WritersAreAlone
<1>7. ASSUME NEW url \in Names \union {NoUrl}, NEW x, OwnPicture(url, x)
      PROVE  OwnPicture(url, x)'
  BY <1>1, <1>5, <1>6, <1>7 DEF OwnPicture, Truncated
<1>8. OwnPicture(name, who)'
  <2>1. CASE name \in shared
    BY <1>1, <2>1 DEF OwnPicture
  <2>2. CASE files[name] = Truncated(who)
    <3>1. files[name].of \union {who} = {who}
      BY <2>2, TruncatedIsFile
    <3> QED BY <1>5, <3>1 DEF OwnPicture
  <2> QED BY <1>6, <2>1, <2>2
<1>9. WritersAreAlone'
  <2> SUFFICES ASSUME NEW v \in DOMAIN open, v # u, open[v].name \notin shared
               PROVE  /\ files'[open[v].name] = Truncated(open[v].who)
                      /\ \A w \in DOMAIN open : open[w].name = open[v].name => w = v
    BY <1>1, <1>2 DEF WritersAreAlone, Truncated
  <2>1. open[v].name # name /\ open[v].name \in Names
    BY <1>6 DEF FilesOK
  <2> QED BY <1>5, <2>1 DEF WritersAreAlone
<1> QED BY <1>0, <1>2, <1>4, <1>7, <1>8, <1>9

LEMMA FileLeft ==
    ASSUME FilesOK, WritersAreAlone, NEW u, CopyFails(u)
    PROVE  /\ FilesOK' /\ WritersAreAlone'
           /\ \A url, x : OwnPicture(url, x) => OwnPicture(url, x)'
           /\ DOMAIN open' = DOMAIN open \ {u}
           /\ \A v \in DOMAIN open' : open'[v] = open[v]
<1>1. /\ DOMAIN open' = DOMAIN open \ {u}
      /\ \A v \in DOMAIN open' : open'[v] = open[v]
      /\ files' = files /\ shared' = shared
  BY DEF CopyFails, Without
<1> QED BY <1>1 DEF FilesOK, WritersAreAlone, OwnPicture, Truncated

LEMMA FileOfAnother ==
    ASSUME FilesOK, WritersAreAlone, NEW name \in Names, UploadElsewhere(name)
    PROVE  /\ FilesOK' /\ WritersAreAlone'
           /\ \A url \in Names \union {NoUrl} : \A x : OwnPicture(url, x) => OwnPicture(url, x)'
<1>1. /\ files' = [files EXCEPT ![name] = [of |-> {"another"}, whole |-> TRUE]]
      /\ shared' = (IF files[name] = NoFile THEN shared ELSE shared \union {name})
      /\ open' = open
  BY DEF UploadElsewhere
<1>2. \A n \in Names : n # name => files'[n] = files[n]
  BY <1>1 DEF FilesOK
<1>3. FilesOK'
  BY <1>1 DEF FilesOK
<1>4. ASSUME NEW url \in Names \union {NoUrl}, NEW x, OwnPicture(url, x)
      PROVE  OwnPicture(url, x)'
  BY <1>1, <1>2, <1>4 DEF OwnPicture, NoFile
<1>5. WritersAreAlone'
  <2> SUFFICES ASSUME NEW v \in DOMAIN open, open[v].name \notin shared'
               PROVE  /\ files'[open[v].name] = Truncated(open[v].who)
                      /\ \A w \in DOMAIN open : open[w].name = open[v].name => w = v
    BY <1>1 DEF WritersAreAlone, Truncated
  <2>1. open[v].name \notin shared /\ open[v].name \in Names
    BY <1>1 DEF FilesOK
  <2>2. open[v].name # name
    BY <1>1, <2>1, TruncatedIsFile DEF WritersAreAlone
  <2> QED BY <1>2, <2>1, <2>2 DEF WritersAreAlone
<1> QED BY <1>3, <1>4, <1>5

-----------------------------------------------------------------------------
(* The messages. *)

LEMMA MessageKinds ==
    ASSUME NEW m \in Messages
    PROVE  /\ m.op \in {"login", "me", "update", "upload"}
           /\ m.op = "login" => m \in LoginMessages
           /\ m.op = "me" => m \in MeMessages
           /\ m.op = "update" => m \in UpdateMessages
           /\ m.op = "upload" => m \in UploadMessages
           /\ m.no \in Nat /\ m.token \in Nat /\ m.here \in BOOLEAN
BY DEF Messages, LoginMessages, MeMessages, UpdateMessages, UploadMessages

\* What an answer 200 brings.
LEMMA MessageContents ==
    ASSUME NEW m \in Messages
    PROVE  /\ m.op \in {"me", "update"} /\ m.answer.status = 200 => m.answer.row \in Rows
           /\ m.op = "upload" /\ m.answer.status = 200 => m.answer.url \in Names
           /\ m.op = "update" => m.with \in Forms
           /\ m.op = "login" => m.with \in [user : Users, right : BOOLEAN]
BY MessageKinds DEF LoginMessages, MeMessages, UpdateMessages, UploadMessages

LEMMA MessageUnmounted ==
    ASSUME NEW m \in Messages
    PROVE  LET n == [m EXCEPT !.here = FALSE] IN
           /\ n \in Messages /\ n.no = m.no /\ n.op = m.op /\ n.token = m.token
           /\ n.with = m.with /\ n.answer = m.answer /\ n.here = FALSE
<1> DEFINE n == [m EXCEPT !.here = FALSE]
<1>1. CASE m \in LoginMessages
  BY <1>1 DEF Messages, LoginMessages
<1>2. CASE m \in MeMessages
  BY <1>2 DEF Messages, MeMessages
<1>3. CASE m \in UpdateMessages
  BY <1>3 DEF Messages, UpdateMessages
<1>4. CASE m \in UploadMessages
  BY <1>4 DEF Messages, UploadMessages
<1> QED BY <1>1, <1>2, <1>3, <1>4 DEF Messages

\* What a request of the kind can be answered with.
AnswersTo(op) ==
    IF op = "login" THEN [status : {0, 200, 401}]
    ELSE IF op = "upload" THEN [status : {0, 400, 401}] \union [status : {200}, url : Names]
    ELSE [status : {0, 401}] \union [status : {200}, row : Rows]

LEMMA MessageAnswered ==
    ASSUME NEW m \in Messages, NEW a \in AnswersTo(m.op), NEW n, n = [m EXCEPT !.answer = a]
    PROVE  /\ n \in Messages /\ n.no = m.no /\ n.op = m.op /\ n.token = m.token
           /\ n.with = m.with /\ n.answer = a /\ n.here = m.here
<1>1. CASE m.op = "login"
  <2>1. m \in LoginMessages
    BY <1>1, MessageKinds
  <2> QED BY <1>1, <2>1 DEF Messages, LoginMessages, AnswersTo
<1>2. CASE m.op = "me"
  <2>1. m \in MeMessages
    BY <1>2, MessageKinds
  <2> QED BY <1>2, <2>1 DEF Messages, MeMessages, AnswersTo
<1>3. CASE m.op = "update"
  <2>1. m \in UpdateMessages
    BY <1>3, MessageKinds
  <2> QED BY <1>3, <2>1 DEF Messages, UpdateMessages, AnswersTo
<1>4. CASE m.op = "upload"
  <2>1. m \in UploadMessages
    BY <1>4, MessageKinds
  <2> QED BY <1>4, <2>1 DEF Messages, UploadMessages, AnswersTo
<1> QED BY <1>1, <1>2, <1>3, <1>4, MessageKinds

LEMMA AnswersAre ==
    /\ \A op : Unauthorized \in AnswersTo(op)
    /\ [status |-> 200] \in AnswersTo("login")
    /\ \A row \in Rows : /\ [status |-> 200, row |-> row] \in AnswersTo("me")
                         /\ [status |-> 200, row |-> row] \in AnswersTo("update")
    /\ Failed \in AnswersTo("upload")
    /\ \A url \in Names : [status |-> 200, url |-> url] \in AnswersTo("upload")
BY DEF AnswersTo, Unauthorized, Failed

\* What a step of the server never takes back.
Kept ==
    /\ count' \in Nat /\ count <= count'
    /\ DOMAIN tokens \subseteq DOMAIN tokens'
    /\ \A t \in DOMAIN tokens : tokens'[t] = tokens[t]
    /\ expired \subseteq expired'
    /\ \A url \in Names \union {NoUrl} : \A x : OwnPicture(url, x) => OwnPicture(url, x)'

\* No token was given for a message, and no file opened.
NothingFor(m) ==
    /\ m.no \in DOMAIN tokens' => m.no \in DOMAIN tokens
    /\ m.no \in DOMAIN open' => m.no \in DOMAIN open /\ open'[m.no] = open[m.no]

LEMMA ServerStays ==
    ASSUME ServerOK, UNCHANGED server, count' \in Nat, count <= count'
    PROVE  ServerOK' /\ Kept /\ \A m : NothingFor(m)
<1>1. UNCHANGED <<tokens, expired, rows, files, open, shared>>
  BY DEF server, filesVars
<1>2. ServerOK'
  BY <1>1 DEF ServerOK, ProfilesAreOwn, AvatarsAreWhole, FilesOK, WritersAreAlone, Truncated
<1>3. Kept
  BY <1>1 DEF Kept, OwnPicture, NoUrl
<1> QED BY <1>1, <1>2, <1>3 DEF NothingFor

LEMMA AttributedStays ==
    ASSUME ServerOK, NEW m \in Messages, Attributed(m), NEW n \in Messages,
           n.no = m.no, n.op = m.op, n.token = m.token, n.with = m.with, n.answer = m.answer,
           Kept, NothingFor(m)
    PROVE  Attributed(n)'
<1>1. count \in Nat
  BY DEF ServerOK
<1>2. /\ n.no \in 1..count' /\ n.token \in DOMAIN tokens' \union {0}
      /\ n.no \in DOMAIN tokens' => n.op = "login" /\ n.answer.status # 0
      /\ n.op = "login" /\ n.answer.status = 200 =>
            n.no \in DOMAIN tokens' /\ tokens'[n.no] = n.with.user
      /\ n.op # "login" /\ n.answer.status = 401 => n.token = 0 \/ n.token \in expired'
      /\ n.no \in DOMAIN open' =>
            /\ n.op = "upload" /\ n.answer.status = 0
            /\ n.token \in DOMAIN tokens' /\ open'[n.no].who = tokens'[n.token]
  BY <1>1 DEF Attributed, Kept, NothingFor
<1>3. \A url \in Names \union {NoUrl} : \A x : OwnPicture(url, x) => OwnPicture(url, x)'
  BY DEF Kept
<1>4. \A t \in DOMAIN tokens : t \in DOMAIN tokens' /\ tokens'[t] = tokens[t]
  BY DEF Kept
<1>5. ASSUME n.op = "update" PROVE n.token \in DOMAIN tokens' /\ OwnForm(n.with, tokens[n.token])'
  <2>1. m.token \in DOMAIN tokens /\ OwnForm(m.with, tokens[m.token])
    BY <1>5 DEF Attributed
  <2>2. m.with.avatar \in Names \union {NoUrl}
    BY <1>5, MessageContents DEF Forms
  <2> QED BY <1>3, <1>4, <2>1, <2>2 DEF OwnForm, OwnName
<1>6. ASSUME n.op = "me", n.answer.status = 200
      PROVE  n.token \in DOMAIN tokens' /\ OwnForm(n.answer.row, tokens[n.token])'
  <2>1. m.token \in DOMAIN tokens /\ OwnForm(m.answer.row, tokens[m.token])
    BY <1>6 DEF Attributed
  <2>2. m.answer.row.avatar \in Names \union {NoUrl}
    BY <1>6, MessageContents DEF Rows
  <2> QED BY <1>3, <1>4, <2>1, <2>2 DEF OwnForm, OwnName
<1>7. ASSUME n.op = "upload", n.answer.status = 200
      PROVE  n.token \in DOMAIN tokens' /\ OwnPicture(n.answer.url, tokens[n.token])'
  <2>1. m.token \in DOMAIN tokens /\ OwnPicture(m.answer.url, tokens[m.token])
    BY <1>7 DEF Attributed
  <2>2. m.answer.url \in Names \union {NoUrl}
    BY <1>7, MessageContents
  <2> QED BY <1>3, <1>4, <2>1, <2>2
<1> QED BY <1>2, <1>5, <1>6, <1>7 DEF Attributed

\* The page is the same, and knows at least as much.
SamePage ==
    /\ auth' = auth /\ view' = view
    /\ InProfile => page.names \subseteq page'.names /\ page.urls \subseteq page'.urls

LEMMA AwaitedStays ==
    ASSUME NEW m, Awaited(m), SamePage, NEW n, n.op = m.op, n.token = m.token,
           n.here = m.here, n.answer = m.answer
    PROVE  Awaited(n)'
BY DEF Awaited, SamePage, InProfile

-----------------------------------------------------------------------------
(* The invariant. *)

LEMMA InitInv == Init => IInv
<1> SUFFICES ASSUME Init PROVE IInv
  OBVIOUS
<1>1. /\ auth = Nobody /\ me = NoMe /\ view = "login" /\ page = Absent
      /\ sent = {} /\ count = 0 /\ DOMAIN tokens = {} /\ expired = {}
      /\ rows = [u \in Users |-> [name |-> [of |-> u, text |-> "first"], avatar |-> NoUrl]]
      /\ files = [name \in Names |-> NoFile] /\ DOMAIN open = {} /\ shared = {}
  BY DEF Init, InitFiles
<1>2. Absent \in Forms
  BY DEF Absent, Forms
<1>3. rows \in [Users -> Rows]
  <2> SUFFICES ASSUME NEW u \in Users PROVE [of |-> u, text |-> "first"] \in NamesOf
    BY <1>1 DEF Rows
  <2> QED BY DEF NamesOf
<1>4. ProfilesAreOwn /\ AvatarsAreWhole
  BY <1>1 DEF ProfilesAreOwn, AvatarsAreWhole
<1>5. FilesOK
  BY <1>1 DEF FilesOK, NoFile
<1>6. ServerOK
  BY <1>1, <1>3, <1>4, <1>5 DEF ServerOK, WritersAreAlone
<1>7. BrowserOK
  BY <1>1, <1>2 DEF BrowserOK, Nobody, NoMe, InProfile
<1> QED BY <1>1, <1>6, <1>7 DEF IInv, SavesAreOfThisPage

\* A step that answers no request, but may drop some.
LEMMA UnansweredInv ==
    ASSUME IInv, ServerOK', BrowserOK', sent' \subseteq sent, Kept, SamePage,
           \A m \in sent' : NothingFor(m)
    PROVE  IInv'
<1>1. ASSUME NEW m \in sent' PROVE (Attributed(m) /\ Awaited(m))'
  <2>1. m \in Messages /\ Attributed(m) /\ Awaited(m)
    BY <1>1 DEF IInv
  <2>2. Attributed(m)'
    BY <2>1, AttributedStays DEF IInv
  <2>3. Awaited(m)'
    BY <2>1, AwaitedStays
  <2> QED BY <2>2, <2>3
<1>2. SavesAreOfThisPage'
  BY DEF IInv, SavesAreOfThisPage
<1> QED BY <1>1, <1>2 DEF IInv

\* A step that turns one request into another, its answered form for one.
LEMMA AnsweredInv ==
    ASSUME IInv, ServerOK', BrowserOK', Kept, SamePage,
           NEW m \in sent, NEW n \in Messages,
           sent' = (sent \ {m}) \union {n},
           n.no = m.no, n.op = m.op, n.with = m.with,
           \A k \in sent \ {m} : NothingFor(k),
           Attributed(n)', Awaited(n)'
    PROVE  IInv'
<1>1. ASSUME NEW k \in sent \ {m} PROVE (Attributed(k) /\ Awaited(k))'
  <2>1. k \in Messages /\ Attributed(k) /\ Awaited(k)
    BY <1>1 DEF IInv
  <2>2. Attributed(k)'
    BY <1>1, <2>1, AttributedStays DEF IInv
  <2>3. Awaited(k)'
    BY <2>1, AwaitedStays
  <2> QED BY <2>2, <2>3
<1>2. SavesAreOfThisPage'
  BY DEF IInv, SavesAreOfThisPage
<1>3. \A j, k \in sent' : j.no = k.no => j = k
  BY DEF IInv
<1>4. sent' \subseteq Messages
  BY DEF IInv
<1> QED BY <1>1, <1>2, <1>3, <1>4 DEF IInv

\* A step that leaves the page: nobody waits there any more.
LEMMA LeftInv ==
    ASSUME IInv, UNCHANGED <<count, server>>, BrowserOK', view' # "profile",
           \A n \in sent' : \E m \in sent : n = m \/ n = [m EXCEPT !.here = FALSE],
           \A j, k \in sent' : j.no = k.no => j = k,
           \A n \in sent' : n.here => n.op = "login"
    PROVE  IInv'
<1>1. ServerOK' /\ Kept /\ \A m : NothingFor(m)
  BY ServerStays DEF IInv, ServerOK
<1>2. ASSUME NEW n \in sent'
      PROVE  /\ n \in Messages /\ (Attributed(n) /\ Awaited(n))'
             /\ n.op = "update" => n.with.name \in n.with.names /\ n.with.avatar \in n.with.urls
  <2>1. PICK m \in sent : n = m \/ n = [m EXCEPT !.here = FALSE]
    OBVIOUS
  <2>2. /\ n \in Messages /\ m \in Messages /\ n.no = m.no /\ n.op = m.op
        /\ n.token = m.token /\ n.with = m.with /\ n.answer = m.answer
    BY <2>1, MessageUnmounted DEF IInv
  <2>3. Attributed(m) /\ NothingFor(m)
    BY <1>1 DEF IInv
  <2>4. Attributed(n)'
    BY <1>1, <2>2, <2>3, AttributedStays DEF IInv
  <2>5. Awaited(n)'
    BY DEF Awaited
  <2> QED BY <2>2, <2>4, <2>5 DEF IInv, SavesAreOfThisPage
<1> QED BY <1>1, <1>2 DEF IInv, SavesAreOfThisPage

LEMMA MessageSent ==
    ASSUME count \in Nat, auth.token \in Nat, NEW op, NEW with,
           \/ op = "login" /\ with \in [user : Users, right : BOOLEAN]
           \/ op = "me" /\ with = "nothing"
           \/ op = "upload" /\ with = "picture"
           \/ op = "update" /\ with \in Forms
    PROVE  /\ Request(op, with) \in Messages
           /\ Request(op, with).no = count + 1 /\ Request(op, with).op = op
           /\ Request(op, with).token = auth.token /\ Request(op, with).with = with
           /\ Request(op, with).answer.status = 0
<1>1. CASE op = "login" /\ with \in [user : Users, right : BOOLEAN]
  BY <1>1 DEF Request, Unanswered, Messages, LoginMessages
<1>2. CASE op = "me" /\ with = "nothing"
  BY <1>2 DEF Request, Unanswered, Messages, MeMessages
<1>3. CASE op = "upload" /\ with = "picture"
  BY <1>3 DEF Request, Unanswered, Messages, UploadMessages
<1>4. CASE op = "update" /\ with \in Forms
  BY <1>4 DEF Request, Unanswered, Messages, UpdateMessages
<1> QED BY <1>1, <1>2, <1>3, <1>4

\* A step that sends a request: from the page, or a login.
LEMMA SentInv ==
    ASSUME IInv, NEW op, NEW with, Send(op, with), UNCHANGED <<auth, server>>, BrowserOK',
           \/ op = "login" /\ with \in [user : Users, right : BOOLEAN]
           \/ op = "me" /\ with = "nothing"
           \/ op = "upload" /\ with = "picture"
           \/ op = "update" /\ with = page /\ InProfile,
           op = "login" \/ InProfile',
           \A k \in sent : Awaited(k)'
    PROVE  IInv'
<1>0. PICK n : n = Request(op, with)
  OBVIOUS
<1>1. /\ count \in Nat /\ count' = count + 1 /\ sent' = sent \union {n}
      /\ auth.token \in Nat /\ auth.token \in DOMAIN tokens \union {0}
      /\ tokens' = tokens /\ open' = open
  BY <1>0 DEF Send, IInv, ServerOK, BrowserOK, Nobody, server, filesVars
<1>2. page \in Forms
  BY DEF IInv, BrowserOK
<1>3. /\ n \in Messages /\ n.no = count + 1 /\ n.op = op
      /\ n.token = auth.token /\ n.with = with /\ n.answer.status = 0
  BY <1>0, <1>1, <1>2, MessageSent
<1>4. ServerOK' /\ Kept /\ \A m : NothingFor(m)
  BY <1>1, ServerStays DEF IInv
<1>5. ASSUME NEW k \in sent PROVE Attributed(k)'
  BY <1>4, <1>5, AttributedStays DEF IInv
<1>6. op = "update" =>
          /\ with.name \in with.names /\ with.avatar \in with.urls
          /\ auth.token \in DOMAIN tokens /\ OwnForm(with, tokens[auth.token])
  <2> SUFFICES ASSUME op = "update"
               PROVE  /\ with.name \in with.names /\ with.avatar \in with.urls
                      /\ auth.token \in DOMAIN tokens /\ OwnForm(with, tokens[auth.token])
    OBVIOUS
  <2>1. with = page /\ InProfile
    OBVIOUS
  <2>2. auth # Nobody
    BY <2>1 DEF IInv, BrowserOK, InProfile
  <2> QED BY <2>1, <2>2 DEF IInv, BrowserOK, PageOK
<1>7. Attributed(n)'
  <2>1. n.no \notin DOMAIN tokens /\ n.no \notin DOMAIN open /\ n.no \in 1..count'
    BY <1>1, <1>3 DEF IInv, ServerOK
  <2>2. op = "update" => OwnForm(with, tokens[auth.token])'
    <3> SUFFICES ASSUME op = "update" PROVE OwnForm(with, tokens[auth.token])'
      OBVIOUS
    <3>1. UNCHANGED <<files, shared, tokens, auth>>
      BY DEF server, filesVars
    <3> QED BY <1>6, <3>1 DEF OwnForm, OwnName, OwnPicture
  <2> QED BY <1>1, <1>3, <1>6, <2>1, <2>2 DEF Attributed
<1>8. Awaited(n)'
  BY <1>3 DEF Awaited
<1>9. \A j, k \in sent' : j.no = k.no => j = k
  <2>1. \A k \in sent : k.no \in 1..count
    BY DEF IInv, Attributed
  <2>2. \A k \in sent : k.no # n.no
    BY <1>1, <1>3, <2>1
  <2> QED BY <1>1, <2>2 DEF IInv
<1>10. SavesAreOfThisPage'
  <2> SUFFICES ASSUME NEW m \in sent', m.op = "update"
               PROVE  m.with.name \in m.with.names /\ m.with.avatar \in m.with.urls
    BY DEF SavesAreOfThisPage
  <2>1. CASE m = n
    BY <1>3, <1>6, <2>1
  <2>2. CASE m \in sent
    BY <2>2 DEF IInv, SavesAreOfThisPage
  <2> QED BY <1>1, <2>1, <2>2
<1>11. sent' \subseteq Messages
  BY <1>1, <1>3 DEF IInv
<1> QED BY <1>1, <1>4, <1>5, <1>7, <1>8, <1>9, <1>10, <1>11 DEF IInv

-----------------------------------------------------------------------------
(* The steps of the server. *)

\* What a session is, while one lasts.
LEMMA SessionIs ==
    ASSUME IInv
    PROVE  /\ auth # Nobody => auth.token \in DOMAIN tokens /\ auth.user = tokens[auth.token]
                               /\ auth.user \in Users /\ auth.token # 0
           /\ InProfile => auth # Nobody /\ PageOK
BY DEF IInv, BrowserOK, ServerOK, InProfile

LEMMA BrowserStays ==
    ASSUME IInv, UNCHANGED <<auth, me, view, page, rows>>, Kept
    PROVE  BrowserOK' /\ SamePage
<1>1. page \in Forms /\ page.avatar \in Names \union {NoUrl}
  BY DEF IInv, BrowserOK, Forms
<1>2. OwnForm(page, auth.user) => OwnForm(page, auth.user)'
  BY <1>1 DEF OwnForm, OwnName, Kept
<1>3. InProfile => PageOK'
  BY <1>2, SessionIs DEF PageOK
<1>4. auth' = Nobody \/ (auth.token \in DOMAIN tokens' /\ auth.user = tokens'[auth.token])
  BY DEF Kept, IInv, BrowserOK
<1> QED BY <1>3, <1>4 DEF IInv, BrowserOK, SamePage, InProfile

LEMMA WrittenStays ==
    ASSUME IInv, NEW u \in Users, NEW row \in Rows, row.name.of = u, OwnPicture(row.avatar, u),
           Written(u, row), UNCHANGED <<auth, me, view, count, tokens, expired, filesVars>>
    PROVE  ServerOK' /\ BrowserOK' /\ Kept /\ SamePage /\ \A m : NothingFor(m)
<1>1. /\ rows' = [rows EXCEPT ![u] = row] /\ rows \in [Users -> Rows]
      /\ UNCHANGED <<auth, me, view, count, tokens, expired, files, open, shared>>
  BY DEF Written, filesVars, IInv, ServerOK
<1>2. \A url, x : OwnPicture(url, x)' <=> OwnPicture(url, x)
  BY <1>1 DEF OwnPicture
<1>3. ServerOK'
  <2>1. rows' \in [Users -> Rows]
    BY <1>1
  <2>2. ProfilesAreOwn'
    BY <1>1 DEF ProfilesAreOwn, IInv, ServerOK
  <2>3. AvatarsAreWhole'
    <3> SUFFICES ASSUME NEW w \in Users, rows'[w].avatar # NoUrl
                 PROVE  \/ rows'[w].avatar \in shared'
                        \/ files'[rows'[w].avatar] = [of |-> {w}, whole |-> TRUE]
      BY DEF AvatarsAreWhole, NoUrl
    <3>1. CASE w = u
      BY <1>1, <3>1 DEF OwnPicture
    <3>2. CASE w # u
      BY <1>1, <3>2 DEF AvatarsAreWhole, IInv, ServerOK
    <3> QED BY <3>1, <3>2
  <2> QED BY <1>1, <2>1, <2>2, <2>3 DEF IInv, ServerOK, FilesOK, WritersAreAlone, Truncated
<1>4. Kept
  BY <1>1, <1>2 DEF Kept, IInv, ServerOK
<1>5. page \in Forms /\ row.name \in NamesOf /\ row.avatar \in Names \union {NoUrl}
  BY DEF IInv, BrowserOK, Rows
<1>6. CASE InProfile /\ auth.user = u
  <2>1. page' = [page EXCEPT !.names = @ \union {row.name}, !.urls = @ \union {row.avatar}]
    BY <1>6 DEF Written, InProfile
  <2>2. /\ page' \in Forms /\ page'.name = page.name /\ page'.avatar = page.avatar
        /\ page'.names = page.names \union {row.name} /\ page'.urls = page.urls \union {row.avatar}
    BY <1>5, <2>1 DEF Forms
  <2>3. PageOK'
    BY <1>1, <1>2, <1>6, <2>2, SessionIs DEF PageOK, OwnForm, OwnName
  <2> QED BY <1>1, <1>3, <1>4, <1>6, <2>2, <2>3
          DEF IInv, BrowserOK, InProfile, SamePage, NothingFor
<1>7. CASE ~(InProfile /\ auth.user = u)
  <2>1. page' = page
    BY <1>7 DEF Written, InProfile
  <2>2. InProfile => PageOK'
    BY <1>1, <1>2, <1>7, <2>1, SessionIs DEF PageOK, OwnForm, OwnName
  <2> QED BY <1>1, <1>3, <1>4, <1>7, <2>1, <2>2
          DEF IInv, BrowserOK, InProfile, SamePage, NothingFor
<1> QED BY <1>6, <1>7

\* Who asks with a valid token.
LEMMA SenderIs ==
    ASSUME IInv, NEW m \in sent, IsValid(m)
    PROVE  m.token \in DOMAIN tokens /\ User(m) \in Users /\ User(m) = tokens[m.token]
BY DEF IsValid, User, IInv, ServerOK

LEMMA ServeLoginInv ==
    ASSUME IInv, NEW m \in sent, ServeLogin(m)
    PROVE  IInv'
<1>0. /\ m \in Messages /\ Attributed(m) /\ Awaited(m)
      /\ m.op = "login" /\ m.answer.status = 0
      /\ UNCHANGED <<auth, me, view, page, count, expired, rows, files, open, shared>>
      /\ m.with \in [user : Users, right : BOOLEAN]
  BY MessageContents DEF ServeLogin, Unanswered, browser, filesVars, IInv
<1>1. \A url, x : OwnPicture(url, x)' <=> OwnPicture(url, x)
  BY <1>0 DEF OwnPicture
<1>2. m.no \notin DOMAIN tokens /\ m.no \in 1..count
  BY <1>0 DEF Attributed
<1>3. CASE m.with.right
  <2>1. /\ tokens' = [t \in DOMAIN tokens \union {m.no} |->
                         IF t = m.no THEN m.with.user ELSE tokens[t]]
        /\ sent' = (sent \ {m}) \union {[m EXCEPT !.answer = [status |-> 200]]}
    BY <1>3 DEF ServeLogin, Answer
  <2>2. PICK n : n = [m EXCEPT !.answer = [status |-> 200]]
    OBVIOUS
  <2>3. /\ n \in Messages /\ n.no = m.no /\ n.op = m.op /\ n.token = m.token
        /\ n.with = m.with /\ n.answer = [status |-> 200] /\ n.here = m.here
    BY <1>0, <2>2, MessageAnswered, AnswersAre
  <2>4. /\ DOMAIN tokens' = DOMAIN tokens \union {m.no} /\ tokens'[m.no] = m.with.user
        /\ \A t \in DOMAIN tokens : tokens'[t] = tokens[t]
    BY <1>2, <2>1
  <2>5. ServerOK'
    BY <1>0, <1>2, <2>4
       DEF IInv, ServerOK, ProfilesAreOwn, AvatarsAreWhole, FilesOK, WritersAreAlone, Truncated
  <2>6. Kept
    BY <1>0, <1>1, <2>4 DEF Kept, IInv, ServerOK
  <2>7. BrowserOK' /\ SamePage
    BY <1>0, <2>6, BrowserStays
  <2>8. \A k \in sent \ {m} : NothingFor(k)
    BY <1>0, <2>4 DEF NothingFor, IInv
  <2>9. Attributed(n)'
    BY <1>0, <1>2, <2>3, <2>4 DEF Attributed
  <2>10. Awaited(n)'
    BY <1>0, <2>3 DEF Awaited
  <2> QED BY <2>1, <2>2, <2>3, <2>5, <2>6, <2>7, <2>8, <2>9, <2>10, AnsweredInv
<1>4. CASE ~m.with.right
  <2>1. /\ UNCHANGED server
        /\ sent' = (sent \ {m}) \union {[m EXCEPT !.answer = Unauthorized]}
    BY <1>4 DEF ServeLogin, Answer, server
  <2>2. PICK n : n = [m EXCEPT !.answer = Unauthorized]
    OBVIOUS
  <2>3. /\ n \in Messages /\ n.no = m.no /\ n.op = m.op /\ n.token = m.token
        /\ n.with = m.with /\ n.answer = Unauthorized /\ n.here = m.here
    BY <1>0, <2>2, MessageAnswered, AnswersAre
  <2>4. ServerOK' /\ Kept /\ \A k : NothingFor(k)
    BY <1>0, <2>1, ServerStays DEF IInv, ServerOK
  <2>5. BrowserOK' /\ SamePage
    BY <1>0, <2>4, BrowserStays
  <2>6. Attributed(n)'
    BY <1>0, <2>1, <2>3 DEF Attributed, Unauthorized, server
  <2>7. Awaited(n)'
    BY <1>0, <2>3 DEF Awaited
  <2> QED BY <2>1, <2>2, <2>3, <2>4, <2>5, <2>6, <2>7, AnsweredInv
<1> QED BY <1>3, <1>4

LEMMA RefuseInv ==
    ASSUME IInv, NEW m \in sent, Refuse(m)
    PROVE  IInv'
<1>0. /\ m \in Messages /\ Attributed(m) /\ Awaited(m)
      /\ m.op # "login" /\ m.answer.status = 0 /\ m.no \notin DOMAIN open
      /\ m.token \notin DOMAIN tokens \ expired
      /\ UNCHANGED <<auth, me, view, page, count, server>>
      /\ UNCHANGED <<tokens, expired, rows, files, open, shared>>
      /\ sent' = (sent \ {m}) \union {[m EXCEPT !.answer = Unauthorized]}
  BY DEF Refuse, Unanswered, browser, server, filesVars, IInv, IsValid, Answer
<1>1. PICK n : n = [m EXCEPT !.answer = Unauthorized]
  OBVIOUS
<1>2. /\ n \in Messages /\ n.no = m.no /\ n.op = m.op /\ n.token = m.token
      /\ n.with = m.with /\ n.answer = Unauthorized /\ n.here = m.here
  BY <1>0, <1>1, MessageAnswered, AnswersAre
<1>3. ServerOK' /\ Kept /\ \A k : NothingFor(k)
  BY <1>0, ServerStays DEF IInv, ServerOK
<1>4. BrowserOK' /\ SamePage
  BY <1>0, <1>3, BrowserStays
<1>5. m.op = "update" => (m.token \in DOMAIN tokens /\ OwnForm(m.with, tokens[m.token]))'
  BY <1>0 DEF Attributed, OwnForm, OwnName, OwnPicture
<1>6. Attributed(n)'
  BY <1>0, <1>2, <1>5 DEF Attributed, Unauthorized
<1>7. Awaited(n)'
  BY <1>0, <1>2, <1>4 DEF Awaited, SamePage, InProfile, Unauthorized
<1> QED BY <1>0, <1>1, <1>2, <1>3, <1>4, <1>6, <1>7, AnsweredInv

LEMMA ServeMeInv ==
    ASSUME IInv, NEW m \in sent, ServeMe(m)
    PROVE  IInv'
<1>0. /\ m \in Messages /\ Attributed(m) /\ Awaited(m)
      /\ m.op = "me" /\ m.answer.status = 0
      /\ UNCHANGED <<auth, me, view, page, count, server>>
      /\ UNCHANGED <<tokens, expired, rows, files, open, shared>>
      /\ sent' = (sent \ {m}) \union {[m EXCEPT !.answer = [status |-> 200, row |-> rows[User(m)]]]}
  BY DEF ServeMe, Unanswered, browser, server, filesVars, IInv, Answer
<1>1. /\ m.token \in DOMAIN tokens /\ User(m) \in Users /\ User(m) = tokens[m.token]
  BY SenderIs DEF ServeMe
<1>2. PICK row : row = rows[User(m)]
  OBVIOUS
<1>3. row \in Rows /\ OwnForm(row, tokens[m.token])
  BY <1>1, <1>2, PicturesAreWhole DEF IInv, ServerOK, ProfilesAreOwn, OwnForm, OwnName
<1>4. PICK n : n = [m EXCEPT !.answer = [status |-> 200, row |-> row]]
  OBVIOUS
<1>5. /\ n \in Messages /\ n.no = m.no /\ n.op = m.op /\ n.token = m.token
      /\ n.with = m.with /\ n.answer = [status |-> 200, row |-> row] /\ n.here = m.here
  BY <1>0, <1>3, <1>4, MessageAnswered, AnswersAre
<1>6. ServerOK' /\ Kept /\ \A k : NothingFor(k)
  BY <1>0, ServerStays DEF IInv, ServerOK
<1>7. BrowserOK' /\ SamePage
  BY <1>0, <1>6, BrowserStays
<1>8. OwnForm(row, tokens[m.token])'
  BY <1>0, <1>3 DEF OwnForm, OwnName, OwnPicture
<1>9. Attributed(n)'
  BY <1>0, <1>1, <1>5, <1>8 DEF Attributed
<1>10. ASSUME m.here PROVE InProfile /\ m.token = auth.token /\ row.name \in page.names
                           /\ row.avatar \in page.urls
  <2>1. InProfile /\ m.token = auth.token
    BY <1>0, <1>10 DEF Awaited
  <2>2. row = rows[auth.user]
    BY <1>1, <1>2, <2>1, SessionIs
  <2> QED BY <2>1, <2>2, SessionIs DEF PageOK
<1>11. Awaited(n)'
  BY <1>0, <1>5, <1>10 DEF Awaited, InProfile
<1> QED BY <1>0, <1>2, <1>4, <1>5, <1>6, <1>7, <1>9, <1>11, AnsweredInv

LEMMA EditedIs ==
    ASSUME IInv, NEW u \in Users, NEW with \in Forms, OwnForm(with, u)
    PROVE  LET row == Edited(rows[u], with)
           IN  row \in Rows /\ row.name.of = u /\ OwnPicture(row.avatar, u)
<1>1. rows[u] \in Rows /\ rows[u].name.of = u /\ OwnPicture(rows[u].avatar, u)
  BY PicturesAreWhole DEF IInv, ServerOK, ProfilesAreOwn
<1> QED BY <1>1 DEF Edited, Rows, Forms, OwnForm, OwnName

LEMMA ServeUpdateInv ==
    ASSUME IInv, NEW m \in sent, ServeUpdate(m)
    PROVE  IInv'
<1>0. /\ m \in Messages /\ Attributed(m) /\ Awaited(m)
      /\ m.op = "update" /\ m.answer.status = 0
      /\ UNCHANGED <<auth, me, view, count, tokens, expired, filesVars>>
      /\ UNCHANGED <<files, open, shared>> /\ m.with \in Forms
  BY MessageContents DEF ServeUpdate, Unanswered, browser, filesVars, IInv
<1>1. PICK u \in Users : u = User(m) /\ m.token \in DOMAIN tokens /\ u = tokens[m.token]
  BY SenderIs DEF ServeUpdate
<1>2. PICK row : row = Edited(rows[u], m.with)
  OBVIOUS
<1>3. row \in Rows /\ row.name.of = u /\ OwnPicture(row.avatar, u)
  BY <1>0, <1>1, <1>2, EditedIs DEF Attributed
<1>4. Written(u, row)
  BY <1>1, <1>2 DEF ServeUpdate
<1>5. ServerOK' /\ BrowserOK' /\ Kept /\ SamePage /\ \A k : NothingFor(k)
  BY <1>0, <1>3, <1>4, WrittenStays
<1>6. sent' = (sent \ {m}) \union {[m EXCEPT !.answer = [status |-> 200, row |-> row]]}
  BY <1>1, <1>2 DEF ServeUpdate, Answer
<1>7. PICK n : n = [m EXCEPT !.answer = [status |-> 200, row |-> row]]
  OBVIOUS
<1>8. /\ n \in Messages /\ n.no = m.no /\ n.op = m.op /\ n.token = m.token
      /\ n.with = m.with /\ n.answer = [status |-> 200, row |-> row] /\ n.here = m.here
  BY <1>0, <1>3, <1>7, MessageAnswered, AnswersAre
<1>9. OwnForm(m.with, tokens[m.token])'
  BY <1>0 DEF Attributed, OwnForm, OwnName, OwnPicture
<1>10. Attributed(n)'
  BY <1>0, <1>1, <1>8, <1>9 DEF Attributed
<1>11. Awaited(n)'
  BY <1>0, <1>5, <1>8 DEF Awaited, SamePage, InProfile
<1> QED BY <1>5, <1>6, <1>7, <1>8, <1>10, <1>11, AnsweredInv

\* A step that writes a file takes no picture away.
LEMMA AvatarsStay ==
    ASSUME IInv, UNCHANGED rows,
           \A url \in Names \union {NoUrl} : \A x : OwnPicture(url, x) => OwnPicture(url, x)'
    PROVE  AvatarsAreWhole'
<1> SUFFICES ASSUME NEW w \in Users, rows[w].avatar # NoUrl
             PROVE  OwnPicture(rows[w].avatar, w)'
  BY DEF AvatarsAreWhole, OwnPicture, NoUrl
<1>1. rows[w].avatar \in Names \union {NoUrl} /\ OwnPicture(rows[w].avatar, w)
  BY PicturesAreWhole DEF IInv, ServerOK, Rows
<1>2. OwnPicture(rows[w].avatar, w)'
  BY <1>1 DEF OwnPicture
<1> QED BY <1>2

LEMMA ServeUploadInv ==
    ASSUME IInv, NEW m \in sent, NEW name \in Names, ServeUpload(m, name)
    PROVE  IInv'
<1>0. /\ m \in Messages /\ Attributed(m) /\ Awaited(m) /\ m.no \in 1..count
      /\ m.op = "upload" /\ m.answer.status = 0
      /\ UNCHANGED <<auth, me, view, count, page, sent, tokens, expired, rows>>
  BY DEF ServeUpload, Unanswered, browser, IInv, Attributed
<1>1. PICK u \in Users : /\ u = User(m) /\ m.token \in DOMAIN tokens /\ u = tokens[m.token]
                         /\ u \in Owners
  BY SenderIs, ProfileAssumption DEF ServeUpload
<1>2. PICK no : no = m.no
  OBVIOUS
<1>3. CreateFile(no, u, name)
  BY <1>1, <1>2 DEF ServeUpload
<1>4. /\ FilesOK' /\ WritersAreAlone'
      /\ \A url \in Names \union {NoUrl} : \A x : OwnPicture(url, x) => OwnPicture(url, x)'
      /\ DOMAIN open' = DOMAIN open \union {no} /\ open'[no].who = u
      /\ \A v \in DOMAIN open : open'[v] = open[v]
  BY <1>1, <1>3, FileCreated DEF IInv, ServerOK
<1>5. Kept
  BY <1>0, <1>4 DEF Kept, IInv, ServerOK
<1>6. AvatarsAreWhole'
  BY <1>0, <1>4, AvatarsStay
<1>7. ServerOK'
  BY <1>0, <1>2, <1>4, <1>6 DEF IInv, ServerOK, ProfilesAreOwn
<1>8. BrowserOK' /\ SamePage
  BY <1>0, <1>5, BrowserStays
<1>9. \A k \in sent \ {m} : NothingFor(k)
  BY <1>0, <1>2, <1>4 DEF NothingFor, IInv
<1>10. Attributed(m)'
  BY <1>0, <1>1, <1>2, <1>4 DEF Attributed
<1>11. Awaited(m)'
  BY <1>0, <1>8, AwaitedStays
<1> QED BY <1>0, <1>5, <1>7, <1>8, <1>9, <1>10, <1>11, AnsweredInv

LEMMA FinishUploadInv ==
    ASSUME IInv, NEW u \in DOMAIN open, FinishUpload(u)
    PROVE  IInv'
<1>0. PICK url : url = open[u].name
  OBVIOUS
<1>1. PICK who : who = open[u].who
  OBVIOUS
<1>2. /\ Copy(u) /\ url \in Names
      /\ sent' = {IF m.no = u THEN [m EXCEPT !.answer = [status |-> 200, url |-> url]] ELSE m : m \in sent}
      /\ UNCHANGED <<auth, me, view, count, page, tokens, expired, rows>>
  BY <1>0 DEF FinishUpload, AnswerUpload, browser, IInv, ServerOK, FilesOK
<1>3. /\ FilesOK' /\ WritersAreAlone'
      /\ \A name \in Names \union {NoUrl} : \A x : OwnPicture(name, x) => OwnPicture(name, x)'
      /\ DOMAIN open' = DOMAIN open \ {u}
      /\ \A v \in DOMAIN open' : open'[v] = open[v]
      /\ OwnPicture(url, who)'
  BY <1>0, <1>1, <1>2, FileCopied DEF IInv, ServerOK
<1>4. Kept
  BY <1>2, <1>3 DEF Kept, IInv, ServerOK
<1>5. ServerOK'
  BY <1>2, <1>3, AvatarsStay DEF IInv, ServerOK, ProfilesAreOwn
<1>6. BrowserOK' /\ SamePage
  BY <1>2, <1>4, BrowserStays
<1>7. \A k : NothingFor(k)
  BY <1>2, <1>3 DEF NothingFor
<1>8. CASE \A m \in sent : m.no # u
  <2>1. sent' = sent
    BY <1>2, <1>8
  <2> QED BY <1>4, <1>5, <1>6, <1>7, <2>1, UnansweredInv
<1>9. CASE \E m \in sent : m.no = u
  <2>1. PICK m \in sent : m.no = u
    BY <1>9
  <2>2. PICK n : n = [m EXCEPT !.answer = [status |-> 200, url |-> url]]
    OBVIOUS
  <2>3. sent' = (sent \ {m}) \union {n}
    <3>1. \A k \in sent : k.no = u => k = m
      BY <2>1 DEF IInv
    <3> QED BY <1>2, <2>1, <2>2, <3>1
  <2>4. /\ m \in Messages /\ Attributed(m) /\ Awaited(m)
        /\ m.op = "upload" /\ m.token \in DOMAIN tokens /\ who = tokens[m.token]
    BY <1>1, <2>1 DEF IInv, Attributed
  <2>5. /\ n \in Messages /\ n.no = m.no /\ n.op = m.op /\ n.token = m.token
        /\ n.with = m.with /\ n.answer = [status |-> 200, url |-> url] /\ n.here = m.here
    BY <1>2, <2>2, <2>4, MessageAnswered, AnswersAre
  <2>6. Attributed(n)'
    BY <1>2, <1>3, <2>1, <2>4, <2>5 DEF Attributed
  <2>7. Awaited(n)'
    BY <1>6, <2>4, <2>5 DEF Awaited, SamePage, InProfile
  <2> QED BY <1>4, <1>5, <1>6, <1>7, <2>3, <2>5, <2>6, <2>7, AnsweredInv
<1> QED BY <1>8, <1>9

LEMMA BreakUploadInv ==
    ASSUME IInv, NEW u \in DOMAIN open, BreakUpload(u)
    PROVE  IInv'
<1>1. /\ CopyFails(u)
      /\ sent' = {IF m.no = u THEN [m EXCEPT !.answer = Failed] ELSE m : m \in sent}
      /\ UNCHANGED <<auth, me, view, count, page, tokens, expired, rows>>
  BY DEF BreakUpload, AnswerUpload, Broken, browser
<1>2. /\ FilesOK' /\ WritersAreAlone'
      /\ \A url, x : OwnPicture(url, x) => OwnPicture(url, x)'
      /\ DOMAIN open' = DOMAIN open \ {u}
      /\ \A v \in DOMAIN open' : open'[v] = open[v]
  BY <1>1, FileLeft DEF IInv, ServerOK
<1>3. Kept
  BY <1>1, <1>2 DEF Kept, IInv, ServerOK
<1>4. ServerOK'
  BY <1>1, <1>2, AvatarsStay DEF IInv, ServerOK, ProfilesAreOwn
<1>5. BrowserOK' /\ SamePage
  BY <1>1, <1>3, BrowserStays
<1>6. \A k : NothingFor(k)
  BY <1>1, <1>2 DEF NothingFor
<1>7. CASE \A m \in sent : m.no # u
  <2>1. sent' = sent
    BY <1>1, <1>7
  <2> QED BY <1>3, <1>4, <1>5, <1>6, <2>1, UnansweredInv
<1>8. CASE \E m \in sent : m.no = u
  <2>1. PICK m \in sent : m.no = u
    BY <1>8
  <2>2. PICK n : n = [m EXCEPT !.answer = Failed]
    OBVIOUS
  <2>3. sent' = (sent \ {m}) \union {n}
    <3>1. \A k \in sent : k.no = u => k = m
      BY <2>1 DEF IInv
    <3> QED BY <1>1, <2>1, <2>2, <3>1
  <2>4. m \in Messages /\ Attributed(m) /\ Awaited(m) /\ m.op = "upload"
    BY <2>1 DEF IInv, Attributed
  <2>5. /\ n \in Messages /\ n.no = m.no /\ n.op = m.op /\ n.token = m.token
        /\ n.with = m.with /\ n.answer = Failed /\ n.here = m.here
    BY <2>2, <2>4, MessageAnswered, AnswersAre
  <2>6. Attributed(n)'
    BY <1>1, <1>2, <2>1, <2>4, <2>5 DEF Attributed, Failed
  <2>7. Awaited(n)'
    BY <1>5, <2>4, <2>5 DEF Awaited, SamePage, InProfile
  <2> QED BY <1>3, <1>4, <1>5, <1>6, <2>3, <2>5, <2>6, <2>7, AnsweredInv
<1> QED BY <1>7, <1>8

LEMMA OthersUploadInv ==
    ASSUME IInv, NEW name \in Names, OthersUpload(name)
    PROVE  IInv'
<1>1. UNCHANGED <<auth, me, view, count, page, sent, tokens, expired, rows, open>>
  BY DEF OthersUpload, UploadElsewhere, browser
<1>2. /\ FilesOK' /\ WritersAreAlone'
      /\ \A url \in Names \union {NoUrl} : \A x : OwnPicture(url, x) => OwnPicture(url, x)'
  BY FileOfAnother DEF OthersUpload, IInv, ServerOK
<1>3. Kept
  BY <1>1, <1>2 DEF Kept, IInv, ServerOK
<1>4. ServerOK'
  BY <1>1, <1>2, AvatarsStay DEF IInv, ServerOK, ProfilesAreOwn
<1>5. BrowserOK' /\ SamePage
  BY <1>1, <1>3, BrowserStays
<1>6. \A k : NothingFor(k)
  BY <1>1 DEF NothingFor
<1> QED BY <1>1, <1>3, <1>4, <1>5, <1>6, UnansweredInv

LEMMA ExpireInv ==
    ASSUME IInv, NEW t, Expire(t)
    PROVE  IInv'
<1>1. /\ UNCHANGED <<auth, me, view, count, page, sent, tokens, rows, files, open, shared>>
      /\ t \in DOMAIN tokens /\ expired' = expired \union {t}
  BY DEF Expire, browser, filesVars
<1>2. ServerOK'
  BY <1>1 DEF IInv, ServerOK, ProfilesAreOwn, AvatarsAreWhole, FilesOK, WritersAreAlone, Truncated
<1>3. Kept
  BY <1>1 DEF Kept, IInv, ServerOK, OwnPicture
<1>4. BrowserOK' /\ SamePage
  BY <1>1, <1>3, BrowserStays
<1>5. \A k : NothingFor(k)
  BY <1>1 DEF NothingFor
<1> QED BY <1>1, <1>2, <1>3, <1>4, <1>5, UnansweredInv

LEMMA ElsewhereInv ==
    ASSUME IInv, NEW u \in Users, NEW row \in Entered(u), Elsewhere(u, row)
    PROVE  IInv'
<1>1. /\ UNCHANGED <<auth, me, view, count, sent, tokens, expired, filesVars>>
      /\ Written(u, row)
  BY DEF Elsewhere, browser
<1>2. rows[u] \in Rows /\ rows[u].name.of = u /\ OwnPicture(rows[u].avatar, u)
  BY PicturesAreWhole DEF IInv, ServerOK, ProfilesAreOwn
<1>3. row.name \in NamesOf /\ row.name.of = u
  BY <1>2 DEF Entered, Typed, NamesOf, Rows
<1>4. row \in Rows /\ OwnPicture(row.avatar, u)
  BY <1>2, <1>3 DEF Entered, Rows, OwnPicture
<1>5. ServerOK' /\ BrowserOK' /\ Kept /\ SamePage /\ \A k : NothingFor(k)
  BY <1>1, <1>3, <1>4, WrittenStays
<1> QED BY <1>1, <1>5, UnansweredInv

-----------------------------------------------------------------------------
(* The steps of the browser. *)

\* A step that leaves the page, with the session or without it.
LEMMA GoneInv ==
    ASSUME IInv, UNCHANGED <<count, server>>,
           auth' = auth \/ auth' = Nobody
               \/ (auth'.token \in DOMAIN tokens /\ auth'.user = tokens[auth'.token]
                   /\ auth' \in [token : Nat, user : Users \union {"nobody"}]),
           me' = me \/ me' = NoMe,
           view' \in {"login", "home"}, auth' = Nobody => view' = "login", page' = Absent,
           \A n \in sent' : \E m \in sent : n = m \/ n = [m EXCEPT !.here = FALSE],
           \A j, k \in sent' : j.no = k.no => j = k,
           \A n \in sent' : n.here => n.op = "login"
    PROVE  IInv'
<1>1. tokens' = tokens
  BY DEF server
<1>2. page' \in Forms
  BY DEF Absent, Forms
<1>3. me' \in [name : NamesOf \union {Nothing}, avatar : Names \union {NoUrl}]
  BY DEF NoMe, IInv, BrowserOK
<1>4. auth' \in [token : Nat, user : Users \union {"nobody"}]
  BY DEF Nobody, IInv, BrowserOK
<1>5. (auth = Nobody \/ (auth.token \in DOMAIN tokens /\ auth.user = tokens[auth.token]))'
  BY <1>1 DEF Nobody, IInv, BrowserOK
<1>6. BrowserOK'
  BY <1>2, <1>3, <1>4, <1>5 DEF BrowserOK, InProfile, Nobody, Absent, NamesOf, NoUrl, Nothing, Forms
<1> QED BY <1>6, LeftInv

LEMMA Unmounting ==
    ASSUME NEW messages, messages \subseteq Messages, \A m, n \in messages : m.no = n.no => m = n
    PROVE  /\ \A n \in Unmounted(messages) : \E m \in messages : n = [m EXCEPT !.here = FALSE]
           /\ \A j, k \in Unmounted(messages) : j.no = k.no => j = k
           /\ \A n \in Unmounted(messages) : n.here = FALSE
<1>1. \A n \in Unmounted(messages) : \E m \in messages :
          n = [m EXCEPT !.here = FALSE] /\ n.no = m.no /\ n.here = FALSE
  <2> SUFFICES ASSUME NEW m \in messages, NEW n, n = [m EXCEPT !.here = FALSE]
               PROVE  n.no = m.no /\ n.here = FALSE
    BY DEF Unmounted
  <2> QED BY MessageUnmounted
<1>2. ASSUME NEW j \in Unmounted(messages), NEW k \in Unmounted(messages), j.no = k.no
      PROVE  j = k
  <2>1. PICK m \in messages : j = [m EXCEPT !.here = FALSE] /\ j.no = m.no
    BY <1>1
  <2>2. PICK n \in messages : k = [n EXCEPT !.here = FALSE] /\ k.no = n.no
    BY <1>1
  <2>3. m = n
    BY <1>2, <2>1, <2>2
  <2> QED BY <2>1, <2>2, <2>3
<1> QED BY <1>1, <1>2

LEMMA LeaveInv ==
    ASSUME IInv, Leave
    PROVE  IInv'
<1>1. auth # Nobody
  BY SessionIs DEF Leave, InProfile
<1>2. /\ \A n \in sent' : \E m \in sent : n = [m EXCEPT !.here = FALSE]
      /\ \A j, k \in sent' : j.no = k.no => j = k
      /\ \A n \in sent' : n.here = FALSE
  BY Unmounting DEF Leave, IInv
<1> QED BY <1>1, <1>2, GoneInv DEF Leave

LEMMA LogoutInv ==
    ASSUME IInv, Logout
    PROVE  IInv'
<1>1. /\ \A n \in sent' : \E m \in sent : n = [m EXCEPT !.here = FALSE]
      /\ \A j, k \in sent' : j.no = k.no => j = k
      /\ \A n \in sent' : n.here = FALSE
  BY Unmounting DEF Logout, IInv
<1> QED BY <1>1, GoneInv DEF Logout, LoggedOut

LEMMA ReloadInv ==
    ASSUME IInv, NEW to \in {"login", "home"}, Reload(to)
    PROVE  IInv'
<1>1. auth' = Nobody => to = "login"
  BY DEF Reload, Nobody
<1> QED BY <1>1, GoneInv DEF Reload

LEMMA LoginArrivesInv ==
    ASSUME IInv, NEW m \in sent, LoginArrives(m)
    PROVE  IInv'
<1>1. /\ m \in Messages /\ Attributed(m) /\ m.op = "login" /\ m.answer.status = 200
      /\ auth' = [token |-> m.no, user |-> m.with.user]
      /\ m.with \in [user : Users, right : BOOLEAN]
  BY MessageContents DEF LoginArrives, IInv
<1>2. m.no \in DOMAIN tokens /\ tokens[m.no] = m.with.user /\ m.no \in Nat
  BY <1>1, MessageKinds DEF Attributed
<1>3. auth' # Nobody
  BY <1>1, <1>2 DEF Nobody, IInv, ServerOK
<1>4. /\ \A n \in sent' : \E k \in sent : n = [k EXCEPT !.here = FALSE]
      /\ \A j, k \in sent' : j.no = k.no => j = k
      /\ \A n \in sent' : n.here = FALSE
  <2>1. sent' = Unmounted(sent \ {m})
    BY DEF LoginArrives
  <2> QED BY <2>1, Unmounting DEF IInv
<1>5. /\ auth'.token \in DOMAIN tokens /\ auth'.user = tokens[auth'.token]
      /\ auth' \in [token : Nat, user : Users \union {"nobody"}]
  BY <1>1, <1>2
<1> QED BY <1>3, <1>4, <1>5, GoneInv DEF LoginArrives

LEMMA RefusalArrivesInv ==
    ASSUME IInv, NEW m \in sent, RefusalArrives(m)
    PROVE  IInv'
<1>1. sent' \subseteq sent /\ (sent' # {} => view = "login")
  BY DEF RefusalArrives
<1>2. \A n \in sent' : n.here => n.op = "login"
  BY <1>1 DEF IInv, Awaited, InProfile
<1>3. \A j, k \in sent' : j.no = k.no => j = k
  BY <1>1 DEF IInv
<1> QED BY <1>1, <1>2, <1>3, GoneInv DEF RefusalArrives, LoggedOut

\* A step that changes the form, or the store, of the page on show.
LEMMA FilledInv ==
    ASSUME IInv, UNCHANGED <<auth, view, count, server>>, sent' \subseteq sent,
           me' \in [name : NamesOf \union {Nothing}, avatar : Names \union {NoUrl}],
           \/ page' = page
           \/ /\ InProfile /\ page' \in Forms
              /\ page.names \subseteq page'.names /\ page.urls \subseteq page'.urls
              /\ page'.name \in page'.names /\ page'.avatar \in page'.urls
              /\ OwnName(page'.name, auth.user) /\ OwnPicture(page'.avatar, auth.user)
    PROVE  IInv'
<1>1. ServerOK' /\ Kept /\ \A m : NothingFor(m)
  BY ServerStays DEF IInv, ServerOK
<1>2. UNCHANGED <<auth, view, tokens, rows, files, shared>>
  BY DEF server, filesVars
<1>3. SamePage
  BY DEF SamePage
<1>4. InProfile => PageOK'
  <2> SUFFICES ASSUME InProfile PROVE PageOK'
    OBVIOUS
  <2>1. CASE page' = page
    BY <1>2, <2>1, SessionIs DEF PageOK, OwnForm, OwnName, OwnPicture
  <2>2. CASE page' # page
    BY <1>2, <2>2, SessionIs DEF PageOK, OwnForm, OwnName, OwnPicture
  <2> QED BY <2>1, <2>2
<1>5. BrowserOK'
  BY <1>2, <1>4 DEF IInv, BrowserOK, InProfile
<1> QED BY <1>1, <1>3, <1>5, UnansweredInv

LEMMA TypeInv ==
    ASSUME IInv, NEW name \in Typed(auth.user), Type(name)
    PROVE  IInv'
<1>1. /\ UNCHANGED <<auth, me, view, sent, count, server>> /\ InProfile
      /\ page' = [page EXCEPT !.name = name, !.names = @ \union {name}]
  BY DEF Type, InProfile
<1>2. auth.user \in Users /\ PageOK
  BY <1>1, SessionIs
<1>3. name \in NamesOf /\ OwnName(name, auth.user)
  BY <1>2 DEF Typed, NamesOf, OwnName
<1>4. page \in Forms
  BY DEF IInv, BrowserOK
<1>5. /\ page' \in Forms /\ page'.name = name /\ page'.names = page.names \union {name}
      /\ page'.avatar = page.avatar /\ page'.urls = page.urls
  BY <1>1, <1>3, <1>4 DEF Forms
<1>6. page'.avatar \in page'.urls /\ OwnPicture(page'.avatar, auth.user)
  BY <1>2, <1>5 DEF PageOK, OwnForm
<1>7. me' \in [name : NamesOf \union {Nothing}, avatar : Names \union {NoUrl}]
  BY <1>1 DEF IInv, BrowserOK
<1> QED BY <1>1, <1>3, <1>5, <1>6, <1>7, FilledInv

LEMMA MeArrivesInv ==
    ASSUME IInv, NEW m \in sent, MeArrives(m)
    PROVE  IInv'
<1>1. /\ UNCHANGED <<auth, view, count, server>> /\ sent' \subseteq sent
      /\ m \in Messages /\ Attributed(m) /\ Awaited(m)
      /\ m.op = "me" /\ m.answer.status = 200 /\ me' = m.answer.row
  BY DEF MeArrives, IInv
<1>2. PICK row \in Rows : row = m.answer.row
  BY <1>1, MessageContents
<1>3. me' \in [name : NamesOf \union {Nothing}, avatar : Names \union {NoUrl}]
  BY <1>1, <1>2 DEF Rows
<1>4. CASE m.here
  <2>1. page' = [page EXCEPT !.name = row.name, !.avatar = row.avatar]
    BY <1>2, <1>4 DEF MeArrives
  <2>2. InProfile /\ m.token = auth.token /\ row.name \in page.names /\ row.avatar \in page.urls
    BY <1>1, <1>2, <1>4 DEF Awaited
  <2>3. OwnForm(row, auth.user)
    BY <1>1, <1>2, <2>2, SessionIs DEF Attributed
  <2>4. page \in Forms
    BY DEF IInv, BrowserOK
  <2>5. /\ page' \in Forms /\ page'.name = row.name /\ page'.names = page.names
        /\ page'.avatar = row.avatar /\ page'.urls = page.urls
    BY <1>2, <2>1, <2>4 DEF Forms, Rows
  <2> QED BY <1>1, <1>3, <2>2, <2>3, <2>5, FilledInv DEF OwnForm
<1>5. CASE ~m.here
  BY <1>1, <1>3, <1>5, FilledInv DEF MeArrives
<1> QED BY <1>4, <1>5

LEMMA UpdateArrivesInv ==
    ASSUME IInv, NEW m \in sent, UpdateArrives(m)
    PROVE  IInv'
<1>1. /\ UNCHANGED <<auth, view, page, count, server>> /\ sent' \subseteq sent
      /\ m \in Messages /\ m.op = "update" /\ m.answer.status = 200 /\ me' = m.answer.row
  BY DEF UpdateArrives, IInv
<1>2. me' \in [name : NamesOf \union {Nothing}, avatar : Names \union {NoUrl}]
  BY <1>1, MessageContents DEF Rows
<1> QED BY <1>1, <1>2, FilledInv

LEMMA UploadArrivesInv ==
    ASSUME IInv, NEW m \in sent, UploadArrives(m)
    PROVE  IInv'
<1>1. /\ UNCHANGED <<auth, me, view, count, server>> /\ sent' \subseteq sent
      /\ m \in Messages /\ Attributed(m) /\ Awaited(m)
      /\ m.op = "upload" /\ m.answer.status = 200
  BY DEF UploadArrives, IInv
<1>2. PICK url \in Names : url = m.answer.url
  BY <1>1, MessageContents
<1>3. me' \in [name : NamesOf \union {Nothing}, avatar : Names \union {NoUrl}]
  BY <1>1 DEF IInv, BrowserOK
<1>4. CASE m.here
  <2>1. page' = [page EXCEPT !.avatar = url, !.urls = @ \union {url}]
    BY <1>2, <1>4 DEF UploadArrives
  <2>2. InProfile /\ m.token = auth.token
    BY <1>1, <1>4 DEF Awaited
  <2>3. OwnPicture(url, auth.user) /\ PageOK
    BY <1>1, <1>2, <2>2, SessionIs DEF Attributed
  <2>4. page \in Forms
    BY DEF IInv, BrowserOK
  <2>5. /\ page' \in Forms /\ page'.name = page.name /\ page'.names = page.names
        /\ page'.avatar = url /\ page'.urls = page.urls \union {url}
    BY <1>2, <2>1, <2>4 DEF Forms
  <2>6. page'.name \in page'.names /\ OwnName(page'.name, auth.user)
    BY <2>3, <2>5 DEF PageOK, OwnForm
  <2> QED BY <1>1, <1>3, <2>2, <2>3, <2>5, <2>6, FilledInv
<1>5. CASE ~m.here
  BY <1>1, <1>3, <1>5, FilledInv DEF UploadArrives
<1> QED BY <1>4, <1>5

LEMMA RejectedInv ==
    ASSUME IInv, NEW m \in sent, Rejected(m)
    PROVE  IInv'
<1>1. UNCHANGED <<auth, me, view, page, count, server>> /\ sent' \subseteq sent
  BY DEF Rejected
<1>2. me' \in [name : NamesOf \union {Nothing}, avatar : Names \union {NoUrl}]
  BY <1>1 DEF IInv, BrowserOK
<1> QED BY <1>1, <1>2, FilledInv

LEMMA SendsInv ==
    ASSUME IInv,
           \/ \E u \in Users, right \in BOOLEAN : SubmitLogin(u, right)
           \/ Upload \/ Save
    PROVE  IInv'
<1>1. UNCHANGED <<auth, me, view, page, server>>
  BY DEF SubmitLogin, Upload, Save
<1>2. UNCHANGED <<auth, me, view, page, tokens, rows, files, shared>>
  BY <1>1 DEF server, filesVars
<1>3. BrowserOK'
  <2>1. InProfile => PageOK'
    BY <1>2, SessionIs DEF PageOK, OwnForm, OwnName, OwnPicture
  <2> QED BY <1>2, <2>1 DEF IInv, BrowserOK, InProfile
<1>4. \A k \in sent : Awaited(k)'
  BY <1>2 DEF IInv, Awaited, InProfile
<1>5. CASE \E u \in Users, right \in BOOLEAN : SubmitLogin(u, right)
  <2>1. PICK u \in Users, right \in BOOLEAN : SubmitLogin(u, right)
    BY <1>5
  <2>2. Send("login", [user |-> u, right |-> right])
    BY <2>1 DEF SubmitLogin
  <2> QED BY <1>1, <1>3, <1>4, <2>2, SentInv
<1>6. CASE Upload
  <2>1. Send("upload", "picture") /\ InProfile'
    BY <1>6 DEF Upload, InProfile
  <2> QED BY <1>1, <1>3, <1>4, <2>1, SentInv
<1>7. CASE Save
  <2>1. Send("update", page) /\ InProfile /\ InProfile'
    BY <1>7 DEF Save, InProfile
  <2> QED BY <1>1, <1>3, <1>4, <2>1, SentInv
<1> QED BY <1>5, <1>6, <1>7

LEMMA OpenProfileInv ==
    ASSUME IInv, OpenProfile
    PROVE  IInv'
<1>1. /\ UNCHANGED <<auth, me, server, tokens, rows, files, shared>>
      /\ view = "home" /\ auth.token # 0 /\ view' = "profile" /\ page' = Opened
      /\ Send("me", "nothing")
  BY DEF OpenProfile, server, filesVars
<1>2. auth # Nobody /\ auth.user \in Users
  BY <1>1, SessionIs DEF Nobody
<1>3. rows[auth.user] \in Rows
  BY <1>2 DEF IInv, ServerOK
<1>4. /\ page' \in Forms /\ page'.name = Nothing /\ page'.avatar = NoUrl
      /\ page'.names = {Nothing, rows[auth.user].name}
      /\ page'.urls = {NoUrl, rows[auth.user].avatar}
  BY <1>1, <1>3 DEF Opened, EmptyForm, Absent, Forms, Rows
<1>5. PageOK'
  BY <1>1, <1>4 DEF PageOK, OwnForm, OwnName, OwnPicture
<1>6. BrowserOK'
  BY <1>1, <1>2, <1>4, <1>5 DEF IInv, BrowserOK, InProfile
<1>7. \A k \in sent : Awaited(k)'
  BY <1>1 DEF IInv, Awaited, InProfile
<1>8. InProfile'
  BY <1>1 DEF InProfile
<1> QED BY <1>1, <1>6, <1>7, <1>8, SentInv

-----------------------------------------------------------------------------
(* The theorems. *)

LEMMA NextInv ==
    ASSUME IInv, [Next]_vars
    PROVE  IInv'
<1>1. CASE UNCHANGED vars
  <2>1. UNCHANGED <<auth, me, view, page, sent, count, server>>
    BY <1>1 DEF vars, server
  <2>2. me' \in [name : NamesOf \union {Nothing}, avatar : Names \union {NoUrl}]
    BY <2>1 DEF IInv, BrowserOK
  <2> QED BY <2>1, <2>2, FilledInv
<1>2. CASE \/ OpenProfile \/ Leave \/ Logout \/ Upload \/ Save
           \/ \E to \in {"login", "home"} : Reload(to)
           \/ \E u \in Users, right \in BOOLEAN : SubmitLogin(u, right)
           \/ \E name \in Typed(auth.user) : Type(name)
  BY <1>2, OpenProfileInv, LeaveInv, LogoutInv, SendsInv, ReloadInv, TypeInv
<1>3. CASE \/ \E u \in Users : \E row \in Entered(u) : Elsewhere(u, row)
           \/ \E name \in Names : OthersUpload(name)
           \/ \E t \in DOMAIN tokens : Expire(t)
           \/ \E u \in DOMAIN open : FinishUpload(u) \/ BreakUpload(u)
  BY <1>3, ElsewhereInv, OthersUploadInv, ExpireInv, FinishUploadInv, BreakUploadInv
<1>4. CASE \E m \in sent :
              \/ ServeLogin(m) \/ Refuse(m) \/ ServeMe(m) \/ ServeUpdate(m)
              \/ \E name \in Names : ServeUpload(m, name)
              \/ LoginArrives(m) \/ MeArrives(m) \/ UpdateArrives(m) \/ UploadArrives(m)
              \/ RefusalArrives(m) \/ Rejected(m)
  BY <1>4, ServeLoginInv, RefuseInv, ServeMeInv, ServeUpdateInv, ServeUploadInv,
     LoginArrivesInv, MeArrivesInv, UpdateArrivesInv, UploadArrivesInv, RefusalArrivesInv,
     RejectedInv
<1> QED BY <1>1, <1>2, <1>3, <1>4 DEF Next

LEMMA Invariance == Spec => []IInv
BY InitInv, NextInv, PTL DEF Spec

LEMMA TypeFollows == IInv => TypeOK
<1> SUFFICES ASSUME IInv PROVE TypeOK
  OBVIOUS
<1>1. FormOK(me) /\ FormOK(page)
  BY DEF IInv, BrowserOK, Forms, FormOK
<1>2. \A m \in sent : m.no \in 1..count /\ (m.op = "update" => FormOK(m.with))
  BY MessageContents DEF IInv, Attributed, Forms, FormOK
<1>3. \A u \in Users : RowsOK(rows[u])
  BY DEF IInv, ServerOK, Rows, RowsOK
<1> QED BY <1>1, <1>2, <1>3 DEF IInv, ServerOK, BrowserOK, InProfile, TypeOK

\* Every state the browser, the requests and the server can be in is well-formed;
\* a session is that of the user its token was signed for, and the profile is
\* open in a session only (RequireAuth, authStore, request.ts).
THEOREM TypeCorrect == Spec => []TypeOK
BY Invariance, TypeFollows, PTL

\* Nobody's profile gets a name that somebody else entered, for any number of
\* users, sessions and requests under way (Profile, authStore, request.ts,
\* UserService.UpdateProfile).
THEOREM ProfilesCorrect == Spec => []ProfilesAreOwn
<1>1. IInv => ProfilesAreOwn
  BY DEF IInv, ServerOK
<1> QED BY <1>1, Invariance, PTL

\* A save takes nothing back that is older than its page (Profile.onSave).
THEOREM SavesCorrect == Spec => []SavesAreOfThisPage
<1>1. IInv => SavesAreOfThisPage
  BY DEF IInv
<1> QED BY <1>1, Invariance, PTL

\* The picture of a profile is its user's own, and whole, unless its name was
\* given to two uploads (SaveUploadedImage, AvatarUploader, Profile).
THEOREM AvatarsCorrect == Spec => []AvatarsAreWhole
<1>1. IInv => AvatarsAreWhole
  BY DEF IInv, ServerOK
<1> QED BY <1>1, Invariance, PTL

LEMMA SessionStep ==
    ASSUME IInv, Next, auth # Nobody, auth' # auth
    PROVE  \/ IsLogout
           \/ \E m \in sent \ sent' :
                 \/ m.op = "login" /\ m.answer.status \in {200, 401}
                 \/ m.answer.status = 401 /\ (m.token = auth.token => m.token \in expired)
<1>1. CASE Logout
  BY <1>1 DEF Logout, IsLogout
<1>2. ASSUME NEW m \in sent, LoginArrives(m)
      PROVE  m \notin sent' /\ m.op = "login" /\ m.answer.status = 200
  <2>1. sent' = Unmounted(sent \ {m}) /\ m.op = "login" /\ m.answer.status = 200
    BY <1>2 DEF LoginArrives
  <2>2. ASSUME NEW k \in sent \ {m} PROVE m # [k EXCEPT !.here = FALSE]
    <3>1. [k EXCEPT !.here = FALSE].no = k.no
      BY <2>2, MessageUnmounted DEF IInv
    <3> QED BY <2>2, <3>1 DEF IInv
  <2> QED BY <2>1, <2>2 DEF Unmounted
<1>3. ASSUME NEW m \in sent, RefusalArrives(m)
      PROVE  /\ m \notin sent' /\ m.answer.status = 401
             /\ m.op # "login" /\ m.token = auth.token => m.token \in expired
  <2>1. m \notin sent' /\ m.answer.status = 401
    BY <1>3 DEF RefusalArrives, EndsSession
  <2>2. m.op # "login" => m.token = 0 \/ m.token \in expired
    BY <2>1 DEF IInv, Attributed
  <2> QED BY <2>1, <2>2, SessionIs
<1>4. ASSUME NEW m \in sent,
             \/ ServeLogin(m) \/ Refuse(m) \/ ServeMe(m) \/ ServeUpdate(m)
             \/ \E name \in Names : ServeUpload(m, name)
             \/ MeArrives(m) \/ UpdateArrives(m) \/ UploadArrives(m) \/ Rejected(m)
      PROVE  FALSE
  BY <1>4 DEF ServeLogin, Refuse, ServeMe, ServeUpdate, ServeUpload, browser,
              MeArrives, UpdateArrives, UploadArrives, Rejected
<1>5. CASE \/ OpenProfile \/ Leave \/ Upload \/ Save
           \/ \E to \in {"login", "home"} : Reload(to)
           \/ \E u \in Users, right \in BOOLEAN : SubmitLogin(u, right)
           \/ \E name \in Typed(auth.user) : Type(name)
           \/ \E u \in Users : \E row \in Entered(u) : Elsewhere(u, row)
           \/ \E name \in Names : OthersUpload(name)
           \/ \E t \in DOMAIN tokens : Expire(t)
           \/ \E u \in DOMAIN open : FinishUpload(u) \/ BreakUpload(u)
  BY <1>5 DEF OpenProfile, Leave, Upload, Save, Reload, SubmitLogin, Type, Elsewhere,
              OthersUpload, Expire, FinishUpload, BreakUpload, AnswerUpload, browser
<1> QED BY <1>1, <1>2, <1>3, <1>4, <1>5 DEF Next

\* A session ends only when its user says so, when another login succeeds, or on
\* a 401 - for a request of this very session, only if its token has expired
\* (request.ts, authStore, Layout).
THEOREM SessionsCorrect == Spec => SessionsEndForAReason
<1>1. ASSUME IInv, [Next]_vars
      PROVE  [(auth # Nobody /\ auth' # auth) =>
                 \/ IsLogout
                 \/ \E m \in sent \ sent' :
                       \/ m.op = "login" /\ m.answer.status \in {200, 401}
                       \/ m.answer.status = 401 /\ (m.token = auth.token => m.token \in expired)]_vars
  BY <1>1, SessionStep
<1> QED BY <1>1, Invariance, PTL DEF Spec, SessionsEndForAReason

============================================================================
