---------------------------- MODULE ProfilePage ----------------------------
(***************************************************************************)
(* The session of the browser and the page of a user's own profile:        *)
(* stores/authStore.ts, stores/userStore.ts, the interceptors of           *)
(* utils/request.ts, the guards, Login, Layout and Profile - with the      *)
(* server behind them.  Sessions come and go while requests are under way: *)
(* each request carries the token of the moment it was sent, and what      *)
(* stands behind its "await" is carried out in the session of the moment   *)
(* its answer arrives.                                                     *)
(*                                                                         *)
(* A profile update is one step of the server here: Accounts models it as  *)
(* the two statements it is.  "shared" and two fields of "page" are history. *)
(***************************************************************************)
EXTENDS Naturals, Uploads

CONSTANTS Users,
          Versions,       \* what a name can be changed to
          MaxSent,        \* bound: requests sent by the page
          MaxPending      \* bound: how many are under way at a time

\* Uploading takes a session.
ASSUME ProfileAssumption == Users \subseteq Owners

VARIABLES auth,           \* authStore, kept in local storage
          me,             \* userStore
          view,           \* the route on show
          page,           \* the state of Profile
          sent, count,    \* requests under way, and how many there were
          tokens,         \* the user of each token ever signed, by its login
          expired,        \* tokens that are
          rows            \* the users' table

vars == <<auth, me, view, page, sent, count, tokens, expired, rows, filesVars>>
server == <<tokens, expired, rows, filesVars>>

\* A name belongs to the one who entered it.
Typed(u) == {[of |-> u, text |-> v] : v \in Versions}
Nothing == [of |-> "nobody", text |-> "none"]
NoUrl == "none"

Nobody == [token |-> 0, user |-> "nobody"]

\* A faulty variant: the user is not reset.
TokenCleared == [auth EXCEPT !.token = 0]

\* authStore.logout
LoggedOut == Nobody

----------------------------------------------------------------------------
(* Requests. *)

Unanswered == [status |-> 0]
Failed == [status |-> 400]
Unauthorized == [status |-> 401]

\* The request interceptor attaches the token of this moment. "here" says that
\* the component which waits for the answer is still mounted.
Request(op, with) ==
    [no |-> count + 1, op |-> op, token |-> auth.token, here |-> TRUE,
     with |-> with, answer |-> Unanswered]

Send(op, with) ==
    /\ count < MaxSent
    /\ count' = count + 1
    /\ sent' = sent \union {Request(op, with)}
    /\ Cardinality(sent') <= MaxPending

Unmounted(messages) == {[m EXCEPT !.here = FALSE] : m \in messages}

Answer(m, answer) == sent' = (sent \ {m}) \union {[m EXCEPT !.answer = answer]}

----------------------------------------------------------------------------
(* The browser. *)

\* The last two are history: what was stored since the page was opened, or entered on it.
Absent == [name |-> Nothing, avatar |-> NoUrl, names |-> {}, urls |-> {}]

\* A faulty variant: the form starts from what the store still has.
FormFromStore == [name |-> me.name, avatar |-> me.avatar, names |-> {}, urls |-> {}]

\* A form that is mounted is empty.
EmptyForm == Absent

Opened == [EmptyForm EXCEPT !.names = {Nothing, rows[auth.user].name},
                            !.urls = {NoUrl, rows[auth.user].avatar}]

NoMe == [name |-> Nothing, avatar |-> NoUrl]

Init ==
    /\ auth = Nobody /\ me = NoMe
    /\ view = "login" /\ page = Absent
    /\ sent = {} /\ count = 0
    /\ tokens = [t \in {} |-> "nobody"] /\ expired = {}
    /\ rows = [u \in Users |-> [name |-> [of |-> u, text |-> "first"], avatar |-> NoUrl]]
    /\ InitFiles

\* Login.onFinish; the password is right or not, and the button can be clicked again.
SubmitLogin(u, right) ==
    /\ view = "login"
    /\ Send("login", [user |-> u, right |-> right])
    /\ UNCHANGED <<auth, me, view, page, server>>

\* RequireAuth lets nobody pass who has no token.
OpenProfile ==
    /\ view = "home" /\ auth.token # 0
    /\ view' = "profile"
    /\ page' = Opened
    /\ Send("me", "nothing")
    /\ UNCHANGED <<auth, me, server>>

Leave ==
    /\ view = "profile"
    /\ view' = "home" /\ page' = Absent
    /\ sent' = Unmounted(sent)
    /\ UNCHANGED <<auth, me, count, server>>

\* The dropdown of Layout: the program is not loaded anew.
Logout ==
    /\ view # "login"
    /\ auth' = LoggedOut
    /\ view' = "login" /\ page' = Absent
    /\ sent' = Unmounted(sent)
    /\ UNCHANGED <<me, count, server>>

\* F5, or an address is typed in: the session is read from local storage,
\* everything else begins anew, and answers to what was sent reach nobody.
Reload(to) ==
    /\ to = "login" \/ (to = "home" /\ auth.token # 0)
    /\ view' = to /\ page' = Absent /\ me' = NoMe
    /\ sent' = {}
    /\ UNCHANGED <<auth, count, server>>

Type(name) ==
    /\ view = "profile"
    /\ page' = [page EXCEPT !.name = name, !.names = @ \union {name}]
    /\ UNCHANGED <<auth, me, view, sent, count, server>>

\* AvatarUploader: beforeUpload.
Upload ==
    /\ view = "profile"
    /\ Send("upload", "picture")
    /\ UNCHANGED <<auth, me, view, page, server>>

\* Profile.onSave, up to its await.
Save ==
    /\ view = "profile"
    /\ Send("update", page)
    /\ UNCHANGED <<auth, me, view, page, server>>

----------------------------------------------------------------------------
(* The server. *)

browser == <<auth, me, view, count>>

ServeLogin(m) ==
    /\ m.op = "login" /\ m.answer = Unanswered
    /\ IF m.with.right
         THEN /\ tokens' = [t \in DOMAIN tokens \union {m.no} |->
                                IF t = m.no THEN m.with.user ELSE tokens[t]]
              /\ Answer(m, [status |-> 200])
         ELSE Answer(m, Unauthorized) /\ UNCHANGED tokens
    /\ UNCHANGED <<browser, page, expired, rows, filesVars>>

\* AuthRequired lets a request pass whose token has not expired.
IsValid(m) == m.token \in DOMAIN tokens \ expired
User(m) == tokens[m.token]

Refuse(m) ==
    /\ m.op # "login" /\ m.answer = Unanswered
    /\ ~IsValid(m)
    /\ m.no \notin DOMAIN open
    /\ Answer(m, Unauthorized)
    /\ UNCHANGED <<browser, page, server>>

ServeMe(m) ==
    /\ m.op = "me" /\ m.answer = Unanswered
    /\ IsValid(m)
    /\ Answer(m, [status |-> 200, row |-> rows[User(m)]])
    /\ UNCHANGED <<browser, page, server>>

\* The row of u is written, here or elsewhere; who has opened the profile of u
\* may come to know of it.
Written(u, row) ==
    /\ rows' = [rows EXCEPT ![u] = row]
    /\ page' = IF view = "profile" /\ auth.user = u
                 THEN [page EXCEPT !.names = @ \union {row.name}, !.urls = @ \union {row.avatar}]
                 ELSE page

\* UserService.UpdateProfile: what is empty stays as it was.
Edited(row, with) ==
    [name   |-> IF with.name = Nothing THEN row.name ELSE with.name,
     avatar |-> IF with.avatar = NoUrl THEN row.avatar ELSE with.avatar]

ServeUpdate(m) ==
    /\ m.op = "update" /\ m.answer = Unanswered
    /\ IsValid(m)
    /\ LET row == Edited(rows[User(m)], m.with)
       IN  Written(User(m), row) /\ Answer(m, [status |-> 200, row |-> row])
    /\ UNCHANGED <<browser, tokens, expired, filesVars>>

ServeUpload(m, name) ==
    /\ m.op = "upload" /\ m.answer = Unanswered
    /\ IsValid(m)
    /\ CreateFile(m.no, User(m), name)
    /\ UNCHANGED <<browser, page, sent, tokens, expired, rows>>

\* A faulty variant: the error of io.Copy is not looked at.
OkAnyhow(u) == [status |-> 200, url |-> open[u].name]

Broken(u) == Failed

\* Whoever waits for it is told; it may be nobody any more.
AnswerUpload(u, answer) ==
    /\ sent' = {IF m.no = u THEN [m EXCEPT !.answer = answer] ELSE m : m \in sent}
    /\ UNCHANGED <<browser, page, tokens, expired, rows>>

FinishUpload(u) ==
    /\ Copy(u)
    /\ AnswerUpload(u, [status |-> 200, url |-> open[u].name])

BreakUpload(u) ==
    /\ CopyFails(u)
    /\ AnswerUpload(u, Broken(u))

Expire(t) ==
    /\ t \in DOMAIN tokens \ expired
    /\ expired' = expired \union {t}
    /\ UNCHANGED <<browser, page, sent, tokens, rows, filesVars>>

\* The user changes his profile on another device; or it is a request of this
\* browser after all, one that nobody waits for any more.
Elsewhere(u, row) ==
    /\ Written(u, row)
    /\ UNCHANGED <<browser, sent, tokens, expired, filesVars>>

\* What other devices send: the server would take any text for an avatar, but
\* they are assumed to send a whole picture of their owner's, or what they have.
Entered(u) ==
    [name   : Typed(u) \union {rows[u].name},
     avatar : {n \in Names : files[n] = [of |-> {u}, whole |-> TRUE]} \union {rows[u].avatar}]

OthersUpload(name) ==
    /\ UploadElsewhere(name)
    /\ UNCHANGED <<browser, page, sent, tokens, expired, rows>>

----------------------------------------------------------------------------
(* The answers. *)

\* A faulty variant: the user is not taken from the page he is on.
LoginArrivesInPlace(m) ==
    /\ m.op = "login" /\ m.answer.status = 200
    /\ auth' = [token |-> m.no, user |-> m.with.user]
    /\ view' = IF view = "login" THEN "home" ELSE view
    /\ sent' = sent \ {m}
    /\ UNCHANGED <<me, page, count, server>>

\* authStore.login, and navigate("/dashboard") behind it - from wherever the
\* user is by now.
LoginArrives(m) ==
    /\ m.op = "login" /\ m.answer.status = 200
    /\ auth' = [token |-> m.no, user |-> m.with.user]
    /\ view' = "home" /\ page' = Absent
    /\ sent' = Unmounted(sent \ {m})
    /\ UNCHANGED <<me, count, server>>

\* userStore.fetchMe, and what Profile does then if it is still there.
MeArrives(m) ==
    /\ m.op = "me" /\ m.answer.status = 200
    /\ me' = m.answer.row
    /\ page' = IF m.here
                 THEN [page EXCEPT !.name = m.answer.row.name, !.avatar = m.answer.row.avatar]
                 ELSE page
    /\ sent' = sent \ {m}
    /\ UNCHANGED <<auth, view, count, server>>

UpdateArrives(m) ==
    /\ m.op = "update" /\ m.answer.status = 200
    /\ me' = m.answer.row
    /\ sent' = sent \ {m}
    /\ UNCHANGED <<auth, view, page, count, server>>

UploadArrives(m) ==
    /\ m.op = "upload" /\ m.answer.status = 200
    /\ page' = IF m.here
                 THEN [page EXCEPT !.avatar = m.answer.url, !.urls = @ \union {m.answer.url}]
                 ELSE page
    /\ sent' = sent \ {m}
    /\ UNCHANGED <<auth, me, view, count, server>>

\* A faulty variant: whatever the server answers with an error ends the session.
EndsSessionAnyhow(m) == m.answer.status \in {400, 401}

EndsSession(m) == m.answer.status = 401

\* A 401 - to any request, one of an earlier session or a wrong password
\* included - ends the session of this moment, and unless the login is on show,
\* loads the program anew.
RefusalArrives(m) ==
    /\ EndsSession(m)
    /\ auth' = LoggedOut
    /\ view' = "login" /\ page' = Absent
    /\ sent' = IF view = "login" THEN sent \ {m} ELSE {}
    /\ me' = IF view = "login" THEN me ELSE NoMe
    /\ UNCHANGED <<count, server>>

\* Any other failure, a lost answer, or none within fifteen seconds: a message.
Rejected(m) ==
    /\ ~EndsSession(m)
    /\ sent' = sent \ {m}
    /\ UNCHANGED <<auth, me, view, page, count, server>>

Next ==
    \/ OpenProfile \/ Leave \/ Logout \/ Upload \/ Save
    \/ \E to \in {"login", "home"} : Reload(to)
    \/ \E u \in Users, right \in BOOLEAN : SubmitLogin(u, right)
    \/ \E name \in Typed(auth.user) : Type(name)
    \/ \E u \in Users : \E row \in Entered(u) : Elsewhere(u, row)
    \/ \E name \in Names : OthersUpload(name)
    \/ \E t \in DOMAIN tokens : Expire(t)
    \/ \E u \in DOMAIN open : FinishUpload(u) \/ BreakUpload(u)
    \/ \E m \in sent :
          \/ ServeLogin(m) \/ Refuse(m) \/ ServeMe(m) \/ ServeUpdate(m)
          \/ \E name \in Names : ServeUpload(m, name)
          \/ LoginArrives(m) \/ MeArrives(m) \/ UpdateArrives(m) \/ UploadArrives(m)
          \/ RefusalArrives(m) \/ Rejected(m)

Spec == Init /\ [][Next]_vars

----------------------------------------------------------------------------
(* Properties *)

NamesOf == UNION {Typed(u) \union {[of |-> u, text |-> "first"]} : u \in Users}
RowsOK(row) == row.name \in NamesOf /\ row.avatar \in Names \union {NoUrl}
FormOK(form) == form.name \in NamesOf \union {Nothing} /\ form.avatar \in Names \union {NoUrl}

\* Type invariant; a session is that of the user its token was signed for, and
\* the profile is open in a session only.
TypeOK ==
    /\ DOMAIN tokens \subseteq 1..count /\ \A t \in DOMAIN tokens : tokens[t] \in Users
    /\ expired \subseteq DOMAIN tokens
    /\ auth = Nobody \/ (auth.token \in DOMAIN tokens /\ auth.user = tokens[auth.token])
    /\ view \in {"login", "home", "profile"} /\ (auth = Nobody => view = "login")
    /\ FormOK(me) /\ FormOK(page) /\ (view # "profile" => page = Absent)
    /\ \A m \in sent : m.no \in 1..count /\ (m.op = "update" => FormOK(m.with))
    /\ \A u \in Users : RowsOK(rows[u])
    /\ FilesOK

\* Nobody's profile gets a name that somebody else entered, whatever sessions
\* followed each other in this browser and whichever answers came late
\* (Profile, authStore, request.ts).
ProfilesAreOwn == \A u \in Users : rows[u].name.of = u

\* What a save sends was entered or uploaded on this page, or was in the user's
\* row at some moment since the page was opened: it may take back what another
\* device has changed meanwhile, but nothing older (Profile.onSave sends the
\* whole form).
SavesAreOfThisPage ==
    \A m \in sent : m.op = "update" => m.with.name \in m.with.names /\ m.with.avatar \in m.with.urls

\* The picture of a profile is one its user has uploaded, and whole, unless its
\* name was given to two uploads (SaveUploadedImage).
AvatarsAreWhole ==
    \A u \in Users :
      LET url == rows[u].avatar
      IN  url # NoUrl => url \in shared \/ files[url] = [of |-> {u}, whole |-> TRUE]

IsLogout == view # "login" /\ view' = "login" /\ sent' = Unmounted(sent)

\* A session ends only when its user says so, when another login succeeds, or on
\* a 401 - which, if it answers a request of this session, means that the token
\* has expired; but it can be one to an earlier request, or a wrong password
\* (the response interceptor does not ask which token was refused).
SessionsEndForAReason ==
    [][(auth # Nobody /\ auth' # auth) =>
         \/ IsLogout
         \/ \E m \in sent \ sent' :
               \/ m.op = "login" /\ m.answer.status \in {200, 401}
               \/ m.answer.status = 401 /\ (m.token = auth.token => m.token \in expired)]_vars

----------------------------------------------------------------------------
(***************************************************************************)
(* The inductive invariant (proved in ProfilePageProofs).                  *)
(***************************************************************************)

Rows == [name : NamesOf, avatar : Names \union {NoUrl}]
Forms == [name : NamesOf \union {Nothing}, avatar : Names \union {NoUrl},
          names : SUBSET (NamesOf \union {Nothing}), urls : SUBSET (Names \union {NoUrl})]

LoginMessages ==
    [no : Nat, op : {"login"}, token : Nat, here : BOOLEAN,
     with : [user : Users, right : BOOLEAN], answer : [status : {0, 200, 401}]]
MeMessages ==
    [no : Nat, op : {"me"}, token : Nat, here : BOOLEAN, with : {"nothing"},
     answer : [status : {0, 401}] \union [status : {200}, row : Rows]]
UpdateMessages ==
    [no : Nat, op : {"update"}, token : Nat, here : BOOLEAN, with : Forms,
     answer : [status : {0, 401}] \union [status : {200}, row : Rows]]
UploadMessages ==
    [no : Nat, op : {"upload"}, token : Nat, here : BOOLEAN, with : {"picture"},
     answer : [status : {0, 400, 401}] \union [status : {200}, url : Names]]
Messages == LoginMessages \union MeMessages \union UpdateMessages \union UploadMessages

OwnName(name, u) == name = Nothing \/ name.of = u
OwnPicture(url, u) == url # NoUrl => url \in shared \/ files[url] = [of |-> {u}, whole |-> TRUE]
OwnForm(form, u) == OwnName(form.name, u) /\ OwnPicture(form.avatar, u)

\* One upload writes to a file, or its name was given twice.
WritersAreAlone ==
    \A v \in DOMAIN open :
        \/ open[v].name \in shared
        \/ /\ files[open[v].name] = Truncated(open[v].who)
           /\ \A w \in DOMAIN open : open[w].name = open[v].name => w = v

ServerOK ==
    /\ count \in Nat
    /\ DOMAIN tokens \subseteq 1..count /\ \A t \in DOMAIN tokens : tokens[t] \in Users
    /\ expired \subseteq DOMAIN tokens
    /\ rows \in [Users -> Rows] /\ ProfilesAreOwn /\ AvatarsAreWhole
    /\ FilesOK /\ DOMAIN open \subseteq 1..count /\ WritersAreAlone

InProfile == view = "profile"

\* What the page holds was stored since it was opened, or entered on it, and is
\* that of the session's user.
PageOK ==
    /\ rows[auth.user].name \in page.names /\ rows[auth.user].avatar \in page.urls
    /\ page.name \in page.names /\ page.avatar \in page.urls
    /\ OwnForm(page, auth.user)

BrowserOK ==
    /\ auth \in [token : Nat, user : Users \union {"nobody"}]
    /\ auth = Nobody \/ (auth.token \in DOMAIN tokens /\ auth.user = tokens[auth.token])
    /\ me \in [name : NamesOf \union {Nothing}, avatar : Names \union {NoUrl}]
    /\ view \in {"login", "home", "profile"} /\ (auth = Nobody => view = "login")
    /\ page \in Forms
    /\ IF InProfile THEN PageOK ELSE page = Absent

\* Whom a request comes from, and that it carries what is that user's own; only a
\* login that was answered has given a token, and only to an upload without an
\* answer a file is open; who is refused had no token or one that has expired.
Attributed(m) ==
    /\ m.no \in 1..count /\ m.token \in DOMAIN tokens \union {0}
    /\ m.no \in DOMAIN tokens => m.op = "login" /\ m.answer.status # 0
    /\ m.op = "login" /\ m.answer.status = 200 =>
          m.no \in DOMAIN tokens /\ tokens[m.no] = m.with.user
    /\ m.op # "login" /\ m.answer.status = 401 => m.token = 0 \/ m.token \in expired
    /\ m.no \in DOMAIN open =>
          /\ m.op = "upload" /\ m.answer.status = 0
          /\ m.token \in DOMAIN tokens /\ open[m.no].who = tokens[m.token]
    /\ m.op = "update" => m.token \in DOMAIN tokens /\ OwnForm(m.with, tokens[m.token])
    /\ m.op = "me" /\ m.answer.status = 200 =>
          m.token \in DOMAIN tokens /\ OwnForm(m.answer.row, tokens[m.token])
    /\ m.op = "upload" /\ m.answer.status = 200 =>
          m.token \in DOMAIN tokens /\ OwnPicture(m.answer.url, tokens[m.token])

\* Who waits for an answer on the page waits in the session that asked for it, and
\* a row he gets is one that was stored since the page was opened.
Awaited(m) ==
    m.here /\ m.op # "login" =>
        /\ InProfile /\ m.token = auth.token
        /\ m.op = "me" /\ m.answer.status = 200 =>
              m.answer.row.name \in page.names /\ m.answer.row.avatar \in page.urls

IInv ==
    /\ ServerOK /\ BrowserOK
    /\ sent \subseteq Messages
    /\ \A m, n \in sent : m.no = n.no => m = n
    /\ \A m \in sent : Attributed(m) /\ Awaited(m)
    /\ SavesAreOfThisPage

=============================================================================
