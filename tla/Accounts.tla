------------------------------ MODULE Accounts ------------------------------
(***************************************************************************)
(* UserService with its handler and repository.  Registering looks the     *)
(* number up, hashes the password - which takes long - and inserts; what   *)
(* happens in between it does not see.  Logging in reads the row and later *)
(* compares the password and signs a token.  Changing a profile reads the  *)
(* row and later writes ALL its columns back.                              *)
(*                                                                         *)
(* "logins" is a history variable.                                         *)
(***************************************************************************)
EXTENDS Naturals

CONSTANTS
    Ids,            \* primary keys of the table users
    Phones,         \* telephone numbers
    Passwords,      \* passwords long enough to be accepted
    Roles,          \* constants.UserRoleValues
    Names,          \* names and avatars a user may give
    Blank,          \* the empty name
    Workers         \* request goroutines

ASSUME BlankAssumption == Blank \notin Names

VARIABLES
    users,          \* the table users, by id
    tokens,         \* the tokens issued
    req,            \* what each worker has at hand
    answer,         \* the last answer of each worker
    logins          \* history: what each token was granted for

vars == <<users, tokens, req, answer, logins>>

Rows == [phone : Phones, password : Passwords, role : Roles,
         name : Names \cup {Blank}, avatar : Names \cup {Blank}]

Tokens == [id : Ids, phone : Phones, role : Roles]

Idle == [op |-> "none"]
NoAnswer == [code |-> 0]
Failed(code) == [code |-> code]

Init ==
    /\ users = [id \in {} |-> {}]
    /\ tokens = {}
    /\ logins = {}
    /\ req = [w \in Workers |-> Idle]
    /\ answer = [w \in Workers |-> NoAnswer]

IsIdle(w) == req[w].op = "none"

\* The request is answered.
Reply(w, a) ==
    /\ answer' = [answer EXCEPT ![w] = a]
    /\ req' = [req EXCEPT ![w] = Idle]

\* The request goes on with what it has read.
Keep(w, r) ==
    /\ req' = [req EXCEPT ![w] = r]
    /\ answer' = [answer EXCEPT ![w] = NoAnswer]

\* FindByPhone: the ids under which a number is stored.
Holders(phone) == {id \in DOMAIN users : users[id].phone = phone}

-----------------------------------------------------------------------------

\* Register, up to the INSERT: a number that is there is refused.
Register(w, row) ==
    /\ IsIdle(w)
    /\ IF Holders(row.phone) # {} THEN Reply(w, Failed(400))
       ELSE Keep(w, [op |-> "register", row |-> row])
    /\ UNCHANGED <<users, tokens, logins>>

\* A faulty variant: the error of the INSERT is not looked at.
InsertIgnoringErrors(w, id) ==
    /\ req[w].op = "register"
    /\ Reply(w, [code |-> 200, id |-> id, sent |-> req[w].row])
    /\ UNCHANGED <<users, tokens, logins>>

\* The unique index of the column phone.
Accepts(phone) == Holders(phone) = {}

Created(id, row) ==
    users' = [i \in DOMAIN users \cup {id} |-> IF i = id THEN row ELSE users[i]]

\* The INSERT, under a key the database chooses: of two registrations of one
\* number that both passed the check, the second is turned down by the index
\* and answered 500.
Insert(w, id) ==
    LET row == req[w].row IN
    /\ req[w].op = "register"
    /\ id \notin DOMAIN users
    /\ IF Accepts(row.phone)
         THEN Created(id, row) /\ Reply(w, [code |-> 200, id |-> id, sent |-> row])
         ELSE UNCHANGED users /\ Reply(w, Failed(500))
    /\ UNCHANGED <<tokens, logins>>

-----------------------------------------------------------------------------

\* Login, up to the comparison of the password.
Login(w, phone, password) ==
    /\ IsIdle(w)
    /\ IF Holders(phone) = {} THEN Reply(w, Failed(401))
       ELSE \E id \in Holders(phone) :
              Keep(w, [op |-> "login", id |-> id, row |-> users[id], password |-> password])
    /\ UNCHANGED <<users, tokens, logins>>

\* A faulty variant: the password is not compared.
MatchesAny(r) == TRUE

\* bcrypt.CompareHashAndPassword
Matches(r) == r.row.password = r.password

\* GenerateToken: id, number and role as the row was read.
Sign(w) ==
    LET r == req[w] IN
    /\ r.op = "login"
    /\ IF Matches(r)
         THEN /\ tokens' = tokens \cup {[id |-> r.id, phone |-> r.row.phone, role |-> r.row.role]}
              /\ logins' = logins \cup
                    {[phone |-> r.row.phone, role |-> r.row.role, password |-> r.password]}
              /\ Reply(w, NoAnswer)
         ELSE UNCHANGED <<tokens, logins>> /\ Reply(w, Failed(401))
    /\ UNCHANGED users

-----------------------------------------------------------------------------

\* UpdateProfile, up to the UPDATE, by the holder of a token; an empty field
\* is left alone.
UpdateProfile(w, token, name, avatar) ==
    /\ IsIdle(w)
    /\ token \in tokens
    /\ IF token.id \notin DOMAIN users THEN Reply(w, Failed(500))
       ELSE Keep(w, [op |-> "profile", id |-> token.id, row |-> users[token.id],
                     name |-> name, avatar |-> avatar])
    /\ UNCHANGED <<users, tokens, logins>>

\* A faulty variant: the row is made from the request alone, so that the role
\* falls back to the default.
EditedAfresh(r) ==
    [r.row EXCEPT !.name = r.name, !.avatar = r.avatar, !.role = "worker"]

Edited(r) ==
    [r.row EXCEPT !.name = IF r.name = Blank THEN @ ELSE r.name,
                  !.avatar = IF r.avatar = Blank THEN @ ELSE r.avatar]

\* gorm Save: every column of the row.
SaveProfile(w) ==
    LET r == req[w] IN
    /\ r.op = "profile"
    /\ users' = [users EXCEPT ![r.id] = Edited(r)]
    /\ Reply(w, NoAnswer)
    /\ UNCHANGED <<tokens, logins>>

\* A statement of the request, the first one included, fails: answered 500.
\* What it was to write may be committed all the same, when only the
\* connection broke.
StatementFails(w) ==
    LET r == req[w] IN
    /\ Reply(w, Failed(500))
    /\ \/ UNCHANGED users
       \/ r.op = "profile" /\ users' = [users EXCEPT ![r.id] = Edited(r)]
       \/ /\ r.op = "register" /\ Accepts(r.row.phone)
          /\ \E id \in Ids \ DOMAIN users : Created(id, r.row)
    /\ UNCHANGED <<tokens, logins>>

\* The process ends; the table stays, and so do the tokens its clients keep.
Crash ==
    /\ req' = [w \in Workers |-> Idle]
    /\ answer' = [w \in Workers |-> NoAnswer]
    /\ UNCHANGED <<users, tokens, logins>>

NewRows == {row \in Rows : row.avatar = Blank}

Next ==
    \/ \E w \in Workers :
          \/ \E row \in NewRows : Register(w, row)
          \/ \E phone \in Phones, password \in Passwords : Login(w, phone, password)
          \/ \E token \in tokens, name, avatar \in Names \cup {Blank} :
                UpdateProfile(w, token, name, avatar)
          \/ \E id \in Ids : Insert(w, id)
          \/ Sign(w) \/ SaveProfile(w) \/ StatementFails(w)
    \/ Crash

Spec == Init /\ [][Next]_vars

-----------------------------------------------------------------------------
(***************************************************************************)
(* The properties.                                                         *)
(***************************************************************************)

Pending ==
    [op : {"register"}, row : NewRows]
      \cup [op : {"login"}, id : Ids, row : Rows, password : Passwords]
      \cup [op : {"profile"}, id : Ids, row : Rows,
            name : Names \cup {Blank}, avatar : Names \cup {Blank}]

\* Types: what is stored, issued and answered keeps its shape.
TypeOK ==
    /\ DOMAIN users \subseteq Ids
    /\ users \in [DOMAIN users -> Rows]
    /\ tokens \subseteq Tokens
    /\ logins \subseteq [phone : Phones, role : Roles, password : Passwords]
    /\ req \in [Workers -> Pending \cup {Idle}]
    /\ answer \in [Workers -> [code : {200}, id : Ids, sent : NewRows]
                                \cup [code : {0, 400, 401, 500}]]

\* However registrations overlap, a number is stored once.
PhonesAreUnique ==
    \A i, j \in DOMAIN users : users[i].phone = users[j].phone => i = j

\* Whoever was told that the registration succeeded owns the account: number,
\* password and role are those sent, not those of somebody faster.
RegisteredOwnsAccount ==
    \A w \in Workers : answer[w].code = 200 =>
        LET a == answer[w] IN
        /\ a.id \in DOMAIN users
        /\ users[a.id].phone = a.sent.phone
        /\ users[a.id].password = a.sent.password
        /\ users[a.id].role = a.sent.role

\* A token speaks the truth for as long as it lives: the role in it, which
\* RequireRole trusts without asking the table, is the one of the account.
TokensAreTrue ==
    \A t \in tokens :
        /\ t.id \in DOMAIN users
        /\ users[t.id].phone = t.phone
        /\ users[t.id].role = t.role

\* The accounts as AccountBook sees them.
Owner(phone) == CHOOSE id \in DOMAIN users : users[id].phone = phone

Book ==
    [phone \in {users[id].phone : id \in DOMAIN users} |->
        [password |-> users[Owner(phone)].password, role |-> users[Owner(phone)].role]]

Promise == INSTANCE AccountBook WITH
    book <- Book,
    granted <- logins

\* With whole rows written back by overlapping profile updates, numbers,
\* passwords and roles still never change, and a token is only granted to
\* who gives the password of its account: the code implements AccountBook.
ImplementsAccountBook == Promise!Spec

-----------------------------------------------------------------------------
(* The inductive invariant. *)

\* What a profile update never changes.
SameIdentity(a, b) == a.phone = b.phone /\ a.password = b.password /\ a.role = b.role

\* A row that a request holds, however old, is still that of its account but
\* for the name and the avatar.
HeldRowsAreTrue ==
    \A w \in Workers : req[w].op \in {"login", "profile"} =>
        /\ req[w].id \in DOMAIN users
        /\ SameIdentity(users[req[w].id], req[w].row)

IInv ==
    /\ TypeOK
    /\ PhonesAreUnique
    /\ HeldRowsAreTrue
    /\ RegisteredOwnsAccount
    /\ TokensAreTrue

=============================================================================
