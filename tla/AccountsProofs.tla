--------------------------- MODULE AccountsProofs ---------------------------
(***************************************************************************)
(* Proofs about Accounts for any workers, numbers, passwords and names:    *)
(* whatever overlaps, fails or crashes, rows keep their identity - number, *)
(* password and role - and every row a request still holds has that of its *)
(* account.  From this follow the truth of tokens and answers, and that    *)
(* the code implements AccountBook.                                        *)
(***************************************************************************)
EXTENDS Accounts, TLAPS

\* What a step may do to the table: rows are added, and keep their identity.
UsersKept ==
    /\ DOMAIN users \subseteq DOMAIN users'
    /\ DOMAIN users' \subseteq Ids
    /\ users' \in [DOMAIN users' -> Rows]
    /\ PhonesAreUnique'
    /\ \A id \in DOMAIN users : SameIdentity(users'[id], users[id])

LEMMA NewRowsAreRows == \A row \in NewRows : row \in Rows
  BY DEF NewRows

\* Editing a row leaves its identity alone.
LEMMA EditedKeepsIdentity ==
    ASSUME NEW r \in Pending, r.op = "profile"
    PROVE  Edited(r) \in Rows /\ SameIdentity(Edited(r), r.row)
<1>1. r.row \in Rows /\ r.name \in Names \cup {Blank} /\ r.avatar \in Names \cup {Blank}
  BY DEF Pending
<1> QED BY <1>1 DEF Edited, Rows, SameIdentity

\* Nothing is written.
LEMMA NothingWritten ==
    ASSUME IInv, UNCHANGED users
    PROVE  UsersKept
  BY DEF IInv, TypeOK, PhonesAreUnique, UsersKept, SameIdentity

\* A profile is saved over whatever was stored meanwhile.
LEMMA ProfileSaved ==
    ASSUME IInv, NEW w \in Workers, req[w].op = "profile",
           users' = [users EXCEPT ![req[w].id] = Edited(req[w])]
    PROVE  UsersKept
<1> DEFINE r == req[w]
<1>1. r \in Pending
  BY DEF IInv, TypeOK, Idle
<1>2. Edited(r) \in Rows /\ SameIdentity(Edited(r), r.row)
  BY <1>1, EditedKeepsIdentity
<1>3. r.id \in DOMAIN users /\ SameIdentity(users[r.id], r.row)
  BY DEF IInv, HeldRowsAreTrue
<1>4. DOMAIN users' = DOMAIN users /\ users' \in [DOMAIN users' -> Rows]
  BY <1>2 DEF IInv, TypeOK
<1>5. \A id \in DOMAIN users : SameIdentity(users'[id], users[id])
  BY <1>2, <1>3 DEF SameIdentity
<1>6. PhonesAreUnique'
  BY <1>4, <1>5 DEF IInv, PhonesAreUnique, SameIdentity
<1> QED BY <1>4, <1>5, <1>6 DEF UsersKept, IInv, TypeOK

\* A row is inserted that the index accepts.
LEMMA RowInserted ==
    ASSUME IInv, NEW id \in Ids \ DOMAIN users, NEW row \in NewRows,
           Accepts(row.phone), Created(id, row)
    PROVE  UsersKept /\ id \in DOMAIN users' /\ users'[id] = row
<1>1. /\ DOMAIN users' = DOMAIN users \cup {id}
      /\ users'[id] = row
      /\ \A i \in DOMAIN users : users'[i] = users[i]
  BY DEF Created
<1>2. users' \in [DOMAIN users' -> Rows]
  BY <1>1, NewRowsAreRows DEF Created, IInv, TypeOK
<1>3. \A i \in DOMAIN users : users[i].phone # row.phone
  BY DEF Accepts, Holders
<1>4. PhonesAreUnique'
  BY <1>1, <1>3 DEF IInv, PhonesAreUnique
<1> QED BY <1>1, <1>2, <1>4 DEF UsersKept, SameIdentity, IInv, TypeOK

\* What the requests and tokens rely on outlives the step of another worker.
LEMMA IdentityOutlives ==
    ASSUME IInv, UsersKept
    PROVE  /\ \A w \in Workers : req[w].op \in {"login", "profile"} =>
                /\ req[w].id \in DOMAIN users'
                /\ SameIdentity(users'[req[w].id], req[w].row)
           /\ \A w \in Workers : answer[w].code = 200 =>
                /\ answer[w].id \in DOMAIN users'
                /\ SameIdentity(users'[answer[w].id], answer[w].sent)
           /\ \A t \in tokens :
                /\ t.id \in DOMAIN users'
                /\ users'[t.id].phone = t.phone /\ users'[t.id].role = t.role
  BY DEF IInv, UsersKept, HeldRowsAreTrue, RegisteredOwnsAccount, TokensAreTrue, SameIdentity

\* A request is answered, with nothing or with a failure.
LEMMA Answered ==
    ASSUME IInv, UsersKept, NEW w \in Workers, NEW code \in {0, 400, 401, 500},
           Reply(w, Failed(code)), UNCHANGED <<tokens, logins>>
    PROVE  IInv'
<1>1. TypeOK'
  BY DEF IInv, TypeOK, UsersKept, Reply, Failed
<1>2. HeldRowsAreTrue' /\ RegisteredOwnsAccount' /\ TokensAreTrue'
  BY IdentityOutlives
  DEF IInv, TypeOK, HeldRowsAreTrue, RegisteredOwnsAccount, TokensAreTrue, SameIdentity,
      Reply, Failed, Idle
<1> QED BY <1>1, <1>2 DEF IInv, UsersKept

\* A request goes on with a row it has just read, or with the row it will insert.
LEMMA Kept ==
    ASSUME IInv, NEW w \in Workers, NEW r \in Pending, Keep(w, r),
           r.op \in {"login", "profile"} => r.id \in DOMAIN users /\ r.row = users[r.id],
           UNCHANGED <<users, tokens, logins>>
    PROVE  IInv'
<1>1. UsersKept
  BY NothingWritten
<1>2. TypeOK'
  BY DEF IInv, TypeOK, Keep, NoAnswer
<1>3. HeldRowsAreTrue' /\ RegisteredOwnsAccount' /\ TokensAreTrue'
  BY <1>1, IdentityOutlives
  DEF IInv, TypeOK, HeldRowsAreTrue, RegisteredOwnsAccount, TokensAreTrue, SameIdentity,
      Keep, NoAnswer
<1> QED BY <1>1, <1>2, <1>3 DEF IInv, UsersKept

-----------------------------------------------------------------------------

\* The inductive invariant holds at the start ...
LEMMA InitInv == Init => IInv
  BY DEF Init, IInv, TypeOK, PhonesAreUnique, HeldRowsAreTrue, RegisteredOwnsAccount,
         TokensAreTrue, Idle, NoAnswer

LEMMA RegisterInv ==
    ASSUME IInv, NEW w \in Workers, NEW row \in NewRows, Register(w, row)
    PROVE  IInv'
<1>1. CASE Holders(row.phone) # {}
  BY <1>1, NothingWritten, Answered DEF Register
<1>2. CASE Holders(row.phone) = {}
  <2> DEFINE r == [op |-> "register", row |-> row]
  <2>1. r \in Pending
    BY DEF Pending
  <2> QED BY <1>2, <2>1, Kept DEF Register
<1> QED BY <1>1, <1>2

LEMMA InsertInv ==
    ASSUME IInv, NEW w \in Workers, NEW id \in Ids, Insert(w, id)
    PROVE  IInv'
<1> DEFINE row == req[w].row
<1>1. row \in NewRows /\ id \in Ids \ DOMAIN users
  BY DEF IInv, TypeOK, Pending, Idle, Insert
<1>2. CASE ~Accepts(row.phone)
  BY <1>2, NothingWritten, Answered DEF Insert
<1>3. CASE Accepts(row.phone)
  <2>1. UsersKept /\ id \in DOMAIN users' /\ users'[id] = row
    BY <1>1, <1>3, RowInserted DEF Insert
  <2>2. Reply(w, [code |-> 200, id |-> id, sent |-> row]) /\ UNCHANGED <<tokens, logins>>
    BY <1>3 DEF Insert
  <2>3. TypeOK'
    BY <1>1, <2>1, <2>2 DEF IInv, TypeOK, UsersKept, Reply
  <2>4. HeldRowsAreTrue' /\ TokensAreTrue'
    BY <2>1, <2>2, IdentityOutlives
    DEF IInv, TypeOK, HeldRowsAreTrue, TokensAreTrue, SameIdentity, Reply, Idle
  <2>5. RegisteredOwnsAccount'
    BY <2>1, <2>2, IdentityOutlives DEF IInv, TypeOK, RegisteredOwnsAccount, SameIdentity, Reply
  <2> QED BY <2>1, <2>3, <2>4, <2>5 DEF IInv, UsersKept
<1> QED BY <1>2, <1>3

LEMMA LoginInv ==
    ASSUME IInv, NEW w \in Workers, NEW phone \in Phones, NEW password \in Passwords,
           Login(w, phone, password)
    PROVE  IInv'
<1>1. CASE Holders(phone) = {}
  BY <1>1, NothingWritten, Answered DEF Login
<1>2. CASE Holders(phone) # {}
  <2>1. PICK id \in Holders(phone) :
          Keep(w, [op |-> "login", id |-> id, row |-> users[id], password |-> password])
    BY <1>2 DEF Login
  <2> DEFINE r == [op |-> "login", id |-> id, row |-> users[id], password |-> password]
  <2>2. id \in DOMAIN users /\ users[id] \in Rows /\ id \in Ids
    BY DEF Holders, IInv, TypeOK
  <2>3. r \in Pending
    BY <2>2 DEF Pending
  <2> QED BY <2>1, <2>2, <2>3, Kept DEF Login
<1> QED BY <1>1, <1>2

LEMMA SignInv ==
    ASSUME IInv, NEW w \in Workers, Sign(w)
    PROVE  IInv'
<1> DEFINE r == req[w]
           t == [id |-> r.id, phone |-> r.row.phone, role |-> r.row.role]
<1>1. /\ r.id \in Ids /\ r.row \in Rows /\ r.password \in Passwords
      /\ r.id \in DOMAIN users /\ SameIdentity(users[r.id], r.row)
  BY DEF IInv, TypeOK, Pending, Idle, Sign, HeldRowsAreTrue
<1>2. UsersKept
  BY NothingWritten DEF Sign
<1>3. CASE ~Matches(r)
  BY <1>2, <1>3, Answered DEF Sign
<1>4. CASE Matches(r)
  <2>1. /\ tokens' = tokens \cup {t}
        /\ logins' = logins \cup
             {[phone |-> r.row.phone, role |-> r.row.role, password |-> r.password]}
        /\ Reply(w, NoAnswer) /\ UNCHANGED users
    BY <1>4 DEF Sign
  <2>2. TypeOK'
    BY <1>1, <2>1 DEF IInv, TypeOK, Reply, NoAnswer, Tokens, Rows
  <2>3. HeldRowsAreTrue' /\ RegisteredOwnsAccount'
    BY <2>1 DEF IInv, TypeOK, HeldRowsAreTrue, RegisteredOwnsAccount, Reply, NoAnswer, Idle
  <2>4. TokensAreTrue'
    BY <1>1, <2>1 DEF IInv, TokensAreTrue, SameIdentity
  <2> QED BY <1>2, <2>2, <2>3, <2>4 DEF IInv, UsersKept
<1> QED BY <1>3, <1>4

LEMMA UpdateProfileInv ==
    ASSUME IInv, NEW w \in Workers, NEW token \in tokens,
           NEW name \in Names \cup {Blank}, NEW avatar \in Names \cup {Blank},
           UpdateProfile(w, token, name, avatar)
    PROVE  IInv'
<1> DEFINE r == [op |-> "profile", id |-> token.id, row |-> users[token.id],
                 name |-> name, avatar |-> avatar]
<1>1. token.id \in DOMAIN users /\ token.id \in Ids /\ users[token.id] \in Rows
  BY DEF IInv, TypeOK, TokensAreTrue
<1>2. r \in Pending
  BY <1>1 DEF Pending
<1> QED BY <1>1, <1>2, Kept DEF UpdateProfile

LEMMA SaveProfileInv ==
    ASSUME IInv, NEW w \in Workers, SaveProfile(w)
    PROVE  IInv'
<1>1. UsersKept
  BY ProfileSaved DEF SaveProfile
<1>2. Reply(w, Failed(0)) /\ UNCHANGED <<tokens, logins>>
  BY DEF SaveProfile, NoAnswer, Failed
<1> QED BY <1>1, <1>2, Answered

\* Even what was committed without an answer keeps every identity.
LEMMA StatementFailsInv ==
    ASSUME IInv, NEW w \in Workers, StatementFails(w)
    PROVE  IInv' /\ UsersKept
<1> DEFINE r == req[w]
<1>1. UsersKept
  <2>1. CASE UNCHANGED users
    BY <2>1, NothingWritten
  <2>2. CASE r.op = "profile" /\ users' = [users EXCEPT ![r.id] = Edited(r)]
    BY <2>2, ProfileSaved
  <2>3. ASSUME r.op = "register", Accepts(r.row.phone),
               NEW id \in Ids \ DOMAIN users, Created(id, r.row)
        PROVE  UsersKept
    <3>1. r.row \in NewRows
      BY <2>3 DEF IInv, TypeOK, Pending, Idle
    <3> QED BY <2>3, <3>1, RowInserted
  <2> QED BY <2>1, <2>2, <2>3 DEF StatementFails
<1> QED BY <1>1, Answered DEF StatementFails

LEMMA CrashInv ==
    ASSUME IInv, Crash
    PROVE  IInv'
  BY DEF IInv, Crash, TypeOK, PhonesAreUnique, HeldRowsAreTrue, RegisteredOwnsAccount,
         TokensAreTrue, Idle, NoAnswer

\* ... and is kept by every step.
LEMMA NextInv == IInv /\ [Next]_vars => IInv'
<1> SUFFICES ASSUME IInv, [Next]_vars PROVE IInv'
  OBVIOUS
<1>1. CASE UNCHANGED vars
  BY <1>1 DEF vars, IInv, TypeOK, PhonesAreUnique, HeldRowsAreTrue, RegisteredOwnsAccount,
              TokensAreTrue
<1>2. CASE Next
  BY <1>2, RegisterInv, InsertInv, LoginInv, SignInv, UpdateProfileInv, SaveProfileInv,
     StatementFailsInv, CrashInv DEF Next
<1> QED BY <1>1, <1>2

LEMMA Invariant == Spec => []IInv
  BY InitInv, NextInv, PTL DEF Spec

\* What is stored, issued and answered keeps its shape.
THEOREM TypeCorrect == Spec => []TypeOK
<1>1. IInv => TypeOK
  BY DEF IInv
<1> QED BY <1>1, Invariant, PTL

\* However registrations overlap, a number is stored once (UserService.Register
\* and the unique index).
THEOREM PhonesUnique == Spec => []PhonesAreUnique
<1>1. IInv => PhonesAreUnique
  BY DEF IInv
<1> QED BY <1>1, Invariant, PTL

\* Who was told that the registration succeeded owns the account
\* (UserService.Register).
THEOREM RegistrationCorrect == Spec => []RegisteredOwnsAccount
<1>1. IInv => RegisteredOwnsAccount
  BY DEF IInv
<1> QED BY <1>1, Invariant, PTL

\* The number and the role in a token are those of its account for good
\* (GenerateToken, RequireRole, UserService.UpdateProfile).
THEOREM TokensCorrect == Spec => []TokensAreTrue
<1>1. IInv => TokensAreTrue
  BY DEF IInv
<1> QED BY <1>1, Invariant, PTL

-----------------------------------------------------------------------------
(***************************************************************************)
(* The refinement of AccountBook.  The book of a table is a function of    *)
(* the table alone, so that it can be spoken of before and after a step.   *)
(***************************************************************************)

IsUnique(T) == \A i, j \in DOMAIN T : T[i].phone = T[j].phone => i = j

Entry(row) == [password |-> row.password, role |-> row.role]

BookOf(T) ==
    [phone \in {T[id].phone : id \in DOMAIN T} |->
        [password |-> T[CHOOSE id \in DOMAIN T : T[id].phone = phone].password,
         role |-> T[CHOOSE id \in DOMAIN T : T[id].phone = phone].role]]

LEMMA BookIsOfUsers == Book = BookOf(users) /\ Book' = BookOf(users')
  BY DEF Book, BookOf, Owner

\* Under a number that is unique the book has the row with it.
LEMMA BookEntries ==
    ASSUME NEW T, IsUnique(T)
    PROVE  /\ \A p : p \in DOMAIN BookOf(T) <=> \E id \in DOMAIN T : p = T[id].phone
           /\ \A id \in DOMAIN T : BookOf(T)[T[id].phone] = Entry(T[id])
<1>1. ASSUME NEW id \in DOMAIN T
      PROVE  (CHOOSE i \in DOMAIN T : T[i].phone = T[id].phone) = id
  BY DEF IsUnique
<1> QED BY <1>1 DEF BookOf, Entry

\* Rows that keep their identity make the same book.
LEMMA SameBook ==
    ASSUME NEW T, NEW U, IsUnique(T), DOMAIN U = DOMAIN T,
           \A id \in DOMAIN T : SameIdentity(U[id], T[id])
    PROVE  BookOf(U) = BookOf(T)
<1>1. IsUnique(U)
  BY DEF IsUnique, SameIdentity
<1>2. DOMAIN BookOf(U) = DOMAIN BookOf(T)
  BY <1>1, BookEntries DEF SameIdentity
<1>3. ASSUME NEW phone \in DOMAIN BookOf(T)
      PROVE  BookOf(U)[phone] = BookOf(T)[phone]
  <2>1. PICK id \in DOMAIN T : phone = T[id].phone
    BY BookEntries
  <2>2. phone = U[id].phone /\ Entry(U[id]) = Entry(T[id])
    BY <2>1 DEF SameIdentity, Entry
  <2>3. BookOf(T)[T[id].phone] = Entry(T[id])
    BY BookEntries
  <2>4. BookOf(U)[U[id].phone] = Entry(U[id])
    BY <1>1, BookEntries
  <2> QED BY <2>1, <2>2, <2>3, <2>4
<1> QED BY <1>2, <1>3 DEF BookOf

\* A new row makes a new entry.
LEMMA GrownBook ==
    ASSUME NEW T, NEW U, NEW id, NEW row, IsUnique(T), id \notin DOMAIN T,
           \A i \in DOMAIN T : T[i].phone # row.phone,
           U = [i \in DOMAIN T \cup {id} |-> IF i = id THEN row ELSE T[i]]
    PROVE  /\ row.phone \notin DOMAIN BookOf(T)
           /\ BookOf(U) = [p \in DOMAIN BookOf(T) \cup {row.phone} |->
                              IF p = row.phone THEN Entry(row) ELSE BookOf(T)[p]]
<1>1. /\ DOMAIN U = DOMAIN T \cup {id} /\ U[id] = row
      /\ \A i \in DOMAIN T : U[i] = T[i]
  OBVIOUS
<1>2. IsUnique(U)
  BY <1>1 DEF IsUnique
<1>3. row.phone \notin DOMAIN BookOf(T)
  BY BookEntries
<1>4. DOMAIN BookOf(U) = DOMAIN BookOf(T) \cup {row.phone}
  <2>1. \A p : p \in DOMAIN BookOf(T) <=> \E i \in DOMAIN T : p = T[i].phone
    BY BookEntries
  <2>2. \A p : p \in DOMAIN BookOf(U) <=> \E i \in DOMAIN U : p = U[i].phone
    BY <1>2, BookEntries
  <2>3. \A p : p \in DOMAIN BookOf(U) <=> p \in DOMAIN BookOf(T) \/ p = row.phone
    BY <1>1, <2>1, <2>2
  <2> QED BY <2>3
<1>5. BookOf(U)[row.phone] = Entry(row)
  BY <1>1, <1>2, BookEntries
<1>6. ASSUME NEW p \in DOMAIN BookOf(T)
      PROVE  BookOf(U)[p] = BookOf(T)[p]
  <2>1. PICK i \in DOMAIN T : p = T[i].phone
    BY BookEntries
  <2> QED BY <1>1, <1>2, <2>1, BookEntries
<1>7. BookOf(U) = [p \in DOMAIN BookOf(U) |-> BookOf(U)[p]]
  BY DEF BookOf
<1> QED BY <1>3, <1>4, <1>5, <1>6, <1>7

\* A step that keeps the rows and grants nothing leaves the book as it is.
LEMMA BookUntouched ==
    ASSUME IInv, UsersKept, DOMAIN users' = DOMAIN users, UNCHANGED logins
    PROVE  UNCHANGED Promise!bvars
<1>1. IsUnique(users)
  BY DEF IInv, PhonesAreUnique, IsUnique
<1>2. BookOf(users') = BookOf(users)
  BY <1>1, SameBook DEF UsersKept
<1> QED BY <1>2, BookIsOfUsers DEF Promise!bvars

\* An INSERT that the index accepts enters a number.
LEMMA InsertEnters ==
    ASSUME IInv, NEW row \in NewRows, NEW id \in Ids \ DOMAIN users, Accepts(row.phone),
           Created(id, row), UNCHANGED logins
    PROVE  Promise!Next
<1>1. row.phone \in Phones /\ Entry(row) \in Promise!Credentials
  BY DEF NewRows, Rows, Entry, Promise!Credentials
<1>2. IsUnique(users)
  BY DEF IInv, PhonesAreUnique, IsUnique
<1>3. \A i \in DOMAIN users : users[i].phone # row.phone
  BY DEF Accepts, Holders
<1>4. users' = [i \in DOMAIN users \cup {id} |-> IF i = id THEN row ELSE users[i]]
  BY DEF Created
<1>5. /\ row.phone \notin DOMAIN BookOf(users)
      /\ BookOf(users') = [p \in DOMAIN BookOf(users) \cup {row.phone} |->
                              IF p = row.phone THEN Entry(row) ELSE BookOf(users)[p]]
  BY <1>2, <1>3, <1>4, GrownBook
<1>6. Promise!Enter(row.phone, Entry(row))
  BY <1>5, BookIsOfUsers DEF Promise!Enter
<1> QED BY <1>1, <1>6 DEF Promise!Next

\* A token is granted to the password of its account: the row may be old, its
\* identity is not.
LEMMA SignGrants ==
    ASSUME IInv, NEW w \in Workers, Sign(w)
    PROVE  [Promise!Next]_Promise!bvars
<1> DEFINE r == req[w]
<1>1. /\ r.row \in Rows /\ r.password \in Passwords
      /\ r.id \in DOMAIN users /\ SameIdentity(users[r.id], r.row)
  BY DEF IInv, TypeOK, Pending, Idle, Sign, HeldRowsAreTrue
<1>2. CASE ~Matches(r)
  BY <1>2, NothingWritten, BookUntouched DEF Sign
<1>3. CASE Matches(r)
  <2>1. r.row.phone \in Phones
    BY <1>1 DEF Rows
  <2>2. IsUnique(users)
    BY DEF IInv, PhonesAreUnique, IsUnique
  <2>3. r.row.phone \in DOMAIN Book /\ Book[r.row.phone] = Entry(r.row)
    BY <1>1, <2>2, BookEntries, BookIsOfUsers DEF SameIdentity, Entry
  <2>4. UNCHANGED Book
    BY <1>3, BookIsOfUsers DEF Sign
  <2>5. Promise!Grant(r.row.phone, r.password)
    BY <1>3, <2>3, <2>4 DEF Promise!Grant, Sign, Matches, Entry
  <2> QED BY <1>1, <2>1, <2>5 DEF Promise!Next
<1> QED BY <1>2, <1>3

LEMMA StepRefines == IInv /\ [Next]_vars => [Promise!Next]_Promise!bvars
<1> SUFFICES ASSUME IInv, [Next]_vars PROVE [Promise!Next]_Promise!bvars
  OBVIOUS
<1>1. CASE UNCHANGED <<users, logins>>
  BY <1>1, NothingWritten, BookUntouched
<1>2. ASSUME NEW w \in Workers, NEW id \in Ids, Insert(w, id)
      PROVE  [Promise!Next]_Promise!bvars
  <2> DEFINE row == req[w].row
  <2>1. row \in NewRows /\ id \in Ids \ DOMAIN users /\ UNCHANGED logins
    BY <1>2 DEF IInv, TypeOK, Pending, Idle, Insert
  <2>2. CASE Accepts(row.phone)
    BY <1>2, <2>1, <2>2, InsertEnters DEF Insert
  <2>3. CASE ~Accepts(row.phone)
    BY <1>1, <1>2, <2>1, <2>3 DEF Insert
  <2> QED BY <2>2, <2>3
<1>3. ASSUME NEW w \in Workers, req[w].op = "profile", UNCHANGED logins,
             users' = [users EXCEPT ![req[w].id] = Edited(req[w])]
      PROVE  [Promise!Next]_Promise!bvars
  <2>1. DOMAIN users' = DOMAIN users
    BY <1>3
  <2> QED BY <1>3, <2>1, ProfileSaved, BookUntouched
<1>4. ASSUME NEW w \in Workers, StatementFails(w)
      PROVE  [Promise!Next]_Promise!bvars
  <2> DEFINE row == req[w].row
  <2>1. ASSUME req[w].op = "register", Accepts(row.phone),
               NEW id \in Ids \ DOMAIN users, Created(id, row)
        PROVE  [Promise!Next]_Promise!bvars
    <3>1. row \in NewRows
      BY <2>1 DEF IInv, TypeOK, Pending, Idle
    <3> QED BY <1>4, <2>1, <3>1, InsertEnters DEF StatementFails
  <2> QED BY <1>1, <1>3, <1>4, <2>1 DEF StatementFails
<1>5. CASE Next
  BY <1>1, <1>2, <1>3, <1>4, <1>5, SignGrants
  DEF Next, Register, Login, UpdateProfile, SaveProfile, Crash
<1> QED BY <1>1, <1>5 DEF vars

\* Registration, login and profile updates implement AccountBook: a number is
\* entered once, with a password and a role for good, and a token granted only
\* to the password of its account (UserService).
THEOREM RefinesAccountBook == Spec => ImplementsAccountBook
<1>1. Init => Promise!Init
  BY DEF Init, Promise!Init, Book
<1> QED BY <1>1, StepRefines, Invariant, PTL DEF Spec, ImplementsAccountBook, Promise!Spec
=============================================================================
