---------------------------- MODULE AccountBook ----------------------------
(***************************************************************************)
(* What the accounts promise: a telephone number is registered once, and   *)
(* with it, for good, a password and a role; whoever holds a token once    *)
(* knew the password of the account it names.  Accounts is the code.       *)
(***************************************************************************)
CONSTANTS
    Phones,         \* telephone numbers
    Passwords,      \* passwords
    Roles           \* constants.UserRoleValues

VARIABLES
    book,           \* the password and role of each registered number
    granted         \* the tokens issued: the number and the role in them,
                    \* and the password they were given for

bvars == <<book, granted>>

Credentials == [password : Passwords, role : Roles]

Init ==
    /\ book = [p \in {} |-> {}]
    /\ granted = {}

Enter(phone, credentials) ==
    /\ phone \notin DOMAIN book
    /\ book' = [p \in DOMAIN book \cup {phone} |->
                   IF p = phone THEN credentials ELSE book[p]]
    /\ UNCHANGED granted

Grant(phone, password) ==
    /\ phone \in DOMAIN book
    /\ book[phone].password = password
    /\ granted' = granted \cup
          {[phone |-> phone, role |-> book[phone].role, password |-> password]}
    /\ UNCHANGED book

Next ==
    \E phone \in Phones :
        \/ \E credentials \in Credentials : Enter(phone, credentials)
        \/ \E password \in Passwords : Grant(phone, password)

Spec == Init /\ [][Next]_bvars

=============================================================================
