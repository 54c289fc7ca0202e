SPECIFICATION Spec
CONSTANTS
    w1 = w1
    w2 = w2
    p1 = p1
    p2 = p2
    id1 = id1
    id2 = id2
    Ids = {id1, id2}
    Phones = {p1, p2}
    Passwords = {secret, other}
    Roles = {"worker", "admin"}
    Names = {wang}
    Blank = Blank
    Workers = {w1, w2}
SYMMETRY Symmetry
INVARIANTS
    RegisteredOwnsAccount
    TokensAreTrue
PROPERTY
    ImplementsAccountBook
