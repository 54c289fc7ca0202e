SPECIFICATION Spec
CONSTANTS
    u1 = u1
    u2 = u2
    f1 = f1
    f2 = f2
    Users = {u1, u2}
    Owners = {u1, u2}
    Names = {f1, f2}
    Versions = {"second"}
    MaxSent = 4
    MaxPending = 2
SYMMETRY MCSymmetry
INVARIANTS
    TypeOK
    ProfilesAreOwn
    SavesAreOfThisPage
    AvatarsAreWhole
PROPERTIES
    SessionsEndForAReason
