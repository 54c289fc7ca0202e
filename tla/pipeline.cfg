SPECIFICATION Spec
CONSTANTS
    ann = ann
    will = will
    Requests = {r1, r2}
    Users = {ann, will}
    RoleOf <- MCRoleOf
    Nobody = nobody
INVARIANTS
    WritesAreAdmitted
    AuditIsTrue
    GapsAreKnown
