SPECIFICATION FairSpec

CONSTANTS
    site = site
    empty = empty
    rail = rail
    helmet = helmet
    ghost = ghost
    Inspections = {site, empty}
    ItemsOf <- MCItemsOf
    Strangers = {ghost}
    Requests <- MCRequests
    FloatShort <- MCFloatShort
    Workers = {w1, w2}
    NoOne = NoOne

INVARIANTS
    TypeOK
    ExactListIsExplained
    FinalReportIsConsistent

PROPERTIES
    VerdictIsFinal
    ImplementsAtomic
    RequestsAreAnswered
