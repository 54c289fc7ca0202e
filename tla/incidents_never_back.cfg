SPECIFICATION Spec

CONSTANTS
    seeded = seeded
    fresh = fresh
    w1 = w1
    w2 = w2
    w3 = w3
    NoText = NoText
    SeedRows <- MCSeedRows
    Ids = {seeded, fresh}
    Workers = {w1, w2}
    Texts = {fix, refit}

PROPERTIES
    StatusNeverGoesBack
