SPECIFICATION LimiterSpec
CONSTANTS
    alice = alice
    bob = bob
    w1 = w1
    w2 = w2
    Clients = {alice, bob}
    Workers = {w1, w2}
    PerMinute = 2
    Minute = 2
    MaxTime = 5
SYMMETRY Symmetry
INVARIANTS
    AtMostPerMinute
    NoTokenIsLost
