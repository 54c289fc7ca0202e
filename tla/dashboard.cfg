SPECIFICATION Spec
CONSTANTS
    t1 = t1
    t2 = t2
    w1 = w1
    w2 = w2
    Workers = {w1, w2}
    Viewers = {v}
    Trainings = {t1, t2}
    Months = {1, 2}
    Lists = {empty, crew}
    Absent = Absent
    Rates = {80}
    Certs = {c}
    Year = 2
    MaxMonth = 3
SYMMETRY Symmetry
INVARIANTS
    FigureIsCovered
    MonthIsCurrent
PROPERTIES
    ListsAreKept
    DecisionsStand
