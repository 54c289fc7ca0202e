SPECIFICATION ListSpec
CONSTANTS
    Keys = {1, 2, 3}
    MaxRows = 3
    PageSize = 1
INVARIANTS
    OnlyMovesHideRows
    OnlyArrivalsRepeatRows
    PagesMatchTotals
