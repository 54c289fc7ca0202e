SPECIFICATION Spec
CONSTANTS
    rail = rail
    helmet = helmet
    Inspections = {1, 2}
    ItemsOf <- MCItemsOf
    RowsToAPage = 1
    Turns = {1, 2}
    Incidents = {1, 2}
    SeverityOf <- MCSeverityOf
    StatusOptions = {"reported"}
    MaxSent = 5
    MaxPending = 2
CHECK_DEADLOCK FALSE
INVARIANTS
    TypeOK
    SuccessIsOwn
    ListAnswersFilter
    StepsAreOfWhatWasSeen
    ShownIsChosen
