SPECIFICATION FairSpec
CONSTANTS
    Tables <- MCTables
    UsersTable = "users"
    Presets <- MCPresets
    MaxInterruptions = 3
CHECK_DEADLOCK FALSE
INVARIANTS
    SeededOnce
    ReferencesHold
    GapsComeFromCuts
PROPERTY
    ServesInTheEnd
