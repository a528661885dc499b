SPECIFICATION FairSpec
CONSTANTS
    Files = {"main", "part"}
    Main = "main"
    MaxEdits = 2
    MaxTime = 3
    PollChanges = TRUE
    ReloadSighup = TRUE
INVARIANTS
    TypeOK
    InForceIsValid
    NoSilentChange
PROPERTIES
    SeenChangeIsRead
CHECK_DEADLOCK FALSE
