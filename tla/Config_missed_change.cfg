SPECIFICATION FairSpec
CONSTANTS
    Files = {"main", "part"}
    Main = "main"
    MaxEdits = 2
    MaxTime = 3
    PollChanges = TRUE
    ReloadSighup = TRUE
PROPERTIES
    FileChangeIsReloaded
CHECK_DEADLOCK FALSE
