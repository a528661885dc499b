SPECIFICATION FairSpec
CONSTANTS
    Launches = {a, b, c}
    NoLaunch = NoLaunch
    autoup = TRUE
    success_autoup = FALSE
    MaxRestarts = 2
    MaxInode = 3
INVARIANTS
    PidFileAtFirst
    OptionsOfFirstStart
PROPERTIES
    EndedIsRestarted
CHECK_DEADLOCK FALSE
