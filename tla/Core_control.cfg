SPECIFICATION Spec
CONSTANTS
    core = core
    logger = logger
    domain = domain
    t1 = t1
    t2 = t2
    Objects <- MCObjects
    CoreObject = core
    NoObject = NoObject
    StartupPriority <- MCStartup
    ShutdownPriority <- MCShutdown
    Threads = {t1, t2}
    Section <- MCGrow
    CanFail = {domain}
    CanLogFatal = {logger, domain}
    CanDropCallback = {domain}
INVARIANTS
    TypeOK
    NoReloadLost
    RunningMeansStarted
    StartFindsInitialized
    AbortContained
    StopInOrder
    ShutdownAnnounced
PROPERTIES
    ImplementsLifecycleSafely
CHECK_DEADLOCK FALSE
SYMMETRY ThreadSymmetry
