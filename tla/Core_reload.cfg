SPECIFICATION FairSpec
CONSTANTS
    core = core
    logger = logger
    domain = domain
    t1 = t1
    t2 = t2
    Objects <- MCObjects
    CoreObject = core
    NoObject = NoObject
    StartupPriority <- MCStartup
    ShutdownPriority <- MCShutdown
    Threads = {t1}
    Section <- MCChange
    CanFail = {}
    CanLogFatal = {logger, domain}
    CanDropCallback = {domain}
PROPERTIES
    ReloadHonoured
    ImplementsLifecycle
CHECK_DEADLOCK FALSE
