SPECIFICATION Spec
CONSTANTS
    Threads = {worker}
    hang_timeout = 2
    errors_ttl = 2
    errors_limit = 2
    warnings_ttl = 1
    warnings_limit = 1
    stop_with_fatal_log_entry = TRUE
    MaxTime = 4
    MaxLogged = 3
INVARIANTS
    TypeOK
PROPERTIES
    AnswersHistory
CHECK_DEADLOCK FALSE
