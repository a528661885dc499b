SPECIFICATION LoggerSpec
CONSTANTS
    Writer = {a, b}
    NoWriter = NoWriter
    MaxReloads = 2
INVARIANTS AbortIsTold LastWordsTrue
CHECK_DEADLOCK FALSE
