SPECIFICATION FairSpec
CONSTANTS
    Tokens = {t1, t2}
    Patterns = {p1}
    Uncompilable = {}
    Unreadable = Unreadable
    Requests = {}
    Updates = {}
    Retries = 2
    MaxWrites = 2
CHECK_DEADLOCK FALSE
PROPERTY
    LastWriteTakesEffect
