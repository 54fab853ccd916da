SPECIFICATION Spec
CONSTANTS
    Tokens = {t1, t2}
    Patterns = {p1, p2}
    Uncompilable <- MCUncompilable
    Unreadable = Unreadable
    Requests = {r1}
    Updates = {u1}
    Retries = 4
    MaxWrites = 1
CHECK_DEADLOCK FALSE
INVARIANTS
    TypeOK
    SnapshotIsolation
    EngineNotOlderThanDigest
    BudgetsOnlyForValidTokens
PROPERTY
    KeyringNeverEmptied
