SPECIFICATION ObserverFairSpec
CONSTANTS
    s1 = s1
    s2 = s2
    u1 = u1
    u2 = u2
    t1 = t1
    SessionIds = {s1, s2}
    Users = {u1, u2}
    Tokens = {t1}
    MaxReports = 1
    None = None
INVARIANTS
    EndedIsRevoked
PROPERTY RowsGo
CHECK_DEADLOCK FALSE
