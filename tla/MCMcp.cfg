SPECIFICATION MCSpec
CONSTANTS
    c1 = c1
    l1 = l1
    Callers = {c1, c2}
    UserServers = {u}
    LocalServers = {l1, l2}
    Nobody = Nobody
    Nothing = Nothing
    MaxEdits = 1
    Tasks = {t1, t2, t3}
    NoTask = NoTask
    Permits = 2
    MaxAttempts = 2
    MaxConns = 3
    MaxFailures = 4
CHECK_DEADLOCK FALSE
INVARIANTS
    OnlyTrusted
    ReadyMeansPopulated
    BreakerSound
PROPERTIES
    UpdatesEnd
    NoConnectionDiscarded
