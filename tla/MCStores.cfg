SPECIFICATION MCSpec
CONSTANTS
    Submitters = {s1}
    Flushers = {f1, f2}
    Creds = {k1, k2}
    None = None
    Capacity = 2
    BatchSize = 2
    MaxRetries = 2
    MaxEvents = 4
    JournalCapacity = 2
    DrainMax = 2
    MaxWrites = 4
    Ids = {i1}
    LegacyIds = {}
    Workspaces = {w1, w2}
    Contents = {"b"}
    Marked = {"b"}
    Sessions = {c1, c2}
    Procs = {p1, p2, p3}
    Agents = {a1}
    Nobody = Nobody
    Lease = 2
    MaxTime = 6
SYMMETRY Symmetry
CHECK_DEADLOCK FALSE
INVARIANTS
    EveryEventOnce
    OrderKept
    ReplayOrder
    TypeOK
    SlotExclusive
    ServingReachable
    ListedByLease
PROPERTIES
    RevokedUnused
    JournalKept
    DirectIsolation
    OnlyRewindBreaks
