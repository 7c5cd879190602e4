SPECIFICATION MCSpec
CONSTANTS
    Tools = {"task", "write", "agent", "followup", "todo"}
    MaxCalls = 2
    MaxAnswers = 2
    MaxRequests = 2
    ErrorLimit = 1
    Todos = {t1, t2}
    Escaped = {t2}
    VerifyTodos = TRUE
    Compacts = TRUE
    p1 = p1
    Procs = {p1}
    Writers <- OneProcess
    First = First
    NoOne = NoOne
CHECK_DEADLOCK FALSE
INVARIANTS
    TypeOK
    PairedResults
    SentIsStored
    CompletionStored
    RemindsOnce
PROPERTIES
    NoRequestAfterInterrupt
    RoundEnds
    FallbackWaitsForRecovery
    EvictsOwnProbe
    WritesSettle
