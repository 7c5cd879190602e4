SPECIFICATION Spec
CONSTANTS
    Tools = {"todo"}
    MaxCalls = 1
    MaxAnswers = 3
    MaxRequests = 1
    ErrorLimit = 1
    Todos = {t1}
    Escaped = {t1}
    VerifyTodos = TRUE
    Compacts = FALSE
CHECK_DEADLOCK FALSE
INVARIANTS
    LimitHolds
