SPECIFICATION Spec
CONSTANTS
    Tools = {"write"}
    MaxCalls = 1
    MaxAnswers = 2
    MaxRequests = 2
    ErrorLimit = 2
    Todos = {}
    Escaped = {}
    VerifyTodos = FALSE
    Compacts = FALSE
CHECK_DEADLOCK FALSE
PROPERTIES
    GuardPersists
