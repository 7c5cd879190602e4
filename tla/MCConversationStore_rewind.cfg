SPECIFICATION TSpec
CONSTANTS
    Ids = {i1}
    LegacyIds = {}
    Workspaces = {w1}
    Contents = {"a", "b"}
    Marked = {"b"}
    Sessions = {s1}
INVARIANTS
    ContextReadable
