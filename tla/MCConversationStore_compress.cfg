SPECIFICATION TSpec
CONSTANTS
    Ids = {i1, i2}
    LegacyIds = {i2}
    Workspaces = {w1, w2}
    Contents = {"a", "b"}
    Marked = {}
    Sessions = {s1}
PROPERTIES
    CompressLosesNothing
