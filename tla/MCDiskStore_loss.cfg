SPECIFICATION DSpec
CONSTANTS
    JournalCapacity = 2
    DrainMax = 2
    MaxWrites = 4
CHECK_DEADLOCK FALSE
INVARIANTS
    AtLeastOnce
