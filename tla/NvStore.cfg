CONSTANTS
    Tuples = {"t"}
    Reserved = {"r"}
    Evictables = {"e"}
    Size <- BodySize
    MaxVal = 2
    PageWords = 6
    PageCount = 5
    Updates = 3
    CrashAt = {"idle", "new", "erase", "recover"}
    MaxCrashes = 1
    MaxOps = 3
SPECIFICATION Spec
INVARIANTS    NeverFails
CHECK_DEADLOCK FALSE
