CONSTANTS
    Tuples = {"t"}
    Reserved = {"r"}
    Evictables = {"e"}
    Size <- BodySize
    MaxVal = 2
    PageWords = 6
    PageCount = 4
    Updates = 3
    CrashAt = {"idle", "new", "old", "word", "span", "compact", "erase", "reserved", "recover"}
    MaxCrashes = 1
    MaxOps = 2
SPECIFICATION Spec
PROPERTY InitCompletes
CHECK_DEADLOCK FALSE
