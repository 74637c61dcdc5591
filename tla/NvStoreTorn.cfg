CONSTANTS
    Tuples = {"t"}
    Reserved = {"r"}
    Evictables = {"e"}
    Size <- BodySize
    MaxVal = 2
    PageWords = 8
    PageCount = 10
    Updates = 1
    CrashAt = {"word"}
    MaxCrashes = 1
    MaxOps = 2
SPECIFICATION Spec
INVARIANT RecoveryKeepsCommitted
CHECK_DEADLOCK FALSE
