SPECIFICATION Spec
CONSTANTS
    Versions = {1, 2, 3}
    Broken = {3}
    RwOnly = {3}
    KeyOf <- KeyOf2
    NumBlocks = 2
    Chunks = 2
    RW_BOOT_MAX_RETRY_COUNT = 2
    EarlyUpdates = FALSE
    MaxSessions = 5
    MaxResets = 2
INVARIANT  AckedIsComplete
PROPERTY  FallsBack
CHECK_DEADLOCK FALSE
