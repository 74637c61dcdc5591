CONSTANTS
    Labels = {l1}
    Schedule <- MCSchedule
    LogEntryCount = 2
    BlockAttempts = 5
    RestartThreshold = 2
    MaxTimer = 5
    MaxRestarts = 2
    MaxInserts = 2
    MaxTrees = 2
    MaxAttempts = 3
SPECIFICATION Spec
INVARIANTS GuessesCounted CanCatchUp
PROPERTIES DelayEnforced ClearedIsGone
CHECK_DEADLOCK FALSE
