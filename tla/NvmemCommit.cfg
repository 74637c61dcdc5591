CONSTANTS
    Deferred = {"reinstate", "ap_off", "tpm_rst", "reboot", "wipe"}
    MaxWrites = 2
    MaxEnv = 5
SPECIFICATION Spec
INVARIANTS LockCoversPending UnsavedIsLocked TpmCanReinstate
     CommittedBeforeReboot SavedBeforeDeepSleep
CHECK_DEADLOCK FALSE
