CONSTANTS
    Deferred = {"reinstate", "ap_off", "tpm_rst", "reboot"}
    MaxWrites = 2
    MaxEnv = 4
SPECIFICATION Spec
PROPERTY CommitsReinstated
CHECK_DEADLOCK FALSE
