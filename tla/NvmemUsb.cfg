CONSTANTS
    Deferred = {"reinstate", "ap_off", "tpm_rst", "reboot", "wipe", "usb", "usb_open"}
    MaxWrites = 2
    MaxEnv = 4
SPECIFICATION Spec
INVARIANT CommittedBeforeReboot
CHECK_DEADLOCK FALSE
